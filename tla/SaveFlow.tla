------------------------------ MODULE SaveFlow ------------------------------
(***************************************************************************)
(* Cancellation save-flow of one tenant: offers its merchant edits, the    *)
(* widget, which shows a customer an offer and posts the outcome, and the  *)
(* report, whose queries run one beside the other.  The id of the offer    *)
(* comes with the outcome and is checked by the foreign key alone, so that *)
(* the offers of other tenants belong to the picture.  An outcome is a     *)
(* plain create: nothing recognises one that is posted again.              *)
(***************************************************************************)
EXTENDS Naturals, FiniteSets

CONSTANTS
  Offers,    \* save offers merchants may create
  Foreign,   \* those of other tenants
  Changes,   \* requests to update or delete an offer
  Visits,    \* customers with a signed token who open the widget
  Reports,   \* calls of getReport
  MaxPosts   \* bound on how often a visit posts its outcome

ASSUME SaveFlowAssumption == MaxPosts \in Nat /\ Foreign \subseteq Offers

VARIABLES
  offer,     \* SaveOffer rows of all tenants
  change,    \* requests of the merchants
  visit,     \* widget visits; the offer is the one shown or, later, stored
  attempts,  \* CancellationAttempt rows of the tenant, a set of [visit, post, offer]
  report,    \* reports being read
  churned    \* the offers created or deleted during a report

saveFlowVars == <<offer, change, visit, attempts, report, churned>>

NoOffer == "no offer"
Attempt == [visit : Visits, post : 1..MaxPosts, offer : Offers \cup {NoOffer}]

SaveFlowTypeOK ==
  /\ offer \in [Offers -> {"absent", "active", "inactive", "deleted"}]
  /\ change \in [Changes -> [pc : {"idle", "update", "delete", "done", "error"},
                             of : Offers \cup {NoOffer}]]
  /\ visit \in [Visits -> [pc : {"away", "shown", "thanked", "failed"},
                           offer : Offers \cup {NoOffer}, posts : 0..MaxPosts]]
  /\ attempts \subseteq Attempt
  /\ report \in [Reports -> [pc : {"idle", "reading", "answered"}, todo : SUBSET {"groups", "offers"},
                             groups : SUBSET Offers, offers : SUBSET Offers]]
  /\ churned \in [Reports -> SUBSET Offers]

SaveFlowInit ==
  /\ offer = [o \in Offers |-> "absent"]
  /\ change = [c \in Changes |-> [pc |-> "idle", of |-> NoOffer]]
  /\ visit = [v \in Visits |-> [pc |-> "away", offer |-> NoOffer, posts |-> 0]]
  /\ attempts = {}
  /\ report = [r \in Reports |-> [pc |-> "idle", todo |-> {}, groups |-> {}, offers |-> {}]]
  /\ churned = [r \in Reports |-> {}]

Stored == {o \in Offers : offer[o] \in {"active", "inactive"}}
Listed == Stored \ Foreign
Churn(o) == [r \in Reports |-> IF report[r].pc = "reading" THEN churned[r] \cup {o} ELSE churned[r]]

-----------------------------------------------------------------------------
\* The merchants, each with offers of his own.
CreateOffer(o) ==
  /\ offer[o] = "absent"
  /\ \E s \in {"active", "inactive"} : offer' = [offer EXCEPT ![o] = s]
  /\ churned' = Churn(o)
  /\ UNCHANGED <<change, visit, attempts, report>>

\* updateOffer and deleteOffer: findUnique, then update or delete by id.
FindOffer(c) ==
  /\ change[c].pc = "idle"
  /\ \E o \in Stored : \E pc \in {"update", "delete"} :
       change' = [change EXCEPT ![c] = [pc |-> pc, of |-> o]]
  /\ UNCHANGED <<offer, visit, attempts, report, churned>>

ChangeTo(c, pc) == change' = [change EXCEPT ![c].pc = pc]

UpdateOffer(c) ==
  /\ change[c].pc = "update"
  /\ IF change[c].of \in Stored
     THEN /\ \E s \in {"active", "inactive"} : offer' = [offer EXCEPT ![change[c].of] = s]
          /\ ChangeTo(c, "done")
     ELSE offer' = offer /\ ChangeTo(c, "error")
  /\ UNCHANGED <<visit, attempts, report, churned>>

\* Mutated: the attempts of the offer go with it.
DeleteOfferCascades(c) ==
  /\ change[c].pc = "delete" /\ change[c].of \in Stored
  /\ offer' = [offer EXCEPT ![change[c].of] = "deleted"]
  /\ attempts' = {a \in attempts : a.offer # change[c].of}
  /\ churned' = Churn(change[c].of) /\ ChangeTo(c, "done")
  /\ UNCHANGED <<visit, report>>

\* Mutated: no foreign key; the attempts go on naming the offer.
DeleteOfferDangles(c) ==
  /\ change[c].pc = "delete" /\ change[c].of \in Stored
  /\ offer' = [offer EXCEPT ![change[c].of] = "deleted"]
  /\ churned' = Churn(change[c].of) /\ ChangeTo(c, "done")
  /\ UNCHANGED <<visit, report, attempts>>

\* Mutated: the offer is archived instead.
DeleteOfferArchives(c) ==
  /\ change[c].pc = "delete" /\ change[c].of \in Stored
  /\ offer' = [offer EXCEPT ![change[c].of] = "archived"]
  /\ churned' = Churn(change[c].of) /\ ChangeTo(c, "done")
  /\ UNCHANGED <<visit, report, attempts>>

\* The foreign key of the attempts is set to null.
DeleteOffer(c) ==
  LET o == change[c].of IN
  /\ change[c].pc = "delete"
  /\ IF o \in Stored
     THEN /\ offer' = [offer EXCEPT ![o] = "deleted"]
          /\ attempts' = {[a EXCEPT !.offer = IF a.offer = o THEN NoOffer ELSE a.offer] : a \in attempts}
          /\ churned' = Churn(o) /\ ChangeTo(c, "done")
     ELSE UNCHANGED <<offer, attempts, churned>> /\ ChangeTo(c, "error")
  /\ UNCHANGED <<visit, report>>

-----------------------------------------------------------------------------
\* The widget: getOffer answers with an active offer of the tenant, or null.
GetOffer(v) ==
  LET active == {o \in Listed : offer[o] = "active"} IN
  /\ visit[v].pc = "away"
  /\ \E o \in IF active = {} THEN {NoOffer} ELSE active :
       visit' = [visit EXCEPT ![v].pc = "shown", ![v].offer = o]
  /\ UNCHANGED <<offer, change, attempts, report, churned>>

Posts(v, pc, o) == visit' = [visit EXCEPT ![v] = [pc |-> pc, offer |-> o, posts |-> visit[v].posts + 1]]

\* recordOutcome: the post names any offer, whatever was shown, or none, and is
\* stored if the offer exists.  The answer may be lost, and the outcome posted again.
RecordOutcome(v) ==
  /\ visit[v].pc # "thanked" /\ visit[v].posts < MaxPosts
  /\ \E o \in Stored \cup {NoOffer} : \E pc \in {"thanked", "failed"} :
       /\ attempts' = attempts \cup {[visit |-> v, post |-> visit[v].posts + 1, offer |-> o]}
       /\ Posts(v, pc, o)
  /\ UNCHANGED <<offer, change, report, churned>>

\* A post is refused: too many requests, an invalid token, a failing database,
\* or an offer that does not exist (any more).
OutcomeRefused(v) ==
  /\ visit[v].pc # "thanked" /\ visit[v].posts < MaxPosts
  /\ Posts(v, "failed", visit[v].offer)
  /\ UNCHANGED <<offer, change, attempts, report, churned>>

-----------------------------------------------------------------------------
\* getReport: what groupBy and findMany of offers read, in any order.
StartReport(r) ==
  /\ report[r].pc = "idle"
  /\ report' = [report EXCEPT ![r].pc = "reading", ![r].todo = {"groups", "offers"}]
  /\ UNCHANGED <<offer, change, visit, attempts, churned>>

ReadGroups(r) ==
  /\ "groups" \in report[r].todo
  /\ report' = [report EXCEPT ![r].todo = report[r].todo \ {"groups"},
                              ![r].groups = {a.offer : a \in attempts} \ {NoOffer}]
  /\ UNCHANGED <<offer, change, visit, attempts, churned>>

ReadOffers(r) ==
  /\ "offers" \in report[r].todo
  /\ report' = [report EXCEPT ![r].todo = report[r].todo \ {"offers"}, ![r].offers = Listed]
  /\ UNCHANGED <<offer, change, visit, attempts, churned>>

AnswerReport(r) ==
  /\ report[r].pc = "reading" /\ report[r].todo = {}
  /\ report' = [report EXCEPT ![r].pc = "answered"]
  /\ UNCHANGED <<offer, change, visit, attempts, churned>>

SaveFlowNext ==
  \/ \E o \in Offers : CreateOffer(o)
  \/ \E c \in Changes : FindOffer(c) \/ UpdateOffer(c) \/ DeleteOffer(c)
  \/ \E v \in Visits : GetOffer(v) \/ RecordOutcome(v) \/ OutcomeRefused(v)
  \/ \E r \in Reports : StartReport(r) \/ ReadGroups(r) \/ ReadOffers(r) \/ AnswerReport(r)

SaveFlowSpec == SaveFlowInit /\ [][SaveFlowNext]_saveFlowVars

-----------------------------------------------------------------------------
(* Properties.                                                             *)

\* An offer of unknown type is in a report only if that offer was created or
\* deleted while the queries of the report ran, or is another tenant's, which a
\* post has named (getReport, 'UNKNOWN'; recordOutcome).
UnknownNeedsChurn ==
  \A r \in Reports : report[r].pc = "answered" =>
    report[r].groups \ report[r].offers \subseteq Foreign \cup churned[r]

\* An outcome the widget was thanked for is in the attempts, under the offer
\* that was posted or, once this is deleted, under none (recordOutcome, deleteOffer).
OutcomeKept ==
  \A v \in Visits : visit[v].pc = "thanked" => \E a \in attempts :
    /\ a.visit = v /\ a.post = visit[v].posts
    /\ \/ a.offer = visit[v].offer
       \/ visit[v].offer # NoOffer /\ offer[visit[v].offer] = "deleted" /\ a.offer = NoOffer
=============================================================================
