------------------------------ MODULE Disputes ------------------------------
(***************************************************************************)
(* Dispute evidence, for one Stripe dispute of one tenant: the webhook     *)
(* handlers for its events, which may be handled late, in any order and    *)
(* again, and submitEvidence, which calls Stripe, adds an EvidenceBundle   *)
(* row and then writes UNDER_REVIEW, whatever the row says by then.  The   *)
(* handler of an update finds the row and updates it by id; as rows stay,  *)
(* that is one step.                                                       *)
(***************************************************************************)
EXTENDS Naturals, Sequences, FiniteSets

CONSTANTS
  Submissions,  \* requests to submit evidence
  MaxEvents     \* bound on the events Stripe sends

VARIABLES
  stripe,      \* the status of the dispute at Stripe
  sent,        \* the statuses of the events, in the order Stripe sent them
  handled,     \* indices of the updates that were written to the row
  dispute,     \* the status of the row
  submission,  \* requests
  evidence,    \* submissions Stripe has accepted
  bundles,     \* submissions with an EvidenceBundle row
  stale        \* the row was last written by a submission, or by an event older
               \* than one it had been given before

disputesVars == <<stripe, sent, handled, dispute, submission, evidence, bundles, stale>>

ASSUME DisputesAssumption == MaxEvents \in Nat

Closed == {"won", "lost", "warning_closed"}
StripeStatuses == {"none", "needs_response", "warning_needs_response", "under_review",
                   "warning_under_review"} \cup Closed

\* mapStripeStatus.
MapStripeStatus(s) ==
  CASE s \in {"needs_response", "warning_needs_response"} -> "NEEDS_RESPONSE"
    [] s \in {"under_review", "warning_under_review"} -> "UNDER_REVIEW"
    [] s = "won" -> "WON" [] s \in {"lost", "warning_closed"} -> "LOST"
    [] OTHER -> "OPEN"

DisputesTypeOK ==
  /\ stripe \in StripeStatuses
  /\ sent \in Seq(StripeStatuses) /\ Len(sent) <= MaxEvents
  /\ handled \subseteq 2..MaxEvents
  /\ dispute \in {"ABSENT", "OPEN", "NEEDS_RESPONSE", "UNDER_REVIEW", "WON", "LOST"}
  /\ submission \in [Submissions -> {"idle", "stripe", "bundle", "status", "done", "error"}]
  /\ evidence \subseteq Submissions /\ bundles \subseteq Submissions
  /\ stale \in BOOLEAN

DisputesInit ==
  /\ stripe = "none" /\ sent = <<>> /\ handled = {} /\ dispute = "ABSENT"
  /\ submission = [u \in Submissions |-> "idle"]
  /\ evidence = {} /\ bundles = {} /\ stale = FALSE

-----------------------------------------------------------------------------
\* Stripe: the dispute is opened, may then take any status an event can
\* announce, a review nobody here has asked for too, and is closed for good.
StripeMoves ==
  /\ Len(sent) < MaxEvents /\ stripe \notin Closed
  /\ \E s \in StripeStatuses \ {"none", stripe} :
       /\ stripe = "none" => s \in {"needs_response", "warning_needs_response"}
       /\ stripe' = s /\ sent' = Append(sent, s)
  /\ UNCHANGED <<handled, dispute, submission, evidence, bundles, stale>>

\* Mutated: the upsert also updates.
HandleCreatedReopens ==
  /\ sent # <<>> /\ dispute' = "OPEN"
  /\ UNCHANGED <<stripe, sent, handled, submission, evidence, bundles, stale>>

\* handleDisputeCreated, for the first event, once or again: the update of the
\* upsert is empty.
HandleCreated ==
  /\ sent # <<>>
  /\ dispute' = IF dispute = "ABSENT" THEN "OPEN" ELSE dispute
  /\ UNCHANGED <<stripe, sent, handled, submission, evidence, bundles, stale>>

\* handleDisputeUpdated, once or again.  Where there is no row it does nothing.
HandleUpdated(i) ==
  /\ i \in DOMAIN sent \ {1} /\ dispute # "ABSENT"
  /\ dispute' = MapStripeStatus(sent[i])
  /\ handled' = handled \cup {i}
  /\ stale' = \E j \in handled : j > i
  /\ UNCHANGED <<stripe, sent, submission, evidence, bundles>>

-----------------------------------------------------------------------------
\* submitEvidence: the row is found, whatever its status.
StartSubmission(u) ==
  /\ submission[u] = "idle" /\ dispute # "ABSENT"
  /\ submission' = [submission EXCEPT ![u] = "stripe"]
  /\ UNCHANGED <<stripe, sent, handled, dispute, evidence, bundles, stale>>

Reviewed(s) == IF s = "needs_response" THEN "under_review"
               ELSE IF s = "warning_needs_response" THEN "warning_under_review" ELSE s

\* disputes.update with submit.  Stripe may take the evidence while the dispute
\* is open; its answer may be lost.
SubmitToStripe(u) ==
  /\ submission[u] = "stripe"
  /\ \/ /\ stripe \notin Closed
        /\ stripe' = Reviewed(stripe)
        /\ \/ stripe' = stripe /\ sent' = sent
           \/ stripe' # stripe /\ Len(sent) < MaxEvents /\ sent' = Append(sent, stripe')
        /\ evidence' = evidence \cup {u}
        /\ \E pc \in {"bundle", "error"} : submission' = [submission EXCEPT ![u] = pc]
     \/ /\ submission' = [submission EXCEPT ![u] = "error"]
        /\ UNCHANGED <<stripe, sent, evidence>>
  /\ UNCHANGED <<handled, dispute, bundles, stale>>

\* evidenceBundle.create; it may fail after Stripe has taken the evidence.
CreateBundle(u) ==
  /\ submission[u] = "bundle"
  /\ \/ bundles' = bundles \cup {u} /\ submission' = [submission EXCEPT ![u] = "status"]
     \/ bundles' = bundles /\ submission' = [submission EXCEPT ![u] = "error"]
  /\ UNCHANGED <<stripe, sent, handled, dispute, evidence, stale>>

\* dispute.update: a status that an event has written since is lost.  It may fail.
MarkUnderReview(u) ==
  /\ submission[u] = "status"
  /\ \/ /\ submission' = [submission EXCEPT ![u] = "done"]
        /\ dispute' = "UNDER_REVIEW"
        /\ stale' = (stale \/ dispute # "UNDER_REVIEW")
     \/ /\ submission' = [submission EXCEPT ![u] = "error"]
        /\ UNCHANGED <<dispute, stale>>
  /\ UNCHANGED <<stripe, sent, handled, evidence, bundles>>

DisputesNext ==
  \/ StripeMoves
  \/ HandleCreated
  \/ \E i \in 2..MaxEvents : HandleUpdated(i)
  \/ \E u \in Submissions :
       StartSubmission(u) \/ SubmitToStripe(u) \/ CreateBundle(u) \/ MarkUnderReview(u)

DisputesSpec == DisputesInit /\ [][DisputesNext]_disputesVars

-----------------------------------------------------------------------------
(* Properties.                                                             *)

\* A bundle is evidence Stripe has taken, a submission that reports success has
\* its bundle, and evidence Stripe has taken lacks one only in a submission that
\* failed or is still to write it (submitEvidence).
EvidenceAccounted ==
  /\ bundles \subseteq evidence
  /\ \A u \in Submissions :
       /\ submission[u] = "done" => u \in bundles
       /\ u \in evidence \ bundles => submission[u] \in {"bundle", "error"}

\* The row says nothing Stripe did not: its status is that of an update it was
\* given, or evidence was taken and it says UNDER_REVIEW; WON and LOST are how
\* the dispute did end; and once it was given the newest update, it shows it until
\* a submission or an older update writes over it.  What Stripe has taken of ours is
\* accounted for (handleDisputeCreated, handleDisputeUpdated, submitEvidence).
RowFollowsStripe ==
  /\ dispute \notin {"ABSENT", "OPEN"} =>
       \/ \E i \in handled : dispute = MapStripeStatus(sent[i])
       \/ dispute = "UNDER_REVIEW" /\ evidence # {}
  /\ dispute \in {"WON", "LOST"} => dispute = MapStripeStatus(stripe)
  /\ Len(sent) \in handled /\ ~ stale => dispute = MapStripeStatus(stripe)
  /\ EvidenceAccounted
=============================================================================
