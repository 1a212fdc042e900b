--------------------------- MODULE WebhookMonitor ---------------------------
(***************************************************************************)
(* The webhook monitor of Marginly: inbound Stripe and Shopify deliveries  *)
(* are stored in WebhookEvent and queued in BullMQ; the workers of the API *)
(* process and of the worker process run the jobs; the asynchronous        *)
(* 'failed' handler of the worker annotates retries and moves exhausted    *)
(* jobs to the dead-letter queue; a tenant can replay a stored event.      *)
(*                                                                         *)
(* Every step between two awaits of the code is one action.  A delivery    *)
(* creates at most one row and every request enqueues at most one job, so  *)
(* a row is named by the delivery that stored it and a job by the delivery *)
(* or replay request that enqueued it.                                     *)
(***************************************************************************)
EXTENDS Naturals, FiniteSets

CONSTANTS
  Deliveries,     \* HTTP deliveries the providers may make
  Carries,        \* the event a delivery carries: a record, see README
  Tenants,        \* ids of the rows of the tenants table
  Replays,        \* replay requests users may make
  Requester,      \* the tenant of the user who makes a replay request
  AlertRules,     \* alert rules tenants may create
  Procs, Api,     \* processes that run a worker; the one that serves HTTP
  Concurrency,    \* jobs one worker runs at a time
  MaxAttempts,    \* 'attempts' of a job
  MaxStalls,      \* BullMQ's maxStalledCount
  MaxFaults,      \* bound on crashes and failed enqueue calls
  PromptHandlers, \* a 'failed' handler ends before the job's backoff does
  NoRow, NoProc

ASSUME WebhookAssumption ==
  /\ Deliveries \cap Replays = {}
  /\ NoRow \notin Deliveries
  /\ Api \in Procs /\ NoProc \notin Procs
  /\ MaxAttempts \in Nat \ {0} /\ MaxStalls \in Nat /\ MaxFaults \in Nat
  /\ Concurrency \in Nat \ {0}
  /\ PromptHandlers \in BOOLEAN

VARIABLES
  delivery, \* how far the handler of each delivery has come
  row,      \* WebhookEvent rows
  job,      \* jobs of the queue 'webhook-processing'
  handler,  \* the 'failed' handler run for each attempt of a job
  dlq,      \* entries of the queue 'webhook-dlq'
  audit,    \* 'webhook.dlq' audit entries
  replay,   \* replay requests
  rules,    \* active AlertRule rows
  fired,    \* Slack alerts posted
  faults    \* faults so far, at most MaxFaults

vars == <<delivery, row, job, handler, dlq, audit, replay, rules, fired, faults>>

Workers == Deliveries \cup Replays
Attempts == 1..MaxAttempts

\* WebhookStatus; "ABSENT": no such row.
Status == {"RECEIVED", "PROCESSING", "PROCESSED", "FAILED", "REPLAYED"}

DeliveryPc == {"unsent", "check", "store", "enqueue", "acked", "rejected", "stranded"}
ReplayPc == {"idle", "mark", "enqueue", "done", "rejected", "stranded"}
JobState == {"none", "waiting", "active", "delayed", "stalled", "completed", "failed"}
JobPc == {"idle", "find", "claim", "complete", "rules", "alert"}
HandlerPc == {"none", "retry", "dlq", "mark", "audit", "done", "dead"}

Row == [status : Status \cup {"ABSENT"}, processedAt : BOOLEAN]
Job == [state : JobState, row : Deliveries \cup {NoRow}, attempts : 0..MaxAttempts,
        stalls : 0..MaxStalls, pc : JobPc, proc : Procs \cup {NoProc},
        seen : Status \cup {"ABSENT"}, pending : SUBSET AlertRules]
Replay == [pc : ReplayPc, row : Deliveries \cup {NoRow}]
Handler == [pc : HandlerPc, proc : Procs \cup {NoProc}]

TypeOK ==
  /\ delivery \in [Deliveries -> DeliveryPc]
  /\ row \in [Deliveries -> Row]
  /\ job \in [Workers -> Job]
  /\ handler \in [Workers -> [Attempts -> Handler]]
  /\ dlq \subseteq [row : Deliveries, job : Workers]
  /\ audit \subseteq [row : Deliveries, job : Workers]
  /\ replay \in [Replays -> Replay]
  /\ rules \subseteq AlertRules
  /\ fired \subseteq [row : Deliveries, rule : AlertRules]
  /\ faults \in 0..MaxFaults

Init ==
  /\ delivery = [d \in Deliveries |-> "unsent"]
  /\ row = [d \in Deliveries |-> [status |-> "ABSENT", processedAt |-> FALSE]]
  /\ job = [c \in Workers |->
              [state |-> "none", row |-> NoRow, attempts |-> 0, stalls |-> 0,
               pc |-> "idle", proc |-> NoProc, seen |-> "ABSENT", pending |-> {}]]
  /\ handler = [c \in Workers |-> [n \in Attempts |-> [pc |-> "none", proc |-> NoProc]]]
  /\ dlq = {} /\ audit = {}
  /\ replay = [r \in Replays |-> [pc |-> "idle", row |-> NoRow]]
  /\ rules = {} /\ fired = {}
  /\ faults = 0

-----------------------------------------------------------------------------
\* Reading and writing rows.

Stored(id) == row[id].status # "ABSENT"

\* The unique key (provider, eventId) of WebhookEvent.
SameEvent(d1, d2) ==
  /\ Carries[d1].provider = Carries[d2].provider
  /\ Carries[d1].eventId = Carries[d2].eventId

\* Mutated: the lookup forgets the provider.
IsEventDuplicateById(d) ==
  \E id \in Deliveries : Stored(id) /\ Carries[id].eventId = Carries[d].eventId

\* isEventDuplicate: findUnique by the same key.
IsEventDuplicate(d) == \E id \in Deliveries : Stored(id) /\ SameEvent(id, d)

SetStatus(id, s) == row' = [row EXCEPT ![id].status = s]

\* webhookQueue.add: a new job, every field of its life reset.
EnqueueEvent(c, id) ==
  job' = [job EXCEPT ![c] =
            [state |-> "waiting", row |-> id, attempts |-> 0, stalls |-> 0,
             pc |-> "idle", proc |-> NoProc, seen |-> "ABSENT", pending |-> {}]]

-----------------------------------------------------------------------------
\* Inbound deliveries (controller).  A delivery with a bad signature is
\* answered 400 and changes nothing, so only genuine ones are modelled.

Deliver(d) ==
  /\ delivery[d] = "unsent"
  /\ delivery' = [delivery EXCEPT ![d] = "check"]
  /\ UNCHANGED <<row, job, handler, dlq, audit, replay, rules, fired, faults>>

CheckDuplicate(d) ==
  /\ delivery[d] = "check"
  /\ delivery' = [delivery EXCEPT ![d] = IF IsEventDuplicate(d) THEN "acked" ELSE "store"]
  /\ UNCHANGED <<row, job, handler, dlq, audit, replay, rules, fired, faults>>

\* Mutated: no unique key, only the earlier lookup guards the INSERT.
CanStoreTwice(d) == Carries[d].tenantId \in Tenants

\* The unique key and the foreign key to tenants make the INSERT fail.
CanStore(d) == ~ IsEventDuplicate(d) /\ Carries[d].tenantId \in Tenants

StoreEvent(d) ==
  /\ delivery[d] = "store"
  /\ CanStore(d)
  /\ row' = [row EXCEPT ![d] = [status |-> "RECEIVED", processedAt |-> FALSE]]
  /\ delivery' = [delivery EXCEPT ![d] = "enqueue"]
  /\ UNCHANGED <<job, handler, dlq, audit, replay, rules, fired, faults>>

StoreFails(d) ==
  /\ delivery[d] = "store"
  /\ ~ CanStore(d)
  /\ delivery' = [delivery EXCEPT ![d] = "rejected"]
  /\ UNCHANGED <<row, job, handler, dlq, audit, replay, rules, fired, faults>>

EnqueueDelivered(d) ==
  /\ delivery[d] = "enqueue"
  /\ EnqueueEvent(d, d)
  /\ delivery' = [delivery EXCEPT ![d] = "acked"]
  /\ UNCHANGED <<row, handler, dlq, audit, replay, rules, fired, faults>>

\* The provider gets a 500; the row stays.
EnqueueDeliveredFails(d) ==
  /\ delivery[d] = "enqueue"
  /\ faults < MaxFaults
  /\ faults' = faults + 1
  /\ delivery' = [delivery EXCEPT ![d] = "stranded"]
  /\ UNCHANGED <<row, job, handler, dlq, audit, replay, rules, fired>>

-----------------------------------------------------------------------------
\* Replay of a stored event by a user of its tenant.

ReplayFind(r, id) ==
  /\ replay[r].pc = "idle"
  /\ Stored(id)
  /\ Carries[id].tenantId = Requester[r]
  /\ replay' = [replay EXCEPT ![r] = [pc |-> "mark", row |-> id]]
  /\ UNCHANGED <<delivery, row, job, handler, dlq, audit, rules, fired, faults>>

ReplayMark(r) ==
  /\ replay[r].pc = "mark"
  /\ SetStatus(replay[r].row, "REPLAYED")
  /\ replay' = [replay EXCEPT ![r].pc = "enqueue"]
  /\ UNCHANGED <<delivery, job, handler, dlq, audit, rules, fired, faults>>

ReplayEnqueue(r) ==
  /\ replay[r].pc = "enqueue"
  /\ EnqueueEvent(r, replay[r].row)
  /\ replay' = [replay EXCEPT ![r].pc = "done"]
  /\ UNCHANGED <<delivery, row, handler, dlq, audit, rules, fired, faults>>

ReplayEnqueueFails(r) ==
  /\ replay[r].pc = "enqueue"
  /\ faults < MaxFaults
  /\ faults' = faults + 1
  /\ replay' = [replay EXCEPT ![r].pc = "stranded"]
  /\ UNCHANGED <<delivery, row, job, handler, dlq, audit, rules, fired>>

-----------------------------------------------------------------------------
\* A worker runs a job: processEvent and checkAndFireAlerts.

Active(c, pc) == job[c].state = "active" /\ job[c].pc = pc

RunningOn(p) == {c \in Workers : job[c].state = "active" /\ job[c].proc = p}

StartJob(c, p) ==
  /\ job[c].state = "waiting"
  /\ Cardinality(RunningOn(p)) < Concurrency
  /\ job' = [job EXCEPT ![c].state = "active", ![c].pc = "find", ![c].proc = p]
  /\ UNCHANGED <<delivery, row, handler, dlq, audit, replay, rules, fired, faults>>

\* The row as read here is the 'event' the alert conditions see at the end.
FindEvent(c) ==
  /\ Active(c, "find")
  /\ job' = [job EXCEPT ![c].pc = "claim", ![c].seen = row[job[c].row].status]
  /\ UNCHANGED <<delivery, row, handler, dlq, audit, replay, rules, fired, faults>>

MarkProcessing(c) ==
  /\ Active(c, "claim")
  /\ SetStatus(job[c].row, "PROCESSING")
  /\ job' = [job EXCEPT ![c].pc = "complete"]
  /\ UNCHANGED <<delivery, handler, dlq, audit, replay, rules, fired, faults>>

\* routeEvent only writes a log line.
MarkProcessed(c) ==
  /\ Active(c, "complete")
  /\ row' = [row EXCEPT ![job[c].row] = [status |-> "PROCESSED", processedAt |-> TRUE]]
  /\ job' = [job EXCEPT ![c].pc = "rules"]
  /\ UNCHANGED <<delivery, handler, dlq, audit, replay, rules, fired, faults>>

\* evaluateCondition: a field the condition leaves out ("any") matches.
Matches(rule, event, status) ==
  /\ rule.eventType \in {"any", event.eventType}
  /\ rule.provider \in {"any", event.provider}
  /\ rule.status \in {"any", status}

\* Mutated: the rules of every tenant.
ReadAllRules(c) ==
  /\ Active(c, "rules")
  /\ job' = [job EXCEPT ![c].pc = "alert",
                ![c].pending = {rule \in rules : Matches(rule, Carries[job[c].row], job[c].seen)}]
  /\ UNCHANGED <<delivery, row, handler, dlq, audit, replay, rules, fired, faults>>

ReadRules(c) ==
  /\ Active(c, "rules")
  /\ LET event == Carries[job[c].row]
     IN  job' = [job EXCEPT ![c].pc = "alert",
                   ![c].pending = {rule \in rules : /\ rule.tenantId = event.tenantId
                                                   /\ Matches(rule, event, job[c].seen)}]
  /\ UNCHANGED <<delivery, row, handler, dlq, audit, replay, rules, fired, faults>>

\* A failed post is logged and swallowed; an email alert is only logged.
FireAlert(c, rule) ==
  /\ Active(c, "alert")
  /\ rule \in job[c].pending
  /\ job' = [job EXCEPT ![c].pending = @ \ {rule}]
  /\ fired' \in {fired, fired \cup {[row |-> job[c].row, rule |-> rule]}}
  /\ UNCHANGED <<delivery, row, handler, dlq, audit, replay, rules, faults>>

FinishJob(c) ==
  /\ Active(c, "alert")
  /\ job[c].pending = {}
  /\ job' = [job EXCEPT ![c].state = "completed", ![c].pc = "idle",
                        ![c].proc = NoProc, ![c].seen = "ABSENT"]
  /\ UNCHANGED <<delivery, row, handler, dlq, audit, replay, rules, fired, faults>>

-----------------------------------------------------------------------------
\* Failed attempts and the 'failed' handler.

\* Mutated: off by one, either way.
HandlerEntryLate(n) == IF n > MaxAttempts THEN "dlq" ELSE "retry"
HandlerEntryEarly(n) == IF n >= MaxAttempts - 1 THEN "dlq" ELSE "retry"

\* What the handler does for attempt n: isLastAttempt.
HandlerEntry(n) == IF n >= MaxAttempts THEN "dlq" ELSE "retry"

\* Attempt n of job c has failed on p: BullMQ moves the job to state s and then
\* emits 'failed', whose handler nobody awaits.
Fail(c, p, s) ==
  LET n == job[c].attempts + 1
  IN  /\ job' = [job EXCEPT ![c].state = s, ![c].attempts = n, ![c].pc = "idle",
                            ![c].proc = NoProc, ![c].seen = "ABSENT", ![c].pending = {}]
      /\ handler' = [handler EXCEPT ![c][n] = [pc |-> HandlerEntry(n), proc |-> p]]

\* Mutated: the worker catches the error and puts the job back, however often.
AttemptPutBack(c) ==
  /\ job[c].state = "active"
  /\ job[c].pc \in {"find", "claim", "complete", "rules"}
  /\ job' = [job EXCEPT ![c].state = "waiting", ![c].pc = "idle", ![c].proc = NoProc,
                        ![c].seen = "ABSENT", ![c].pending = {}]
  /\ UNCHANGED <<delivery, row, handler, dlq, audit, replay, rules, fired, faults>>

\* A database call of processEvent throws.
AttemptFails(c) ==
  /\ job[c].state = "active"
  /\ job[c].pc \in {"find", "claim", "complete", "rules"}
  /\ Fail(c, job[c].proc, IF job[c].attempts + 1 < MaxAttempts THEN "delayed" ELSE "failed")
  /\ UNCHANGED <<delivery, row, dlq, audit, replay, rules, fired, faults>>

\* Mutated: no backoff to wait for.
PromoteAtOnce(c) ==
  /\ job[c].state = "delayed"
  /\ job' = [job EXCEPT ![c].state = "waiting"]
  /\ UNCHANGED <<delivery, row, handler, dlq, audit, replay, rules, fired, faults>>

\* The backoff (5 s, 10 s) is over.
PromoteDelayed(c) ==
  /\ job[c].state = "delayed"
  /\ PromptHandlers => \A n \in Attempts : handler[c][n].pc # "retry"
  /\ job' = [job EXCEPT ![c].state = "waiting"]
  /\ UNCHANGED <<delivery, row, handler, dlq, audit, replay, rules, fired, faults>>

\* The update that keeps a retried event PROCESSING; its errors are swallowed.
RetryHandler(c, n) ==
  /\ handler[c][n].pc = "retry"
  /\ \/ SetStatus(job[c].row, "PROCESSING")
     \/ UNCHANGED row
  /\ handler' = [handler EXCEPT ![c][n] = [pc |-> "done", proc |-> NoProc]]
  /\ UNCHANGED <<delivery, job, dlq, audit, replay, rules, fired, faults>>

\* Mutated: the update of the row is missing.
DlqAddOnly(c, n) ==
  /\ handler[c][n].pc = "dlq"
  /\ dlq' = dlq \cup {[row |-> job[c].row, job |-> c]}
  /\ handler' = [handler EXCEPT ![c][n].pc = "audit"]
  /\ UNCHANGED <<delivery, row, job, audit, replay, rules, fired, faults>>

\* moveToDlq, one action per write.
DlqAdd(c, n) ==
  /\ handler[c][n].pc = "dlq"
  /\ dlq' = dlq \cup {[row |-> job[c].row, job |-> c]}
  /\ handler' = [handler EXCEPT ![c][n].pc = "mark"]
  /\ UNCHANGED <<delivery, row, job, audit, replay, rules, fired, faults>>

\* Mutated: FAILED is written without waiting for the dead-letter entry.
DlqMarkFirst(c, n) ==
  /\ handler[c][n].pc \in {"dlq", "mark"}
  /\ SetStatus(job[c].row, "FAILED")
  /\ handler' = [handler EXCEPT ![c][n].pc = "audit"]
  /\ UNCHANGED <<delivery, job, dlq, audit, replay, rules, fired, faults>>

DlqMark(c, n) ==
  /\ handler[c][n].pc = "mark"
  /\ SetStatus(job[c].row, "FAILED")
  /\ handler' = [handler EXCEPT ![c][n].pc = "audit"]
  /\ UNCHANGED <<delivery, job, dlq, audit, replay, rules, fired, faults>>

DlqAudit(c, n) ==
  /\ handler[c][n].pc = "audit"
  /\ audit' = audit \cup {[row |-> job[c].row, job |-> c]}
  /\ handler' = [handler EXCEPT ![c][n] = [pc |-> "done", proc |-> NoProc]]
  /\ UNCHANGED <<delivery, row, job, dlq, replay, rules, fired, faults>>

-----------------------------------------------------------------------------
\* Alert rules.

CreateAlertRule(rule) ==
  /\ rule \notin rules
  /\ rules' = rules \cup {rule}
  /\ UNCHANGED <<delivery, row, job, handler, dlq, audit, replay, fired, faults>>

DeleteAlertRule(rule) ==
  /\ rule \in rules
  /\ rules' = rules \ {rule}
  /\ UNCHANGED <<delivery, row, job, handler, dlq, audit, replay, fired, faults>>

-----------------------------------------------------------------------------
\* A process dies: killed, or brought down by the unhandled rejection of a
\* 'failed' handler whose moveToDlq threw.  Its requests and handlers are gone
\* and its jobs wait until a worker finds them stalled.

InFlight == {"check", "store", "enqueue"}

Crash(p) ==
  /\ faults < MaxFaults
  /\ faults' = faults + 1
  /\ delivery' = [d \in Deliveries |->
       IF p = Api /\ delivery[d] \in InFlight
       THEN IF delivery[d] = "enqueue" THEN "stranded" ELSE "rejected"
       ELSE delivery[d]]
  /\ replay' = [r \in Replays |->
       IF p = Api /\ replay[r].pc \in {"mark", "enqueue"}
       THEN [replay[r] EXCEPT !.pc = IF @ = "enqueue" THEN "stranded" ELSE "rejected"]
       ELSE replay[r]]
  /\ job' = [c \in Workers |->
       IF c \in RunningOn(p)
       THEN [job[c] EXCEPT !.state = "stalled", !.pc = "idle", !.proc = NoProc,
                           !.seen = "ABSENT", !.pending = {}]
       ELSE job[c]]
  /\ handler' = [c \in Workers |-> [n \in Attempts |->
       IF handler[c][n].proc = p THEN [pc |-> "dead", proc |-> NoProc] ELSE handler[c][n]]]
  /\ UNCHANGED <<row, dlq, audit, rules, fired>>

\* BullMQ's stalled check: back to the queue, or failed at the limit.
RequeueStalled(c) ==
  /\ job[c].state = "stalled"
  /\ job[c].stalls < MaxStalls
  /\ job' = [job EXCEPT ![c].state = "waiting", ![c].stalls = @ + 1]
  /\ UNCHANGED <<delivery, row, handler, dlq, audit, replay, rules, fired, faults>>

FailStalled(c, p) ==
  /\ job[c].state = "stalled"
  /\ job[c].stalls = MaxStalls
  /\ Fail(c, p, "failed")
  /\ UNCHANGED <<delivery, row, dlq, audit, replay, rules, fired, faults>>

-----------------------------------------------------------------------------
DeliveryStep(d) ==
  \/ CheckDuplicate(d)
  \/ StoreEvent(d)
  \/ StoreFails(d)
  \/ EnqueueDelivered(d)

ReplayStep(r) == ReplayMark(r) \/ ReplayEnqueue(r)

JobStep(c) ==
  \/ \E p \in Procs : StartJob(c, p)
  \/ FindEvent(c)
  \/ MarkProcessing(c)
  \/ MarkProcessed(c)
  \/ ReadRules(c)
  \/ \E rule \in AlertRules : FireAlert(c, rule)
  \/ FinishJob(c)
  \/ PromoteDelayed(c)
  \/ RequeueStalled(c)
  \/ \E p \in Procs : FailStalled(c, p)

HandlerStep(c, n) == RetryHandler(c, n) \/ DlqAdd(c, n) \/ DlqMark(c, n) \/ DlqAudit(c, n)

Next ==
  \/ \E d \in Deliveries : Deliver(d) \/ DeliveryStep(d) \/ EnqueueDeliveredFails(d)
  \/ \E r \in Replays : ReplayStep(r) \/ ReplayEnqueueFails(r)
  \/ \E r \in Replays, id \in Deliveries : ReplayFind(r, id)
  \/ \E c \in Workers : JobStep(c) \/ AttemptFails(c)
  \/ \E c \in Workers, n \in Attempts : HandlerStep(c, n)
  \/ \E rule \in AlertRules : CreateAlertRule(rule) \/ DeleteAlertRule(rule)
  \/ \E p \in Procs : Crash(p)

Spec == Init /\ [][Next]_vars

\* A started request, job or handler goes on, and the queue hands out jobs.
\* Providers, users, failing calls and crashes owe nothing.
Fairness ==
  /\ \A d \in Deliveries : WF_vars(DeliveryStep(d))
  /\ \A r \in Replays : WF_vars(ReplayStep(r))
  /\ \A c \in Workers : WF_vars(JobStep(c))
  /\ \A c \in Workers, n \in Attempts : WF_vars(HandlerStep(c, n))

FairSpec == Spec /\ Fairness

-----------------------------------------------------------------------------
\* Properties.

Unsettled(id) == row[id].status \in {"RECEIVED", "PROCESSING", "REPLAYED"}

\* w still has a step to take that settles row id: it is the request about to
\* enqueue the job w, the job itself before its write of PROCESSED, or the
\* handler that moves the exhausted job to the dead-letter queue.
Owns(w, id) ==
  \/ w \in Deliveries /\ w = id /\ delivery[w] = "enqueue"
  \/ w \in Replays /\ replay[w].row = id /\ replay[w].pc = "enqueue"
  \/ /\ job[w].row = id
     /\ \/ job[w].state \in {"waiting", "delayed", "stalled"}
        \/ job[w].state = "active" /\ job[w].pc \in {"find", "claim", "complete"}
        \/ job[w].state = "failed" /\ handler[w][MaxAttempts].pc \in {"dlq", "mark"}

Owners(id) == {w \in Workers : Owns(w, id)}

\* The ways an event can be forgotten: the request that should have queued it
\* died or its add failed, the handler of its job died, or BullMQ gave the job
\* up for stalling before its attempts were used.
Abandoned(id) ==
  \/ delivery[id] = "stranded"
  \/ \E r \in Replays : replay[r].row = id /\ replay[r].pc = "stranded"
  \/ \E c \in Workers :
       /\ job[c].row = id /\ job[c].state = "failed"
       /\ job[c].attempts < MaxAttempts \/ handler[c][MaxAttempts].pc = "dead"

(* No event is lost silently: a row that still shows RECEIVED, PROCESSING or
   REPLAYED has somebody about to settle it, whatever deliveries, replays,
   attempts and handlers interleave; under crashes the only exceptions are the
   three of Abandoned. *)
UnsettledIsOwned ==
  \A id \in Deliveries : Unsettled(id) => Owners(id) # {} \/ Abandoned(id)

(* Idempotent ingestion: however often and however concurrently the provider
   delivers an event, at most one of the deliveries queues a job for it. *)
IngestedOnce ==
  \A d1, d2 \in Deliveries :
    d1 # d2 /\ job[d1].state # "none" /\ job[d2].state # "none" => ~ SameEvent(d1, d2)

(* A 200 means the event itself, not one of the other provider with the same
   id, is in the database. *)
AckedIsStored ==
  \A d \in Deliveries :
    delivery[d] = "acked" => \E id \in Deliveries : Stored(id) /\ SameEvent(id, d)

(* Only a job that has used all its attempts is in the dead-letter queue: a job
   still being retried, stalled or replayed is never taken for dead. *)
DlqOnlyExhausted ==
  \A e \in dlq : job[e.job].state = "failed" /\ job[e.job].attempts = MaxAttempts

(* The FAILED a user sees is backed by a dead-letter entry for that row, also
   when the process dies in the middle of moveToDlq; an audit entry is backed by
   one too. *)
FailedIsDeadLettered ==
  /\ \A id \in Deliveries : row[id].status = "FAILED" => \E e \in dlq : e.row = id
  /\ audit \subseteq dlq

(* An alert is posted only for an event that has been processed, to a rule of
   the event's own tenant, though rules come and go while jobs run. *)
AlertsFollowProcessing ==
  \A f \in fired : row[f.row].processedAt /\ f.rule.tenantId = Carries[f.row].tenantId

\* A job that is still to be run or running; one that failed before its last
\* attempt, found stalled too often; and one that ended, or spent a later
\* attempt, while the handler of attempt n had still to run.
Live(c) == job[c].state \notin {"none", "completed", "failed"}
StalledOut(c) == job[c].state = "failed" /\ job[c].attempts < MaxAttempts
Outran(c, n) ==
  /\ ~ PromptHandlers /\ handler[c][n].pc = "retry"
  /\ job[c].state = "completed" \/ job[c].attempts > n

(* The 'failed' handler and the workers put a row into PROCESSING only for a job
   of that row that is still to be run or running (service.ts:58, "Still
   retrying"), or that was given up as stalled, or, as nobody awaits the handler,
   that has outrun the handler of one of its earlier attempts. *)
ProcessingMeansLiveJob ==
  [][\A id \in Deliveries :
       row[id].status # "PROCESSING" /\ row'[id].status = "PROCESSING" =>
         \E c \in Workers :
           /\ job[c].row = id
           /\ Live(c) \/ StalledOut(c) \/ \E n \in Attempts : Outran(c, n)]_vars

(* Every stored event is in the end PROCESSED or FAILED for good. *)
EveryEventSettles == \A id \in Deliveries : <>[](~ Unsettled(id))

(* A queued job ends, through failed attempts, backoffs, crashes of its process
   and the stalled check. *)
JobsEnd == \A c \in Workers : job[c].state = "waiting" ~> job[c].state \in {"completed", "failed"}

\* The phase of a row, and the ledger the monitor implements.
PhaseOf(status) ==
  CASE status = "ABSENT" -> "absent"
    [] status = "PROCESSED" -> "processed"
    [] status = "FAILED" -> "failed"
    [] OTHER -> "open"

Ledger == INSTANCE EventLedger WITH
  Items <- Deliveries, Doers <- Workers, Lossy <- MaxFaults > 0,
  phase <- [id \in Deliveries |-> PhaseOf(row[id].status)],
  duties <- [id \in Deliveries |-> Owners(id)]

(* The monitor implements the ledger: every step of a request, a worker or a
   handler takes, keeps or discharges a duty for the row it writes. *)
ImplementsLedger == Ledger!Spec

-----------------------------------------------------------------------------
\* The inductive invariant behind the theorems of WebhookMonitorProofs.

\* What the progress of a request says of its row and its job.
RequestInv ==
  /\ \A d \in Deliveries :
       /\ delivery[d] \in {"unsent", "check", "store", "rejected"} => ~ Stored(d)
       /\ delivery[d] = "enqueue" => Stored(d)
       /\ delivery[d] # "acked" => job[d].state = "none"
       /\ job[d].state # "none" => job[d].row = d
  /\ \A r \in Replays :
       /\ replay[r].pc # "done" => job[r].state = "none"
       /\ replay[r].pc # "idle" => replay[r].row \in Deliveries /\ Stored(replay[r].row)
  /\ \A c \in Workers :
       job[c].state # "none" => job[c].row \in Deliveries /\ Stored(job[c].row)

\* The unique key of WebhookEvent.
RowsUnique ==
  \A d1, d2 \in Deliveries : d1 # d2 /\ Stored(d1) /\ Stored(d2) => ~ SameEvent(d1, d2)

\* What job c and the handler of its attempt n know of each other.
HandlerAt(c, n) ==
  /\ IF handler[c][n].pc = "none" THEN handler[c][n].proc = NoProc
                                  ELSE job[c].state # "none"
  /\ handler[c][n].pc = "retry" =>
       /\ n < MaxAttempts
       /\ PromptHandlers => \/ job[c].state = "delayed"
                            \/ job[c].state = "failed" /\ job[c].attempts < MaxAttempts
  /\ handler[c][n].pc \in {"dlq", "mark", "audit"} =>
       n = MaxAttempts /\ job[c].state = "failed" /\ job[c].attempts = MaxAttempts
  /\ handler[c][n].pc \in {"mark", "audit"} => [row |-> job[c].row, job |-> c] \in dlq

HandlerOK(c) ==
  /\ job[c].state # "failed" => job[c].attempts < MaxAttempts
  /\ \A n \in Attempts : HandlerAt(c, n)

HandlerInv == \A c \in Workers : HandlerOK(c)

(* The monitor's inductive invariant: the progress recorded by a request, a job
   or a handler agrees with the rows, the queue and the dead letters. *)
IInv == TypeOK /\ RequestInv /\ RowsUnique /\ HandlerInv /\ DlqOnlyExhausted /\ FailedIsDeadLettered

-----------------------------------------------------------------------------
\* What documents and comments say of the monitor, and the code does not do.

(* docs/security-architecture.md:168 "Queue immediately and ack": an event whose
   delivery got a 200 is queued sooner or later. *)
AckedIsQueued ==
  \A d \in Deliveries :
    delivery[d] = "acked" ~> \E c \in Deliveries : SameEvent(c, d) /\ job[c].state # "none"

(* service.ts:58 "Still retrying - keep PROCESSING": a row that shows PROCESSING
   has a job that is still to be run or running. *)
StillRetrying ==
  \A id \in Deliveries : row[id].status = "PROCESSING" => Owners(id) # {}
=============================================================================
