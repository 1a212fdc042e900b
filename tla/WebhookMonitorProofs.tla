------------------------- MODULE WebhookMonitorProofs -------------------------
(* Theorems of WebhookMonitor, for every value of its constants. *)
EXTENDS WebhookMonitor, TLAPS

\* The part common to every way an attempt of job c ends as failed on p.
LEMMA FailType ==
  ASSUME TypeOK, HandlerInv, NEW c \in Workers, NEW p \in Procs \cup {NoProc}, NEW s \in JobState,
         job[c].state \notin {"none", "failed"}, Fail(c, p, s)
  PROVE  job' \in [Workers -> Job] /\ handler' \in [Workers -> [Attempts -> Handler]]
<1> DEFINE n == job[c].attempts + 1
           j == [job[c] EXCEPT !.state = s, !.attempts = n, !.pc = "idle",
                               !.proc = NoProc, !.seen = "ABSENT", !.pending = {}]
<1>0. job[c] \in Job
  BY DEF TypeOK
<1>1. n \in Attempts
  <2>1. job[c].attempts \in 0..MaxAttempts /\ job[c].attempts < MaxAttempts
    BY <1>0 DEF Job, HandlerInv, HandlerOK, HandlerAt
  <2> QED
    BY <2>1, WebhookAssumption DEF Attempts
<1>2. j \in Job
  <2>1. n \in 0..MaxAttempts
    BY <1>1 DEF Attempts
  <2> HIDE DEF n
  <2> QED
    BY <1>0, <2>1 DEF Job, JobPc
<1>3. job' = [job EXCEPT ![c] = j]
  BY DEF TypeOK, Fail
<1>4. job' \in [Workers -> Job]
  BY <1>2, <1>3 DEF TypeOK
<1>5. handler' \in [Workers -> [Attempts -> Handler]]
  BY <1>1 DEF TypeOK, Fail, Handler, HandlerPc, HandlerEntry
<1> QED
  BY <1>4, <1>5

\* What the composite updates of jobs and handlers do, field by field.
LEMMA FailEffect ==
  ASSUME TypeOK, NEW c \in Workers, NEW p, NEW s, Fail(c, p, s)
  PROVE  /\ \A x \in Workers \ {c} : job'[x] = job[x] /\ handler'[x] = handler[x]
         /\ job'[c].state = s /\ job'[c].row = job[c].row
         /\ job'[c].attempts = job[c].attempts + 1
         /\ \A n \in Attempts :
              handler'[c][n] = IF n = job[c].attempts + 1
                               THEN [pc |-> HandlerEntry(n), proc |-> p] ELSE handler[c][n]
BY DEF TypeOK, Job, Fail

LEMMA EnqueueEffect ==
  ASSUME TypeOK, NEW c \in Workers, NEW id, EnqueueEvent(c, id)
  PROVE  /\ \A x \in Workers \ {c} : job'[x] = job[x]
         /\ job'[c].state = "waiting" /\ job'[c].row = id /\ job'[c].attempts = 0
BY DEF TypeOK, Job, EnqueueEvent

LEMMA CrashEffect ==
  ASSUME IInv, NEW p \in Procs, Crash(p)
  PROVE  /\ \A d \in Deliveries :
              \/ delivery'[d] = delivery[d]
              \/ delivery[d] \in {"check", "store"} /\ delivery'[d] = "rejected"
              \/ delivery[d] = "enqueue" /\ delivery'[d] = "stranded"
         /\ \A r \in Replays :
              /\ replay'[r].row = replay[r].row
              /\ \/ replay'[r].pc = replay[r].pc
                 \/ replay[r].pc = "mark" /\ replay'[r].pc = "rejected"
                 \/ replay[r].pc = "enqueue" /\ replay'[r].pc = "stranded"
         /\ \A c \in Workers :
              /\ job'[c].row = job[c].row /\ job'[c].attempts = job[c].attempts
              /\ \/ job'[c] = job[c]
                 \/ job[c].state = "active" /\ job'[c].state = "stalled"
         /\ \A c \in Workers, n \in Attempts :
              \/ handler'[c][n] = handler[c][n]
              \/ handler[c][n].pc # "none" /\ handler'[c][n] = [pc |-> "dead", proc |-> NoProc]
<1>1. TypeOK
  BY DEF IInv
<1>2. \A d \in Deliveries :
        \/ delivery'[d] = delivery[d]
        \/ delivery[d] \in {"check", "store"} /\ delivery'[d] = "rejected"
        \/ delivery[d] = "enqueue" /\ delivery'[d] = "stranded"
  BY DEF Crash, InFlight
<1>3. \A r \in Replays :
        /\ replay'[r].row = replay[r].row
        /\ \/ replay'[r].pc = replay[r].pc
           \/ replay[r].pc = "mark" /\ replay'[r].pc = "rejected"
           \/ replay[r].pc = "enqueue" /\ replay'[r].pc = "stranded"
  BY <1>1 DEF TypeOK, Replay, Crash
<1>4. \A c \in Workers :
        /\ job'[c].row = job[c].row /\ job'[c].attempts = job[c].attempts
        /\ \/ job'[c] = job[c]
           \/ job[c].state = "active" /\ job'[c].state = "stalled"
  BY <1>1 DEF TypeOK, Job, Crash, RunningOn
<1>5. \A c \in Workers, n \in Attempts :
        \/ handler'[c][n] = handler[c][n]
        \/ handler[c][n].pc # "none" /\ handler'[c][n] = [pc |-> "dead", proc |-> NoProc]
  BY WebhookAssumption DEF IInv, HandlerInv, HandlerOK, HandlerAt, Crash
<1> QED
  BY <1>2, <1>3, <1>4, <1>5

LEMMA TypeInit == Init => TypeOK
BY WebhookAssumption
   DEF Init, TypeOK, Row, Job, Replay, Handler, Status, DeliveryPc, ReplayPc, JobState,
       JobPc, HandlerPc, Workers

LEMMA TypeStep ==
  ASSUME TypeOK, RequestInv, HandlerInv, [Next]_vars PROVE TypeOK'
<1>1. ASSUME NEW d \in Deliveries, Deliver(d) PROVE TypeOK'
  <2>1. delivery' \in [Deliveries -> DeliveryPc]
    BY <1>1 DEF TypeOK, DeliveryPc, Deliver
  <2> QED
    BY <1>1, <2>1 DEF TypeOK, Deliver
<1>2. ASSUME NEW d \in Deliveries, CheckDuplicate(d) PROVE TypeOK'
  <2>1. delivery' \in [Deliveries -> DeliveryPc]
    BY <1>2 DEF TypeOK, DeliveryPc, CheckDuplicate
  <2> QED
    BY <1>2, <2>1 DEF TypeOK, CheckDuplicate
<1>3. ASSUME NEW d \in Deliveries, StoreEvent(d) PROVE TypeOK'
  <2>1. delivery' \in [Deliveries -> DeliveryPc]
    BY <1>3 DEF TypeOK, DeliveryPc, StoreEvent
  <2>2. row' \in [Deliveries -> Row]
    BY <1>3 DEF TypeOK, Row, Status, StoreEvent
  <2> QED
    BY <1>3, <2>1, <2>2 DEF TypeOK, StoreEvent
<1>4. ASSUME NEW d \in Deliveries, StoreFails(d) PROVE TypeOK'
  <2>1. delivery' \in [Deliveries -> DeliveryPc]
    BY <1>4 DEF TypeOK, DeliveryPc, StoreFails
  <2> QED
    BY <1>4, <2>1 DEF TypeOK, StoreFails
<1>5. ASSUME NEW d \in Deliveries, EnqueueDelivered(d) PROVE TypeOK'
  <2>1. delivery' \in [Deliveries -> DeliveryPc]
    BY <1>5 DEF TypeOK, DeliveryPc, EnqueueDelivered
  <2>2. job' \in [Workers -> Job]
    BY <1>5, WebhookAssumption DEF TypeOK, Workers, Job, JobState, JobPc, EnqueueDelivered, EnqueueEvent
  <2> QED
    BY <1>5, <2>1, <2>2 DEF TypeOK, EnqueueDelivered
<1>6. ASSUME NEW d \in Deliveries, EnqueueDeliveredFails(d) PROVE TypeOK'
  <2>1. delivery' \in [Deliveries -> DeliveryPc]
    BY <1>6 DEF TypeOK, DeliveryPc, EnqueueDeliveredFails
  <2>2. faults' \in 0..MaxFaults
    BY <1>6, WebhookAssumption DEF TypeOK, EnqueueDeliveredFails
  <2> QED
    BY <1>6, <2>1, <2>2 DEF TypeOK, EnqueueDeliveredFails
<1>7. ASSUME NEW r \in Replays, NEW id \in Deliveries, ReplayFind(r, id) PROVE TypeOK'
  <2>1. replay' \in [Replays -> Replay]
    BY <1>7 DEF TypeOK, Replay, ReplayPc, ReplayFind
  <2> QED
    BY <1>7, <2>1 DEF TypeOK, ReplayFind
<1>8. ASSUME NEW r \in Replays, ReplayMark(r) PROVE TypeOK'
  <2>1. replay' \in [Replays -> Replay]
    BY <1>8 DEF TypeOK, Replay, ReplayPc, ReplayMark
  <2>2. row' \in [Deliveries -> Row]
    BY <1>8 DEF TypeOK, Row, Status, ReplayMark, SetStatus
  <2> QED
    BY <1>8, <2>1, <2>2 DEF TypeOK, ReplayMark
<1>9. ASSUME NEW r \in Replays, ReplayEnqueue(r) PROVE TypeOK'
  <2>1. replay' \in [Replays -> Replay]
    BY <1>9 DEF TypeOK, Replay, ReplayPc, ReplayEnqueue
  <2>2. replay[r].row \in Deliveries \cup {NoRow}
    BY DEF TypeOK, Replay
  <2>3. job' \in [Workers -> Job]
    BY <1>9, <2>2, WebhookAssumption DEF TypeOK, Workers, Job, JobState, JobPc, ReplayEnqueue, EnqueueEvent
  <2> QED
    BY <1>9, <2>1, <2>2, <2>3 DEF TypeOK, ReplayEnqueue
<1>10. ASSUME NEW r \in Replays, ReplayEnqueueFails(r) PROVE TypeOK'
  <2>1. replay' \in [Replays -> Replay]
    BY <1>10 DEF TypeOK, Replay, ReplayPc, ReplayEnqueueFails
  <2>2. faults' \in 0..MaxFaults
    BY <1>10, WebhookAssumption DEF TypeOK, ReplayEnqueueFails
  <2> QED
    BY <1>10, <2>1, <2>2 DEF TypeOK, ReplayEnqueueFails
<1>11. ASSUME NEW c \in Workers, NEW p \in Procs, StartJob(c, p) PROVE TypeOK'
  <2>1. job[c] \in Job
    BY DEF TypeOK
  <2>2. [job[c] EXCEPT !.state = "active", !.pc = "find", !.proc = p] \in Job
    BY <2>1 DEF Job, JobState, JobPc
  <2>3. job' = [job EXCEPT ![c] = [job[c] EXCEPT !.state = "active", !.pc = "find", !.proc = p]]
    BY <1>11 DEF TypeOK, StartJob
  <2>4. job' \in [Workers -> Job]
    BY <2>2, <2>3 DEF TypeOK
  <2> QED
    BY <1>11, <2>1, <2>2, <2>3, <2>4 DEF TypeOK, StartJob
<1>12. ASSUME NEW c \in Workers, FindEvent(c) PROVE TypeOK'
  <2>1. job[c].row \in Deliveries
    BY <1>12 DEF RequestInv, FindEvent, Active
  <2>2. row[job[c].row].status \in Status \cup {"ABSENT"}
    BY <1>12, <2>1 DEF TypeOK, Row
  <2>3. job[c] \in Job
    BY DEF TypeOK
  <2>4. [job[c] EXCEPT !.pc = "claim", !.seen = row[job[c].row].status] \in Job
    BY <2>2, <2>3 DEF Job, JobState, JobPc
  <2>5. job' = [job EXCEPT ![c] = [job[c] EXCEPT !.pc = "claim", !.seen = row[job[c].row].status]]
    BY <1>12 DEF TypeOK, FindEvent
  <2>6. job' \in [Workers -> Job]
    BY <2>4, <2>5 DEF TypeOK
  <2> QED
    BY <1>12, <2>1, <2>2, <2>3, <2>4, <2>5, <2>6 DEF TypeOK, FindEvent
<1>13. ASSUME NEW c \in Workers, MarkProcessing(c) PROVE TypeOK'
  <2>1. row' \in [Deliveries -> Row]
    BY <1>13 DEF TypeOK, Row, Status, MarkProcessing, SetStatus
  <2>2. job[c] \in Job
    BY DEF TypeOK
  <2>3. [job[c] EXCEPT !.pc = "complete"] \in Job
    BY <2>2 DEF Job, JobState, JobPc
  <2>4. job' = [job EXCEPT ![c] = [job[c] EXCEPT !.pc = "complete"]]
    BY <1>13 DEF TypeOK, MarkProcessing
  <2>5. job' \in [Workers -> Job]
    BY <2>3, <2>4 DEF TypeOK
  <2> QED
    BY <1>13, <2>1, <2>2, <2>3, <2>4, <2>5 DEF TypeOK, MarkProcessing
<1>14. ASSUME NEW c \in Workers, MarkProcessed(c) PROVE TypeOK'
  <2>1. row' \in [Deliveries -> Row]
    BY <1>14 DEF TypeOK, Row, Status, MarkProcessed
  <2>2. job[c] \in Job
    BY DEF TypeOK
  <2>3. [job[c] EXCEPT !.pc = "rules"] \in Job
    BY <2>2 DEF Job, JobState, JobPc
  <2>4. job' = [job EXCEPT ![c] = [job[c] EXCEPT !.pc = "rules"]]
    BY <1>14 DEF TypeOK, MarkProcessed
  <2>5. job' \in [Workers -> Job]
    BY <2>3, <2>4 DEF TypeOK
  <2> QED
    BY <1>14, <2>1, <2>2, <2>3, <2>4, <2>5 DEF TypeOK, MarkProcessed
<1>15. ASSUME NEW c \in Workers, ReadRules(c) PROVE TypeOK'
  <2>1. PICK P \in SUBSET AlertRules : job' = [job EXCEPT ![c].pc = "alert", ![c].pending = P]
    BY <1>15 DEF TypeOK, ReadRules
  <2>2. job[c] \in Job
    BY DEF TypeOK
  <2>3. [job[c] EXCEPT !.pc = "alert", !.pending = P] \in Job
    BY <2>2 DEF Job, JobPc
  <2>4. job' = [job EXCEPT ![c] = [job[c] EXCEPT !.pc = "alert", !.pending = P]]
    BY <2>1 DEF TypeOK
  <2>5. job' \in [Workers -> Job]
    BY <2>3, <2>4 DEF TypeOK
  <2> QED
    BY <1>15, <2>1, <2>2, <2>3, <2>4, <2>5 DEF TypeOK, ReadRules
<1>16. ASSUME NEW c \in Workers, NEW rule \in AlertRules, FireAlert(c, rule) PROVE TypeOK'
  <2>1. job[c].row \in Deliveries
    BY <1>16 DEF RequestInv, FireAlert, Active
  <2>2. fired' \subseteq [row : Deliveries, rule : AlertRules]
    BY <1>16, <2>1 DEF TypeOK, FireAlert
  <2>3. job[c] \in Job
    BY DEF TypeOK
  <2>4. [job[c] EXCEPT !.pending = @ \ {rule}] \in Job
    BY <2>3 DEF Job, JobState, JobPc
  <2>5. job' = [job EXCEPT ![c] = [job[c] EXCEPT !.pending = @ \ {rule}]]
    BY <1>16 DEF TypeOK, FireAlert
  <2>6. job' \in [Workers -> Job]
    BY <2>4, <2>5 DEF TypeOK
  <2> QED
    BY <1>16, <2>1, <2>2, <2>3, <2>4, <2>5, <2>6 DEF TypeOK, FireAlert
<1>17. ASSUME NEW c \in Workers, FinishJob(c) PROVE TypeOK'
  <2>1. job[c] \in Job
    BY DEF TypeOK
  <2>2. [job[c] EXCEPT !.state = "completed", !.pc = "idle", !.proc = NoProc,
                                   !.seen = "ABSENT"] \in Job
    BY <2>1 DEF Job, JobState, JobPc
  <2>3. job' = [job EXCEPT ![c] = [job[c] EXCEPT !.state = "completed", !.pc = "idle", !.proc = NoProc,
                                   !.seen = "ABSENT"]]
    BY <1>17 DEF TypeOK, FinishJob
  <2>4. job' \in [Workers -> Job]
    BY <2>2, <2>3 DEF TypeOK
  <2> QED
    BY <1>17, <2>1, <2>2, <2>3, <2>4 DEF TypeOK, FinishJob
<1>18. ASSUME NEW c \in Workers, PromoteDelayed(c) PROVE TypeOK'
  <2>1. job[c] \in Job
    BY DEF TypeOK
  <2>2. [job[c] EXCEPT !.state = "waiting"] \in Job
    BY <2>1 DEF Job, JobState, JobPc
  <2>3. job' = [job EXCEPT ![c] = [job[c] EXCEPT !.state = "waiting"]]
    BY <1>18 DEF TypeOK, PromoteDelayed
  <2>4. job' \in [Workers -> Job]
    BY <2>2, <2>3 DEF TypeOK
  <2> QED
    BY <1>18, <2>1, <2>2, <2>3, <2>4 DEF TypeOK, PromoteDelayed
<1>19. ASSUME NEW c \in Workers, NEW n \in Attempts, RetryHandler(c, n) PROVE TypeOK'
  <2>1. handler' \in [Workers -> [Attempts -> Handler]]
    BY <1>19 DEF TypeOK, Handler, HandlerPc, RetryHandler
  <2>2. row' = row \/ row' = [row EXCEPT ![job[c].row].status = "PROCESSING"]
    BY <1>19 DEF RetryHandler, SetStatus
  <2>3. row' \in [Deliveries -> Row]
    BY <2>2 DEF TypeOK, Row, Status
  <2> QED
    BY <1>19, <2>1, <2>2, <2>3 DEF TypeOK, RetryHandler
<1>20. ASSUME NEW c \in Workers, NEW n \in Attempts, DlqAdd(c, n) PROVE TypeOK'
  <2>1. handler[c][n] \in Handler
    BY DEF TypeOK
  <2>2. [handler[c][n] EXCEPT !.pc = "mark"] \in Handler
    BY <2>1 DEF Handler, HandlerPc
  <2>3. handler' = [handler EXCEPT ![c][n] = [handler[c][n] EXCEPT !.pc = "mark"]]
    BY <1>20 DEF TypeOK, DlqAdd
  <2>4. handler' \in [Workers -> [Attempts -> Handler]]
    BY <2>2, <2>3 DEF TypeOK
  <2>5. [row |-> job[c].row, job |-> c] \in [row : Deliveries, job : Workers]
    BY <1>20 DEF RequestInv, HandlerInv, HandlerOK, HandlerAt, DlqAdd
  <2>6. dlq' \subseteq [row : Deliveries, job : Workers]
    BY <1>20, <2>5 DEF TypeOK, DlqAdd
  <2> QED
    BY <1>20, <2>1, <2>2, <2>3, <2>4, <2>5, <2>6 DEF TypeOK, DlqAdd
<1>21. ASSUME NEW c \in Workers, NEW n \in Attempts, DlqMark(c, n) PROVE TypeOK'
  <2>1. handler[c][n] \in Handler
    BY DEF TypeOK
  <2>2. [handler[c][n] EXCEPT !.pc = "audit"] \in Handler
    BY <2>1 DEF Handler, HandlerPc
  <2>3. handler' = [handler EXCEPT ![c][n] = [handler[c][n] EXCEPT !.pc = "audit"]]
    BY <1>21 DEF TypeOK, DlqMark
  <2>4. handler' \in [Workers -> [Attempts -> Handler]]
    BY <2>2, <2>3 DEF TypeOK
  <2>5. row' \in [Deliveries -> Row]
    BY <1>21 DEF TypeOK, Row, Status, DlqMark, SetStatus
  <2> QED
    BY <1>21, <2>1, <2>2, <2>3, <2>4, <2>5 DEF TypeOK, DlqMark
<1>22. ASSUME NEW c \in Workers, NEW n \in Attempts, DlqAudit(c, n) PROVE TypeOK'
  <2>1. handler' \in [Workers -> [Attempts -> Handler]]
    BY <1>22 DEF TypeOK, Handler, HandlerPc, DlqAudit
  <2>2. [row |-> job[c].row, job |-> c] \in [row : Deliveries, job : Workers]
    BY <1>22 DEF RequestInv, HandlerInv, HandlerOK, HandlerAt, DlqAudit
  <2>3. audit' \subseteq [row : Deliveries, job : Workers]
    BY <1>22, <2>2 DEF TypeOK, DlqAudit
  <2> QED
    BY <1>22, <2>1, <2>2, <2>3 DEF TypeOK, DlqAudit
<1>23. ASSUME NEW rule \in AlertRules, CreateAlertRule(rule) PROVE TypeOK'
  BY <1>23 DEF TypeOK, CreateAlertRule
<1>24. ASSUME NEW rule \in AlertRules, DeleteAlertRule(rule) PROVE TypeOK'
  BY <1>24 DEF TypeOK, DeleteAlertRule
<1>25. ASSUME NEW c \in Workers, RequeueStalled(c) PROVE TypeOK'
  <2>1. job[c].stalls < MaxStalls
    BY <1>25 DEF RequeueStalled
  <2>2. job[c] \in Job
    BY DEF TypeOK
  <2>3. job[c].stalls + 1 \in 0..MaxStalls
    BY <2>1, <2>2, WebhookAssumption DEF Job
  <2>4. [job[c] EXCEPT !.state = "waiting", !.stalls = job[c].stalls + 1] \in Job
    BY <2>2, <2>3 DEF Job, JobState
  <2>5. job' = [job EXCEPT ![c] = [job[c] EXCEPT !.state = "waiting", !.stalls = job[c].stalls + 1]]
    BY <1>25 DEF TypeOK, RequeueStalled
  <2>6. job' \in [Workers -> Job]
    BY <2>4, <2>5 DEF TypeOK
  <2> QED
    BY <1>25, <2>1, <2>2, <2>3, <2>4, <2>5, <2>6 DEF TypeOK, RequeueStalled
<1>26. ASSUME NEW p \in Procs, Crash(p) PROVE TypeOK'
  <2>1. delivery' \in [Deliveries -> DeliveryPc]
    BY <1>26 DEF TypeOK, DeliveryPc, Crash
  <2>2. replay' \in [Replays -> Replay]
    BY <1>26 DEF TypeOK, Replay, ReplayPc, Crash
  <2>3. \A c \in Workers : job[c] \in Job
    BY DEF TypeOK
  <2>4. \A c \in Workers :
         [job[c] EXCEPT !.state = "stalled", !.pc = "idle", !.proc = NoProc,
                        !.seen = "ABSENT", !.pending = {}] \in Job
    BY <2>3 DEF Job, JobState, JobPc
  <2>5. job' \in [Workers -> Job]
    BY <1>26, <2>3, <2>4 DEF Crash
  <2>6. handler' \in [Workers -> [Attempts -> Handler]]
    BY <1>26 DEF TypeOK, Handler, HandlerPc, Crash
  <2>7. faults < MaxFaults /\ faults' = faults + 1
    BY <1>26 DEF Crash
  <2>8. faults' \in 0..MaxFaults
    BY <2>7, WebhookAssumption DEF TypeOK
  <2> QED
    BY <1>26, <2>1, <2>2, <2>3, <2>4, <2>5, <2>6, <2>7, <2>8 DEF TypeOK, Crash
<1>27. ASSUME NEW c \in Workers, AttemptFails(c) PROVE TypeOK'
  <2>1. PICK s \in JobState : Fail(c, job[c].proc, s)
    BY <1>27 DEF AttemptFails, JobState
  <2>2. job[c].proc \in Procs \cup {NoProc}
    BY DEF TypeOK, Job
  <2> QED
    BY <1>27, <2>1, <2>2, FailType DEF TypeOK, AttemptFails
<1>28. ASSUME NEW c \in Workers, NEW p \in Procs, FailStalled(c, p) PROVE TypeOK'
  <2>1. Fail(c, p, "failed")
    BY <1>28 DEF FailStalled
  <2> QED
    BY <1>28, <2>1, FailType DEF TypeOK, FailStalled, JobState
<1>29. CASE UNCHANGED vars
  BY <1>29 DEF TypeOK, vars
<1> QED
  BY <1>1, <1>2, <1>3, <1>4, <1>5, <1>6, <1>7, <1>8, <1>9, <1>10, <1>11, <1>12, <1>13, <1>14, <1>15, <1>16, <1>17, <1>18, <1>19, <1>20, <1>21, <1>22, <1>23, <1>24, <1>25, <1>26, <1>27, <1>28, <1>29
  DEF Next, DeliveryStep, ReplayStep, JobStep, HandlerStep

\* Requests and jobs go on agreeing with the rows.
LEMMA RequestInvStep ==
  ASSUME IInv, [Next]_vars PROVE RequestInv'
<1> USE DEF IInv
<1>1. ASSUME NEW d \in Deliveries, Deliver(d) PROVE RequestInv'
  BY <1>1 DEF TypeOK, Job, Row, Replay, RequestInv, Stored, Workers, Deliver
<1>2. ASSUME NEW d \in Deliveries, CheckDuplicate(d) PROVE RequestInv'
  BY <1>2 DEF TypeOK, Job, Row, Replay, RequestInv, Stored, Workers, CheckDuplicate
<1>3. ASSUME NEW d \in Deliveries, StoreEvent(d) PROVE RequestInv'
  BY <1>3
  DEF TypeOK, Job, Row, Replay, RequestInv, Stored, Workers, StoreEvent, CanStore, IsEventDuplicate, SameEvent
<1>4. ASSUME NEW d \in Deliveries, StoreFails(d) PROVE RequestInv'
  BY <1>4 DEF TypeOK, Job, Row, Replay, RequestInv, Stored, Workers, StoreFails
<1>5. ASSUME NEW d \in Deliveries, EnqueueDelivered(d) PROVE RequestInv'
  <2>1. EnqueueEvent(d, d) /\ d \in Workers /\ d \notin Replays /\ row' = row /\ replay' = replay
    BY <1>5, WebhookAssumption DEF EnqueueDelivered, Workers
  <2>2. Stored(d) /\ delivery' = [delivery EXCEPT ![d] = "acked"]
    BY <1>5 DEF RequestInv, EnqueueDelivered
  <2>3. (\A x \in Workers \ {d} : job'[x] = job[x]) /\ job'[d].row = d
    BY <2>1, EnqueueEffect
  <2>4. \A x \in Deliveries : delivery'[x] = IF x = d THEN "acked" ELSE delivery[x]
    BY <2>2 DEF TypeOK
  <2> QED
    BY <2>1, <2>2, <2>3, <2>4 DEF RequestInv, Stored, Workers
<1>6. ASSUME NEW d \in Deliveries, EnqueueDeliveredFails(d) PROVE RequestInv'
  BY <1>6 DEF TypeOK, Job, Row, Replay, RequestInv, Stored, Workers, EnqueueDeliveredFails
<1>7. ASSUME NEW r \in Replays, NEW id \in Deliveries, ReplayFind(r, id) PROVE RequestInv'
  BY <1>7 DEF TypeOK, Job, Row, Replay, RequestInv, Stored, Workers, ReplayFind
<1>8. ASSUME NEW r \in Replays, ReplayMark(r) PROVE RequestInv'
  BY <1>8 DEF TypeOK, Job, Row, Replay, RequestInv, Stored, Workers, ReplayMark, SetStatus
<1>9. ASSUME NEW r \in Replays, ReplayEnqueue(r) PROVE RequestInv'
  <2>1. /\ EnqueueEvent(r, replay[r].row) /\ r \in Workers /\ r \notin Deliveries
        /\ row' = row /\ delivery' = delivery
    BY <1>9, WebhookAssumption DEF ReplayEnqueue, Workers
  <2>2. /\ replay[r].row \in Deliveries /\ Stored(replay[r].row)
        /\ replay' = [replay EXCEPT ![r].pc = "done"]
    BY <1>9 DEF RequestInv, ReplayEnqueue
  <2>3. /\ \A x \in Workers \ {r} : job'[x] = job[x]
        /\ job'[r].row = replay[r].row
    BY <2>1, EnqueueEffect
  <2>4. \A x \in Replays : /\ replay'[x].row = replay[x].row
                           /\ replay'[x].pc = IF x = r THEN "done" ELSE replay[x].pc
    BY <2>2 DEF TypeOK, Replay
  <2> QED
    BY <2>1, <2>2, <2>3, <2>4 DEF RequestInv, Stored, Workers
<1>10. ASSUME NEW r \in Replays, ReplayEnqueueFails(r) PROVE RequestInv'
  BY <1>10 DEF TypeOK, Job, Row, Replay, RequestInv, Stored, Workers, ReplayEnqueueFails
<1>11. ASSUME NEW c \in Workers, NEW p \in Procs, StartJob(c, p) PROVE RequestInv'
  BY <1>11 DEF TypeOK, Job, Row, Replay, RequestInv, Stored, Workers, StartJob
<1>12. ASSUME NEW c \in Workers, FindEvent(c) PROVE RequestInv'
  BY <1>12 DEF TypeOK, Job, Row, Replay, RequestInv, Stored, Workers, FindEvent, Active
<1>13. ASSUME NEW c \in Workers, MarkProcessing(c) PROVE RequestInv'
  BY <1>13
  DEF TypeOK, Job, Row, Replay, RequestInv, Stored, Workers, MarkProcessing, Active, SetStatus
<1>14. ASSUME NEW c \in Workers, MarkProcessed(c) PROVE RequestInv'
  BY <1>14 DEF TypeOK, Job, Row, Replay, RequestInv, Stored, Workers, MarkProcessed, Active
<1>15. ASSUME NEW c \in Workers, ReadRules(c) PROVE RequestInv'
  BY <1>15 DEF TypeOK, Job, Row, Replay, RequestInv, Stored, Workers, ReadRules, Active
<1>16. ASSUME NEW c \in Workers, NEW rule \in AlertRules, FireAlert(c, rule) PROVE RequestInv'
  BY <1>16 DEF TypeOK, Job, Row, Replay, RequestInv, Stored, Workers, FireAlert, Active
<1>17. ASSUME NEW c \in Workers, FinishJob(c) PROVE RequestInv'
  BY <1>17 DEF TypeOK, Job, Row, Replay, RequestInv, Stored, Workers, FinishJob, Active
<1>18. ASSUME NEW c \in Workers, PromoteDelayed(c) PROVE RequestInv'
  BY <1>18 DEF TypeOK, Job, Row, Replay, RequestInv, Stored, Workers, PromoteDelayed
<1>19. ASSUME NEW c \in Workers, AttemptFails(c) PROVE RequestInv'
  <2>1. PICK s \in {"delayed", "failed"} : Fail(c, job[c].proc, s)
    BY <1>19 DEF AttemptFails
  <2>2. \A x \in Workers : /\ job'[x].row = job[x].row
                           /\ job'[x].state = "none" => job[x].state = "none"
                           /\ job[x].state = "none" => job'[x].state = "none"
    BY <1>19, <2>1, FailEffect DEF AttemptFails
  <2> QED
    BY <1>19, <2>2 DEF RequestInv, AttemptFails, Stored, Workers
<1>20. ASSUME NEW c \in Workers, NEW n \in Attempts, RetryHandler(c, n) PROVE RequestInv'
  <2>1. job[c].row \in Deliveries /\ Stored(job[c].row)
    BY <1>20 DEF RequestInv, HandlerInv, HandlerOK, HandlerAt, RetryHandler
  <2>2. \A d \in Deliveries : Stored(d)' <=> Stored(d)
    BY <1>20, <2>1 DEF TypeOK, Row, Stored, RetryHandler, SetStatus
  <2> QED
    BY <1>20, <2>2 DEF RequestInv, RetryHandler
<1>21. ASSUME NEW c \in Workers, NEW n \in Attempts, DlqAdd(c, n) PROVE RequestInv'
  BY <1>21 DEF RequestInv, Stored, DlqAdd
<1>22. ASSUME NEW c \in Workers, NEW n \in Attempts, DlqMark(c, n) PROVE RequestInv'
  <2>1. job[c].row \in Deliveries /\ Stored(job[c].row)
    BY <1>22 DEF RequestInv, HandlerInv, HandlerOK, HandlerAt, DlqMark
  <2>2. \A d \in Deliveries : Stored(d)' <=> Stored(d)
    BY <1>22, <2>1 DEF TypeOK, Row, Stored, DlqMark, SetStatus
  <2> QED
    BY <1>22, <2>2 DEF RequestInv, DlqMark
<1>23. ASSUME NEW c \in Workers, NEW n \in Attempts, DlqAudit(c, n) PROVE RequestInv'
  BY <1>23 DEF RequestInv, Stored, DlqAudit
<1>24. ASSUME NEW rule \in AlertRules, CreateAlertRule(rule) PROVE RequestInv'
  BY <1>24 DEF RequestInv, Stored, CreateAlertRule
<1>25. ASSUME NEW rule \in AlertRules, DeleteAlertRule(rule) PROVE RequestInv'
  BY <1>25 DEF RequestInv, Stored, DeleteAlertRule
<1>26. ASSUME NEW c \in Workers, RequeueStalled(c) PROVE RequestInv'
  BY <1>26 DEF TypeOK, Job, Row, Replay, RequestInv, Stored, Workers, RequeueStalled
<1>27. ASSUME NEW c \in Workers, NEW p \in Procs, FailStalled(c, p) PROVE RequestInv'
  <2>1. Fail(c, p, "failed")
    BY <1>27 DEF FailStalled
  <2>2. \A x \in Workers : /\ job'[x].row = job[x].row
                           /\ job'[x].state = "none" => job[x].state = "none"
                           /\ job[x].state = "none" => job'[x].state = "none"
    BY <1>27, <2>1, FailEffect DEF FailStalled
  <2> QED
    BY <1>27, <2>2 DEF RequestInv, FailStalled, Stored, Workers
<1>28. ASSUME NEW p \in Procs, Crash(p) PROVE RequestInv'
  <2>1. row' = row
    BY <1>28 DEF Crash
  <2> QED
    BY <1>28, <2>1, CrashEffect DEF RequestInv, Stored, Workers
<1>29. CASE UNCHANGED vars
  BY <1>29 DEF RequestInv, Stored, vars
<1> QED
  BY <1>1, <1>2, <1>3, <1>4, <1>5, <1>6, <1>7, <1>8, <1>9, <1>10, <1>11, <1>12, <1>13, <1>14, <1>15, <1>16, <1>17, <1>18, <1>19, <1>20, <1>21, <1>22, <1>23, <1>24, <1>25, <1>26, <1>27, <1>28, <1>29
  DEF Next, DeliveryStep, ReplayStep, JobStep, HandlerStep

\* Only StoreEvent adds a row, and only when no row has its key.
LEMMA RowsUniqueStep ==
  ASSUME IInv, [Next]_vars PROVE RowsUnique'
<1> USE DEF IInv
<1>1. ASSUME NEW d \in Deliveries, Deliver(d) PROVE RowsUnique'
  BY <1>1 DEF TypeOK, Row, RequestInv, RowsUnique, Stored, SameEvent, Deliver
<1>2. ASSUME NEW d \in Deliveries, CheckDuplicate(d) PROVE RowsUnique'
  BY <1>2 DEF TypeOK, Row, RequestInv, RowsUnique, Stored, SameEvent, CheckDuplicate
<1>3. ASSUME NEW d \in Deliveries, StoreEvent(d) PROVE RowsUnique'
  BY <1>3
  DEF TypeOK, Row, RequestInv, RowsUnique, Stored, SameEvent, StoreEvent, CanStore, IsEventDuplicate
<1>4. ASSUME NEW d \in Deliveries, StoreFails(d) PROVE RowsUnique'
  BY <1>4 DEF TypeOK, Row, RequestInv, RowsUnique, Stored, SameEvent, StoreFails
<1>5. ASSUME NEW d \in Deliveries, EnqueueDelivered(d) PROVE RowsUnique'
  BY <1>5
  DEF TypeOK, Row, RequestInv, RowsUnique, Stored, SameEvent, EnqueueDelivered, EnqueueEvent
<1>6. ASSUME NEW d \in Deliveries, EnqueueDeliveredFails(d) PROVE RowsUnique'
  BY <1>6 DEF TypeOK, Row, RequestInv, RowsUnique, Stored, SameEvent, EnqueueDeliveredFails
<1>7. ASSUME NEW r \in Replays, NEW id \in Deliveries, ReplayFind(r, id) PROVE RowsUnique'
  BY <1>7 DEF TypeOK, Row, RequestInv, RowsUnique, Stored, SameEvent, ReplayFind
<1>8. ASSUME NEW r \in Replays, ReplayMark(r) PROVE RowsUnique'
  BY <1>8 DEF TypeOK, Row, RequestInv, RowsUnique, Stored, SameEvent, ReplayMark, SetStatus
<1>9. ASSUME NEW r \in Replays, ReplayEnqueue(r) PROVE RowsUnique'
  BY <1>9 DEF TypeOK, Row, RequestInv, RowsUnique, Stored, SameEvent, ReplayEnqueue, EnqueueEvent
<1>10. ASSUME NEW r \in Replays, ReplayEnqueueFails(r) PROVE RowsUnique'
  BY <1>10 DEF TypeOK, Row, RequestInv, RowsUnique, Stored, SameEvent, ReplayEnqueueFails
<1>11. ASSUME NEW c \in Workers, NEW p \in Procs, StartJob(c, p) PROVE RowsUnique'
  BY <1>11 DEF TypeOK, Row, RequestInv, RowsUnique, Stored, SameEvent, StartJob
<1>12. ASSUME NEW c \in Workers, FindEvent(c) PROVE RowsUnique'
  BY <1>12 DEF TypeOK, Row, RequestInv, RowsUnique, Stored, SameEvent, FindEvent, Active
<1>13. ASSUME NEW c \in Workers, MarkProcessing(c) PROVE RowsUnique'
  BY <1>13
  DEF TypeOK, Row, RequestInv, RowsUnique, Stored, SameEvent, MarkProcessing, Active, SetStatus
<1>14. ASSUME NEW c \in Workers, MarkProcessed(c) PROVE RowsUnique'
  BY <1>14 DEF TypeOK, Row, RequestInv, RowsUnique, Stored, SameEvent, MarkProcessed, Active
<1>15. ASSUME NEW c \in Workers, ReadRules(c) PROVE RowsUnique'
  BY <1>15 DEF TypeOK, Row, RequestInv, RowsUnique, Stored, SameEvent, ReadRules, Active
<1>16. ASSUME NEW c \in Workers, NEW rule \in AlertRules, FireAlert(c, rule) PROVE RowsUnique'
  BY <1>16 DEF TypeOK, Row, RequestInv, RowsUnique, Stored, SameEvent, FireAlert, Active
<1>17. ASSUME NEW c \in Workers, FinishJob(c) PROVE RowsUnique'
  BY <1>17 DEF TypeOK, Row, RequestInv, RowsUnique, Stored, SameEvent, FinishJob, Active
<1>18. ASSUME NEW c \in Workers, PromoteDelayed(c) PROVE RowsUnique'
  BY <1>18 DEF TypeOK, Row, RequestInv, RowsUnique, Stored, SameEvent, PromoteDelayed
<1>19. ASSUME NEW c \in Workers, AttemptFails(c) PROVE RowsUnique'
  BY <1>19
  DEF TypeOK, Row, RequestInv, RowsUnique, Stored, SameEvent, AttemptFails, Fail, HandlerEntry
<1>20. ASSUME NEW c \in Workers, NEW n \in Attempts, RetryHandler(c, n) PROVE RowsUnique'
  <2>1. job[c].row \in Deliveries /\ Stored(job[c].row)
    BY <1>20 DEF RequestInv, HandlerInv, HandlerOK, HandlerAt, RetryHandler
  <2>2. \A d \in Deliveries : Stored(d)' <=> Stored(d)
    BY <1>20, <2>1 DEF TypeOK, Row, Stored, RetryHandler, SetStatus
  <2> QED
    BY <1>20, <2>2 DEF RowsUnique, RetryHandler, SameEvent
<1>21. ASSUME NEW c \in Workers, NEW n \in Attempts, DlqAdd(c, n) PROVE RowsUnique'
  BY <1>21 DEF TypeOK, Row, RequestInv, RowsUnique, Stored, SameEvent, DlqAdd
<1>22. ASSUME NEW c \in Workers, NEW n \in Attempts, DlqMark(c, n) PROVE RowsUnique'
  <2>1. job[c].row \in Deliveries /\ Stored(job[c].row)
    BY <1>22 DEF RequestInv, HandlerInv, HandlerOK, HandlerAt, DlqMark
  <2>2. \A d \in Deliveries : Stored(d)' <=> Stored(d)
    BY <1>22, <2>1 DEF TypeOK, Row, Stored, DlqMark, SetStatus
  <2> QED
    BY <1>22, <2>2 DEF RowsUnique, DlqMark, SameEvent
<1>23. ASSUME NEW c \in Workers, NEW n \in Attempts, DlqAudit(c, n) PROVE RowsUnique'
  BY <1>23 DEF TypeOK, Row, RequestInv, RowsUnique, Stored, SameEvent, DlqAudit
<1>24. ASSUME NEW rule \in AlertRules, CreateAlertRule(rule) PROVE RowsUnique'
  BY <1>24 DEF TypeOK, Row, RequestInv, RowsUnique, Stored, SameEvent, CreateAlertRule
<1>25. ASSUME NEW rule \in AlertRules, DeleteAlertRule(rule) PROVE RowsUnique'
  BY <1>25 DEF TypeOK, Row, RequestInv, RowsUnique, Stored, SameEvent, DeleteAlertRule
<1>26. ASSUME NEW c \in Workers, RequeueStalled(c) PROVE RowsUnique'
  BY <1>26 DEF TypeOK, Row, RequestInv, RowsUnique, Stored, SameEvent, RequeueStalled
<1>27. ASSUME NEW c \in Workers, NEW p \in Procs, FailStalled(c, p) PROVE RowsUnique'
  BY <1>27
  DEF TypeOK, Row, RequestInv, RowsUnique, Stored, SameEvent, FailStalled, Fail, HandlerEntry
<1>28. ASSUME NEW p \in Procs, Crash(p) PROVE RowsUnique'
  BY <1>28 DEF TypeOK, Row, RequestInv, RowsUnique, Stored, SameEvent, Crash
<1>29. CASE UNCHANGED vars
  BY <1>29 DEF RowsUnique, Stored, SameEvent, vars
<1> QED
  BY <1>1, <1>2, <1>3, <1>4, <1>5, <1>6, <1>7, <1>8, <1>9, <1>10, <1>11, <1>12, <1>13, <1>14, <1>15, <1>16, <1>17, <1>18, <1>19, <1>20, <1>21, <1>22, <1>23, <1>24, <1>25, <1>26, <1>27, <1>28, <1>29
  DEF Next, DeliveryStep, ReplayStep, JobStep, HandlerStep

\* Handlers go on agreeing with the state of their jobs.
LEMMA HandlerInvStep ==
  ASSUME IInv, [Next]_vars PROVE HandlerInv'
<1> USE DEF IInv
<1>1. ASSUME NEW d \in Deliveries, Deliver(d) PROVE HandlerInv'
  BY <1>1 DEF HandlerInv, HandlerOK, HandlerAt, Deliver
<1>2. ASSUME NEW d \in Deliveries, CheckDuplicate(d) PROVE HandlerInv'
  BY <1>2 DEF HandlerInv, HandlerOK, HandlerAt, CheckDuplicate
<1>3. ASSUME NEW d \in Deliveries, StoreEvent(d) PROVE HandlerInv'
  BY <1>3 DEF HandlerInv, HandlerOK, HandlerAt, StoreEvent
<1>4. ASSUME NEW d \in Deliveries, StoreFails(d) PROVE HandlerInv'
  BY <1>4 DEF HandlerInv, HandlerOK, HandlerAt, StoreFails
<1>5. ASSUME NEW d \in Deliveries, EnqueueDelivered(d) PROVE HandlerInv'
  <2>1. /\ EnqueueEvent(d, d) /\ d \in Workers /\ job[d].state = "none"
        /\ dlq' = dlq /\ handler' = handler
    BY <1>5 DEF EnqueueDelivered, RequestInv, Workers
  <2>2. /\ \A x \in Workers \ {d} : job'[x] = job[x]
        /\ job'[d].state = "waiting" /\ job'[d].attempts = 0
    BY <2>1, EnqueueEffect
  <2>3. ASSUME NEW x \in Workers, x # d PROVE HandlerOK(x)'
    BY <2>1, <2>2, <2>3 DEF HandlerInv, HandlerOK, HandlerAt
  <2>4. HandlerOK(d)'
    <3>1. \A n \in Attempts : handler'[d][n].pc = "none" /\ handler'[d][n].proc = NoProc
      BY <2>1 DEF HandlerInv, HandlerOK, HandlerAt
    <3>2. job'[d].attempts < MaxAttempts
      BY <2>2, WebhookAssumption
    <3> QED
      BY <3>1, <3>2 DEF HandlerOK, HandlerAt
  <2> QED
    BY <2>3, <2>4 DEF HandlerInv
<1>6. ASSUME NEW d \in Deliveries, EnqueueDeliveredFails(d) PROVE HandlerInv'
  BY <1>6 DEF HandlerInv, HandlerOK, HandlerAt, EnqueueDeliveredFails
<1>7. ASSUME NEW r \in Replays, NEW id \in Deliveries, ReplayFind(r, id) PROVE HandlerInv'
  BY <1>7 DEF HandlerInv, HandlerOK, HandlerAt, ReplayFind
<1>8. ASSUME NEW r \in Replays, ReplayMark(r) PROVE HandlerInv'
  BY <1>8 DEF HandlerInv, HandlerOK, HandlerAt, ReplayMark
<1>9. ASSUME NEW r \in Replays, ReplayEnqueue(r) PROVE HandlerInv'
  <2>1. /\ EnqueueEvent(r, replay[r].row) /\ r \in Workers /\ job[r].state = "none"
        /\ dlq' = dlq /\ handler' = handler
    BY <1>9 DEF ReplayEnqueue, RequestInv, Workers
  <2>2. /\ \A x \in Workers \ {r} : job'[x] = job[x]
        /\ job'[r].state = "waiting" /\ job'[r].attempts = 0
    BY <2>1, EnqueueEffect
  <2>3. ASSUME NEW x \in Workers, x # r PROVE HandlerOK(x)'
    BY <2>1, <2>2, <2>3 DEF HandlerInv, HandlerOK, HandlerAt
  <2>4. HandlerOK(r)'
    <3>1. \A n \in Attempts : handler'[r][n].pc = "none" /\ handler'[r][n].proc = NoProc
      BY <2>1 DEF HandlerInv, HandlerOK, HandlerAt
    <3>2. job'[r].attempts < MaxAttempts
      BY <2>2, WebhookAssumption
    <3> QED
      BY <3>1, <3>2 DEF HandlerOK, HandlerAt
  <2> QED
    BY <2>3, <2>4 DEF HandlerInv
<1>10. ASSUME NEW r \in Replays, ReplayEnqueueFails(r) PROVE HandlerInv'
  BY <1>10 DEF HandlerInv, HandlerOK, HandlerAt, ReplayEnqueueFails
<1>11. ASSUME NEW c \in Workers, NEW p \in Procs, StartJob(c, p) PROVE HandlerInv'
  BY <1>11, WebhookAssumption
  DEF TypeOK, Job, Handler, HandlerInv, HandlerOK, HandlerAt, Attempts, RequestInv, Workers, StartJob
<1>12. ASSUME NEW c \in Workers, FindEvent(c) PROVE HandlerInv'
  BY <1>12, WebhookAssumption
  DEF TypeOK, Job, Handler, HandlerInv, HandlerOK, HandlerAt, Attempts, RequestInv, Workers, FindEvent, Active
<1>13. ASSUME NEW c \in Workers, MarkProcessing(c) PROVE HandlerInv'
  BY <1>13, WebhookAssumption
  DEF TypeOK, Job, Handler, HandlerInv, HandlerOK, HandlerAt, Attempts, RequestInv, Workers, MarkProcessing, Active, SetStatus
<1>14. ASSUME NEW c \in Workers, MarkProcessed(c) PROVE HandlerInv'
  BY <1>14, WebhookAssumption
  DEF TypeOK, Job, Handler, HandlerInv, HandlerOK, HandlerAt, Attempts, RequestInv, Workers, MarkProcessed, Active
<1>15. ASSUME NEW c \in Workers, ReadRules(c) PROVE HandlerInv'
  BY <1>15, WebhookAssumption
  DEF TypeOK, Job, Handler, HandlerInv, HandlerOK, HandlerAt, Attempts, RequestInv, Workers, ReadRules, Active
<1>16. ASSUME NEW c \in Workers, NEW rule \in AlertRules, FireAlert(c, rule) PROVE HandlerInv'
  BY <1>16, WebhookAssumption
  DEF TypeOK, Job, Handler, HandlerInv, HandlerOK, HandlerAt, Attempts, RequestInv, Workers, FireAlert, Active
<1>17. ASSUME NEW c \in Workers, FinishJob(c) PROVE HandlerInv'
  BY <1>17, WebhookAssumption
  DEF TypeOK, Job, Handler, HandlerInv, HandlerOK, HandlerAt, Attempts, RequestInv, Workers, FinishJob, Active
<1>18. ASSUME NEW c \in Workers, PromoteDelayed(c) PROVE HandlerInv'
  BY <1>18, WebhookAssumption
  DEF TypeOK, Job, Handler, HandlerInv, HandlerOK, HandlerAt, Attempts, RequestInv, Workers, PromoteDelayed
<1>19. ASSUME NEW c \in Workers, AttemptFails(c) PROVE HandlerInv'
  <2> DEFINE s == IF job[c].attempts + 1 < MaxAttempts THEN "delayed" ELSE "failed"
             p == job[c].proc
  <2>1. Fail(c, p, s) /\ dlq' = dlq /\ job[c].state = "active"
    BY <1>19 DEF AttemptFails
  <2>2. job[c].attempts \in Nat /\ job[c].attempts < MaxAttempts
    <3>1. job[c] \in Job
      BY DEF TypeOK
    <3>2. job[c].attempts \in 0..MaxAttempts /\ job[c].state # "failed"
      BY <2>1, <3>1 DEF Job
    <3> QED
      BY <3>2, WebhookAssumption DEF HandlerInv, HandlerOK
  <2>3. \A n \in Attempts : handler[c][n].pc \notin {"dlq", "mark", "audit"}
    BY <2>1 DEF HandlerInv, HandlerOK, HandlerAt
  <2>4. PromptHandlers => \A n \in Attempts : handler[c][n].pc # "retry"
    BY <2>1 DEF HandlerInv, HandlerOK, HandlerAt
  <2>5. s \in {"delayed", "failed"} /\ (s = "delayed" => job[c].attempts + 1 < MaxAttempts)
    OBVIOUS
  <2>6. ASSUME NEW x \in Workers, x # c PROVE HandlerOK(x)'
    BY <2>1, <2>6, FailEffect DEF HandlerInv, HandlerOK, HandlerAt
  <2>7. HandlerOK(c)'
    <3>1. /\ job'[c].state = s /\ job'[c].row = job[c].row
          /\ job'[c].attempts = job[c].attempts + 1
          /\ \A n \in Attempts : handler'[c][n] = IF n = job[c].attempts + 1
                 THEN [pc |-> HandlerEntry(n), proc |-> p] ELSE handler[c][n]
      BY <2>1, FailEffect
    <3> HIDE DEF s
    <3>2. ASSUME NEW n \in Attempts, n # job[c].attempts + 1
          PROVE  /\ handler'[c][n] = handler[c][n]
                 /\ handler[c][n].pc \notin {"dlq", "mark", "audit"}
      BY <3>1, <3>2, <2>3
    <3>3. ASSUME NEW n \in Attempts, n = job[c].attempts + 1
          PROVE  handler'[c][n] = [pc |-> HandlerEntry(n), proc |-> p]
      BY <3>1, <3>3
    <3>4. job'[c].state # "failed" => job'[c].attempts < MaxAttempts
      BY <3>1, <2>5
    <3>5. ASSUME NEW n \in Attempts PROVE HandlerAt(c, n)'
      <4>1. CASE n = job[c].attempts + 1
        <5>1. n \in 1..MaxAttempts
          BY DEF Attempts
        <5>2. CASE n < MaxAttempts
          <6>1. HandlerEntry(n) = "retry"
            BY <5>1, <5>2, WebhookAssumption DEF HandlerEntry
          <6>2. handler'[c][n] = [pc |-> "retry", proc |-> p]
            BY <6>1, <4>1, <3>3
          <6>3. job'[c].state \in {"delayed", "failed"} /\ job'[c].attempts = n
            BY <4>1, <3>1, <2>5
          <6> QED
            BY <6>2, <6>3, <5>2 DEF HandlerAt
        <5>3. CASE n = MaxAttempts
          <6>1. HandlerEntry(n) = "dlq"
            BY <5>1, <5>3, WebhookAssumption DEF HandlerEntry
          <6>2. handler'[c][n] = [pc |-> "dlq", proc |-> p]
            BY <6>1, <4>1, <3>3
          <6>3. job'[c].state = "failed" /\ job'[c].attempts = n
            BY <5>3, <4>1, <3>1, <2>5, WebhookAssumption
          <6> QED
            BY <6>2, <6>3, <5>3 DEF HandlerAt
        <5> QED
          BY <5>1, <5>2, <5>3, WebhookAssumption
      <4>2. CASE n # job[c].attempts + 1
        BY <4>2, <3>1, <3>2, <2>1, <2>4, <2>5 DEF HandlerInv, HandlerOK, HandlerAt
      <4> QED
        BY <4>1, <4>2
    <3> QED
      BY <3>4, <3>5 DEF HandlerOK
  <2> QED
    BY <2>6, <2>7 DEF HandlerInv
<1>20. ASSUME NEW c \in Workers, NEW n \in Attempts, RetryHandler(c, n) PROVE HandlerInv'
  BY <1>20, WebhookAssumption
  DEF TypeOK, Job, Handler, HandlerInv, HandlerOK, HandlerAt, Attempts, RequestInv, Workers, RetryHandler, SetStatus
<1>21. ASSUME NEW c \in Workers, NEW n \in Attempts, DlqAdd(c, n) PROVE HandlerInv'
  BY <1>21, WebhookAssumption
  DEF TypeOK, Job, Handler, HandlerInv, HandlerOK, HandlerAt, Attempts, RequestInv, Workers, DlqAdd
<1>22. ASSUME NEW c \in Workers, NEW n \in Attempts, DlqMark(c, n) PROVE HandlerInv'
  BY <1>22, WebhookAssumption
  DEF TypeOK, Job, Handler, HandlerInv, HandlerOK, HandlerAt, Attempts, RequestInv, Workers, DlqMark, SetStatus
<1>23. ASSUME NEW c \in Workers, NEW n \in Attempts, DlqAudit(c, n) PROVE HandlerInv'
  BY <1>23, WebhookAssumption
  DEF TypeOK, Job, Handler, HandlerInv, HandlerOK, HandlerAt, Attempts, RequestInv, Workers, DlqAudit
<1>24. ASSUME NEW rule \in AlertRules, CreateAlertRule(rule) PROVE HandlerInv'
  BY <1>24 DEF HandlerInv, HandlerOK, HandlerAt, CreateAlertRule
<1>25. ASSUME NEW rule \in AlertRules, DeleteAlertRule(rule) PROVE HandlerInv'
  BY <1>25 DEF HandlerInv, HandlerOK, HandlerAt, DeleteAlertRule
<1>26. ASSUME NEW c \in Workers, RequeueStalled(c) PROVE HandlerInv'
  BY <1>26, WebhookAssumption
  DEF TypeOK, Job, Handler, HandlerInv, HandlerOK, HandlerAt, Attempts, RequestInv, Workers, RequeueStalled
<1>27. ASSUME NEW c \in Workers, NEW p \in Procs, FailStalled(c, p) PROVE HandlerInv'
  <2> DEFINE s == "failed"
  <2>1. Fail(c, p, s) /\ dlq' = dlq /\ job[c].state = "stalled"
    BY <1>27 DEF FailStalled
  <2>2. job[c].attempts \in Nat /\ job[c].attempts < MaxAttempts
    <3>1. job[c] \in Job
      BY DEF TypeOK
    <3>2. job[c].attempts \in 0..MaxAttempts /\ job[c].state # "failed"
      BY <2>1, <3>1 DEF Job
    <3> QED
      BY <3>2, WebhookAssumption DEF HandlerInv, HandlerOK
  <2>3. \A n \in Attempts : handler[c][n].pc \notin {"dlq", "mark", "audit"}
    BY <2>1 DEF HandlerInv, HandlerOK, HandlerAt
  <2>4. PromptHandlers => \A n \in Attempts : handler[c][n].pc # "retry"
    BY <2>1 DEF HandlerInv, HandlerOK, HandlerAt
  <2>5. s \in {"delayed", "failed"} /\ (s = "delayed" => job[c].attempts + 1 < MaxAttempts)
    OBVIOUS
  <2>6. ASSUME NEW x \in Workers, x # c PROVE HandlerOK(x)'
    BY <2>1, <2>6, FailEffect DEF HandlerInv, HandlerOK, HandlerAt
  <2>7. HandlerOK(c)'
    <3>1. /\ job'[c].state = s /\ job'[c].row = job[c].row
          /\ job'[c].attempts = job[c].attempts + 1
          /\ \A n \in Attempts : handler'[c][n] = IF n = job[c].attempts + 1
                 THEN [pc |-> HandlerEntry(n), proc |-> p] ELSE handler[c][n]
      BY <2>1, FailEffect
    <3> HIDE DEF s
    <3>2. ASSUME NEW n \in Attempts, n # job[c].attempts + 1
          PROVE  /\ handler'[c][n] = handler[c][n]
                 /\ handler[c][n].pc \notin {"dlq", "mark", "audit"}
      BY <3>1, <3>2, <2>3
    <3>3. ASSUME NEW n \in Attempts, n = job[c].attempts + 1
          PROVE  handler'[c][n] = [pc |-> HandlerEntry(n), proc |-> p]
      BY <3>1, <3>3
    <3>4. job'[c].state # "failed" => job'[c].attempts < MaxAttempts
      BY <3>1, <2>5
    <3>5. ASSUME NEW n \in Attempts PROVE HandlerAt(c, n)'
      <4>1. CASE n = job[c].attempts + 1
        <5>1. n \in 1..MaxAttempts
          BY DEF Attempts
        <5>2. CASE n < MaxAttempts
          <6>1. HandlerEntry(n) = "retry"
            BY <5>1, <5>2, WebhookAssumption DEF HandlerEntry
          <6>2. handler'[c][n] = [pc |-> "retry", proc |-> p]
            BY <6>1, <4>1, <3>3
          <6>3. job'[c].state \in {"delayed", "failed"} /\ job'[c].attempts = n
            BY <4>1, <3>1, <2>5
          <6> QED
            BY <6>2, <6>3, <5>2 DEF HandlerAt
        <5>3. CASE n = MaxAttempts
          <6>1. HandlerEntry(n) = "dlq"
            BY <5>1, <5>3, WebhookAssumption DEF HandlerEntry
          <6>2. handler'[c][n] = [pc |-> "dlq", proc |-> p]
            BY <6>1, <4>1, <3>3
          <6>3. job'[c].state = "failed" /\ job'[c].attempts = n
            BY <5>3, <4>1, <3>1, <2>5, WebhookAssumption
          <6> QED
            BY <6>2, <6>3, <5>3 DEF HandlerAt
        <5> QED
          BY <5>1, <5>2, <5>3, WebhookAssumption
      <4>2. CASE n # job[c].attempts + 1
        BY <4>2, <3>1, <3>2, <2>1, <2>4, <2>5 DEF HandlerInv, HandlerOK, HandlerAt
      <4> QED
        BY <4>1, <4>2
    <3> QED
      BY <3>4, <3>5 DEF HandlerOK
  <2> QED
    BY <2>6, <2>7 DEF HandlerInv
<1>28. ASSUME NEW p \in Procs, Crash(p) PROVE HandlerInv'
  <2>1. dlq' = dlq
    BY <1>28 DEF Crash
  <2> QED
    BY <1>28, <2>1, CrashEffect DEF HandlerInv, HandlerOK, HandlerAt
<1>29. CASE UNCHANGED vars
  BY <1>29 DEF HandlerInv, HandlerOK, HandlerAt, vars
<1> QED
  BY <1>1, <1>2, <1>3, <1>4, <1>5, <1>6, <1>7, <1>8, <1>9, <1>10, <1>11, <1>12, <1>13, <1>14, <1>15, <1>16, <1>17, <1>18, <1>19, <1>20, <1>21, <1>22, <1>23, <1>24, <1>25, <1>26, <1>27, <1>28, <1>29
  DEF Next, DeliveryStep, ReplayStep, JobStep, HandlerStep

\* Dead letters are added only by the handler of an exhausted job, and such a job
\* never runs again.
LEMMA DlqOnlyExhaustedStep ==
  ASSUME IInv, [Next]_vars PROVE DlqOnlyExhausted'
<1> USE DEF IInv
<1>1. ASSUME NEW d \in Deliveries, Deliver(d) PROVE DlqOnlyExhausted'
  BY <1>1 DEF DlqOnlyExhausted, Deliver
<1>2. ASSUME NEW d \in Deliveries, CheckDuplicate(d) PROVE DlqOnlyExhausted'
  BY <1>2 DEF DlqOnlyExhausted, CheckDuplicate
<1>3. ASSUME NEW d \in Deliveries, StoreEvent(d) PROVE DlqOnlyExhausted'
  BY <1>3 DEF DlqOnlyExhausted, StoreEvent
<1>4. ASSUME NEW d \in Deliveries, StoreFails(d) PROVE DlqOnlyExhausted'
  BY <1>4 DEF DlqOnlyExhausted, StoreFails
<1>5. ASSUME NEW d \in Deliveries, EnqueueDelivered(d) PROVE DlqOnlyExhausted'
  <2>1. EnqueueEvent(d, d) /\ d \in Workers /\ job[d].state = "none" /\ dlq' = dlq
    BY <1>5 DEF EnqueueDelivered, RequestInv, Workers
  <2> QED
    BY <2>1, EnqueueEffect DEF TypeOK, DlqOnlyExhausted
<1>6. ASSUME NEW d \in Deliveries, EnqueueDeliveredFails(d) PROVE DlqOnlyExhausted'
  BY <1>6 DEF DlqOnlyExhausted, EnqueueDeliveredFails
<1>7. ASSUME NEW r \in Replays, NEW id \in Deliveries, ReplayFind(r, id) PROVE DlqOnlyExhausted'
  BY <1>7 DEF DlqOnlyExhausted, ReplayFind
<1>8. ASSUME NEW r \in Replays, ReplayMark(r) PROVE DlqOnlyExhausted'
  BY <1>8 DEF DlqOnlyExhausted, ReplayMark
<1>9. ASSUME NEW r \in Replays, ReplayEnqueue(r) PROVE DlqOnlyExhausted'
  <2>1. EnqueueEvent(r, replay[r].row) /\ r \in Workers /\ job[r].state = "none" /\ dlq' = dlq
    BY <1>9 DEF ReplayEnqueue, RequestInv, Workers
  <2> QED
    BY <2>1, EnqueueEffect DEF TypeOK, DlqOnlyExhausted
<1>10. ASSUME NEW r \in Replays, ReplayEnqueueFails(r) PROVE DlqOnlyExhausted'
  BY <1>10 DEF DlqOnlyExhausted, ReplayEnqueueFails
<1>11. ASSUME NEW c \in Workers, NEW p \in Procs, StartJob(c, p) PROVE DlqOnlyExhausted'
  BY <1>11 DEF TypeOK, Job, HandlerInv, HandlerOK, HandlerAt, DlqOnlyExhausted, StartJob
<1>12. ASSUME NEW c \in Workers, FindEvent(c) PROVE DlqOnlyExhausted'
  BY <1>12 DEF TypeOK, Job, HandlerInv, HandlerOK, HandlerAt, DlqOnlyExhausted, FindEvent, Active
<1>13. ASSUME NEW c \in Workers, MarkProcessing(c) PROVE DlqOnlyExhausted'
  BY <1>13
  DEF TypeOK, Job, HandlerInv, HandlerOK, HandlerAt, DlqOnlyExhausted, MarkProcessing, Active, SetStatus
<1>14. ASSUME NEW c \in Workers, MarkProcessed(c) PROVE DlqOnlyExhausted'
  BY <1>14
  DEF TypeOK, Job, HandlerInv, HandlerOK, HandlerAt, DlqOnlyExhausted, MarkProcessed, Active
<1>15. ASSUME NEW c \in Workers, ReadRules(c) PROVE DlqOnlyExhausted'
  BY <1>15 DEF TypeOK, Job, HandlerInv, HandlerOK, HandlerAt, DlqOnlyExhausted, ReadRules, Active
<1>16. ASSUME NEW c \in Workers, NEW rule \in AlertRules, FireAlert(c, rule) PROVE DlqOnlyExhausted'
  BY <1>16 DEF TypeOK, Job, HandlerInv, HandlerOK, HandlerAt, DlqOnlyExhausted, FireAlert, Active
<1>17. ASSUME NEW c \in Workers, FinishJob(c) PROVE DlqOnlyExhausted'
  BY <1>17 DEF TypeOK, Job, HandlerInv, HandlerOK, HandlerAt, DlqOnlyExhausted, FinishJob, Active
<1>18. ASSUME NEW c \in Workers, PromoteDelayed(c) PROVE DlqOnlyExhausted'
  BY <1>18 DEF TypeOK, Job, HandlerInv, HandlerOK, HandlerAt, DlqOnlyExhausted, PromoteDelayed
<1>19. ASSUME NEW c \in Workers, AttemptFails(c) PROVE DlqOnlyExhausted'
  BY <1>19
  DEF TypeOK, Job, HandlerInv, HandlerOK, HandlerAt, DlqOnlyExhausted, AttemptFails, Fail, HandlerEntry
<1>20. ASSUME NEW c \in Workers, NEW n \in Attempts, RetryHandler(c, n) PROVE DlqOnlyExhausted'
  BY <1>20 DEF DlqOnlyExhausted, RetryHandler
<1>21. ASSUME NEW c \in Workers, NEW n \in Attempts, DlqAdd(c, n) PROVE DlqOnlyExhausted'
  BY <1>21 DEF TypeOK, Job, HandlerInv, HandlerOK, HandlerAt, DlqOnlyExhausted, DlqAdd
<1>22. ASSUME NEW c \in Workers, NEW n \in Attempts, DlqMark(c, n) PROVE DlqOnlyExhausted'
  BY <1>22 DEF DlqOnlyExhausted, DlqMark
<1>23. ASSUME NEW c \in Workers, NEW n \in Attempts, DlqAudit(c, n) PROVE DlqOnlyExhausted'
  BY <1>23 DEF DlqOnlyExhausted, DlqAudit
<1>24. ASSUME NEW rule \in AlertRules, CreateAlertRule(rule) PROVE DlqOnlyExhausted'
  BY <1>24 DEF DlqOnlyExhausted, CreateAlertRule
<1>25. ASSUME NEW rule \in AlertRules, DeleteAlertRule(rule) PROVE DlqOnlyExhausted'
  BY <1>25 DEF DlqOnlyExhausted, DeleteAlertRule
<1>26. ASSUME NEW c \in Workers, RequeueStalled(c) PROVE DlqOnlyExhausted'
  BY <1>26 DEF TypeOK, Job, HandlerInv, HandlerOK, HandlerAt, DlqOnlyExhausted, RequeueStalled
<1>27. ASSUME NEW c \in Workers, NEW p \in Procs, FailStalled(c, p) PROVE DlqOnlyExhausted'
  BY <1>27
  DEF TypeOK, Job, HandlerInv, HandlerOK, HandlerAt, DlqOnlyExhausted, FailStalled, Fail, HandlerEntry
<1>28. ASSUME NEW p \in Procs, Crash(p) PROVE DlqOnlyExhausted'
  <2>1. dlq' = dlq
    BY <1>28 DEF Crash
  <2> QED
    BY <1>28, <2>1, CrashEffect DEF TypeOK, DlqOnlyExhausted
<1>29. CASE UNCHANGED vars
  BY <1>29 DEF DlqOnlyExhausted, vars
<1> QED
  BY <1>1, <1>2, <1>3, <1>4, <1>5, <1>6, <1>7, <1>8, <1>9, <1>10, <1>11, <1>12, <1>13, <1>14, <1>15, <1>16, <1>17, <1>18, <1>19, <1>20, <1>21, <1>22, <1>23, <1>24, <1>25, <1>26, <1>27, <1>28, <1>29
  DEF Next, DeliveryStep, ReplayStep, JobStep, HandlerStep

\* FAILED is written only after the dead letter, and dead letters stay.
LEMMA FailedIsDeadLetteredStep ==
  ASSUME IInv, [Next]_vars PROVE FailedIsDeadLettered'
<1> USE DEF IInv
<1>1. ASSUME NEW d \in Deliveries, Deliver(d) PROVE FailedIsDeadLettered'
  BY <1>1 DEF TypeOK, Row, HandlerInv, HandlerOK, HandlerAt, FailedIsDeadLettered, Deliver
<1>2. ASSUME NEW d \in Deliveries, CheckDuplicate(d) PROVE FailedIsDeadLettered'
  BY <1>2 DEF TypeOK, Row, HandlerInv, HandlerOK, HandlerAt, FailedIsDeadLettered, CheckDuplicate
<1>3. ASSUME NEW d \in Deliveries, StoreEvent(d) PROVE FailedIsDeadLettered'
  BY <1>3
  DEF TypeOK, Row, HandlerInv, HandlerOK, HandlerAt, FailedIsDeadLettered, StoreEvent, CanStore, IsEventDuplicate, SameEvent
<1>4. ASSUME NEW d \in Deliveries, StoreFails(d) PROVE FailedIsDeadLettered'
  BY <1>4 DEF TypeOK, Row, HandlerInv, HandlerOK, HandlerAt, FailedIsDeadLettered, StoreFails
<1>5. ASSUME NEW d \in Deliveries, EnqueueDelivered(d) PROVE FailedIsDeadLettered'
  BY <1>5
  DEF TypeOK, Row, HandlerInv, HandlerOK, HandlerAt, FailedIsDeadLettered, EnqueueDelivered, EnqueueEvent
<1>6. ASSUME NEW d \in Deliveries, EnqueueDeliveredFails(d) PROVE FailedIsDeadLettered'
  BY <1>6
  DEF TypeOK, Row, HandlerInv, HandlerOK, HandlerAt, FailedIsDeadLettered, EnqueueDeliveredFails
<1>7. ASSUME NEW r \in Replays, NEW id \in Deliveries, ReplayFind(r, id) PROVE FailedIsDeadLettered'
  BY <1>7 DEF TypeOK, Row, HandlerInv, HandlerOK, HandlerAt, FailedIsDeadLettered, ReplayFind
<1>8. ASSUME NEW r \in Replays, ReplayMark(r) PROVE FailedIsDeadLettered'
  BY <1>8
  DEF TypeOK, Row, HandlerInv, HandlerOK, HandlerAt, FailedIsDeadLettered, ReplayMark, SetStatus
<1>9. ASSUME NEW r \in Replays, ReplayEnqueue(r) PROVE FailedIsDeadLettered'
  BY <1>9
  DEF TypeOK, Row, HandlerInv, HandlerOK, HandlerAt, FailedIsDeadLettered, ReplayEnqueue, EnqueueEvent
<1>10. ASSUME NEW r \in Replays, ReplayEnqueueFails(r) PROVE FailedIsDeadLettered'
  BY <1>10
  DEF TypeOK, Row, HandlerInv, HandlerOK, HandlerAt, FailedIsDeadLettered, ReplayEnqueueFails
<1>11. ASSUME NEW c \in Workers, NEW p \in Procs, StartJob(c, p) PROVE FailedIsDeadLettered'
  BY <1>11 DEF TypeOK, Row, HandlerInv, HandlerOK, HandlerAt, FailedIsDeadLettered, StartJob
<1>12. ASSUME NEW c \in Workers, FindEvent(c) PROVE FailedIsDeadLettered'
  BY <1>12
  DEF TypeOK, Row, HandlerInv, HandlerOK, HandlerAt, FailedIsDeadLettered, FindEvent, Active
<1>13. ASSUME NEW c \in Workers, MarkProcessing(c) PROVE FailedIsDeadLettered'
  BY <1>13
  DEF TypeOK, Row, HandlerInv, HandlerOK, HandlerAt, FailedIsDeadLettered, MarkProcessing, Active, SetStatus
<1>14. ASSUME NEW c \in Workers, MarkProcessed(c) PROVE FailedIsDeadLettered'
  BY <1>14
  DEF TypeOK, Row, HandlerInv, HandlerOK, HandlerAt, FailedIsDeadLettered, MarkProcessed, Active
<1>15. ASSUME NEW c \in Workers, ReadRules(c) PROVE FailedIsDeadLettered'
  BY <1>15
  DEF TypeOK, Row, HandlerInv, HandlerOK, HandlerAt, FailedIsDeadLettered, ReadRules, Active
<1>16. ASSUME NEW c \in Workers, NEW rule \in AlertRules, FireAlert(c, rule) PROVE FailedIsDeadLettered'
  BY <1>16
  DEF TypeOK, Row, HandlerInv, HandlerOK, HandlerAt, FailedIsDeadLettered, FireAlert, Active
<1>17. ASSUME NEW c \in Workers, FinishJob(c) PROVE FailedIsDeadLettered'
  BY <1>17
  DEF TypeOK, Row, HandlerInv, HandlerOK, HandlerAt, FailedIsDeadLettered, FinishJob, Active
<1>18. ASSUME NEW c \in Workers, PromoteDelayed(c) PROVE FailedIsDeadLettered'
  BY <1>18
  DEF TypeOK, Row, HandlerInv, HandlerOK, HandlerAt, FailedIsDeadLettered, PromoteDelayed
<1>19. ASSUME NEW c \in Workers, AttemptFails(c) PROVE FailedIsDeadLettered'
  BY <1>19
  DEF TypeOK, Row, HandlerInv, HandlerOK, HandlerAt, FailedIsDeadLettered, AttemptFails, Fail, HandlerEntry
<1>20. ASSUME NEW c \in Workers, NEW n \in Attempts, RetryHandler(c, n) PROVE FailedIsDeadLettered'
  BY <1>20
  DEF TypeOK, Row, HandlerInv, HandlerOK, HandlerAt, FailedIsDeadLettered, RetryHandler, SetStatus
<1>21. ASSUME NEW c \in Workers, NEW n \in Attempts, DlqAdd(c, n) PROVE FailedIsDeadLettered'
  BY <1>21 DEF TypeOK, Row, HandlerInv, HandlerOK, HandlerAt, FailedIsDeadLettered, DlqAdd
<1>22. ASSUME NEW c \in Workers, NEW n \in Attempts, DlqMark(c, n) PROVE FailedIsDeadLettered'
  BY <1>22
  DEF TypeOK, Row, HandlerInv, HandlerOK, HandlerAt, FailedIsDeadLettered, DlqMark, SetStatus
<1>23. ASSUME NEW c \in Workers, NEW n \in Attempts, DlqAudit(c, n) PROVE FailedIsDeadLettered'
  BY <1>23 DEF TypeOK, Row, HandlerInv, HandlerOK, HandlerAt, FailedIsDeadLettered, DlqAudit
<1>24. ASSUME NEW rule \in AlertRules, CreateAlertRule(rule) PROVE FailedIsDeadLettered'
  BY <1>24
  DEF TypeOK, Row, HandlerInv, HandlerOK, HandlerAt, FailedIsDeadLettered, CreateAlertRule
<1>25. ASSUME NEW rule \in AlertRules, DeleteAlertRule(rule) PROVE FailedIsDeadLettered'
  BY <1>25
  DEF TypeOK, Row, HandlerInv, HandlerOK, HandlerAt, FailedIsDeadLettered, DeleteAlertRule
<1>26. ASSUME NEW c \in Workers, RequeueStalled(c) PROVE FailedIsDeadLettered'
  BY <1>26
  DEF TypeOK, Row, HandlerInv, HandlerOK, HandlerAt, FailedIsDeadLettered, RequeueStalled
<1>27. ASSUME NEW c \in Workers, NEW p \in Procs, FailStalled(c, p) PROVE FailedIsDeadLettered'
  BY <1>27
  DEF TypeOK, Row, HandlerInv, HandlerOK, HandlerAt, FailedIsDeadLettered, FailStalled, Fail, HandlerEntry
<1>28. ASSUME NEW p \in Procs, Crash(p) PROVE FailedIsDeadLettered'
  BY <1>28 DEF TypeOK, Row, HandlerInv, HandlerOK, HandlerAt, FailedIsDeadLettered, Crash
<1>29. CASE UNCHANGED vars
  BY <1>29 DEF FailedIsDeadLettered, vars
<1> QED
  BY <1>1, <1>2, <1>3, <1>4, <1>5, <1>6, <1>7, <1>8, <1>9, <1>10, <1>11, <1>12, <1>13, <1>14, <1>15, <1>16, <1>17, <1>18, <1>19, <1>20, <1>21, <1>22, <1>23, <1>24, <1>25, <1>26, <1>27, <1>28, <1>29
  DEF Next, DeliveryStep, ReplayStep, JobStep, HandlerStep

(* The inductive invariant: through every interleaving of requests, jobs,
   handlers, replays, rules and crashes, the progress of each agrees with the
   rows, the queue and the dead letters. *)
THEOREM Invariance == Spec => []IInv
<1>1. Init => IInv
  <2> SUFFICES ASSUME Init PROVE IInv
    OBVIOUS
  <2>1. TypeOK
    BY TypeInit
  <2>2. RequestInv /\ RowsUnique /\ DlqOnlyExhausted /\ FailedIsDeadLettered
    BY DEF Init, RequestInv, RowsUnique, Stored, DlqOnlyExhausted, FailedIsDeadLettered, Workers
  <2>3. HandlerInv
    BY WebhookAssumption DEF Init, HandlerInv, HandlerOK, HandlerAt, Attempts
  <2> QED
    BY <2>1, <2>2, <2>3 DEF IInv
<1>2. IInv /\ [Next]_vars => IInv'
  BY TypeStep, RequestInvStep, RowsUniqueStep, HandlerInvStep, DlqOnlyExhaustedStep,
     FailedIsDeadLetteredStep
  DEF IInv
<1> QED
  BY <1>1, <1>2, PTL DEF Spec
\* What was abandoned once stays so: nothing picks the event up again but a replay.
LEMMA AbandonedStays ==
  ASSUME IInv, [Next]_vars, NEW id \in Deliveries, Abandoned(id)
  PROVE  Abandoned(id)'
<1>1. ASSUME NEW d \in Deliveries, Deliver(d) PROVE Abandoned(id)'
  BY <1>1, WebhookAssumption
  DEF IInv, TypeOK, Job, Row, Replay, Handler, Workers, Attempts, Stored, RequestInv,
      HandlerInv, HandlerOK, HandlerAt, Abandoned, Deliver
<1>2. ASSUME NEW d \in Deliveries, CheckDuplicate(d) PROVE Abandoned(id)'
  BY <1>2, WebhookAssumption
  DEF IInv, TypeOK, Job, Row, Replay, Handler, Workers, Attempts, Stored, RequestInv,
      HandlerInv, HandlerOK, HandlerAt, Abandoned, CheckDuplicate
<1>3. ASSUME NEW d \in Deliveries, StoreEvent(d) PROVE Abandoned(id)'
  BY <1>3, WebhookAssumption
  DEF IInv, TypeOK, Job, Row, Replay, Handler, Workers, Attempts, Stored, RequestInv,
      HandlerInv, HandlerOK, HandlerAt, Abandoned, StoreEvent, CanStore, IsEventDuplicate,
      SameEvent
<1>4. ASSUME NEW d \in Deliveries, StoreFails(d) PROVE Abandoned(id)'
  BY <1>4, WebhookAssumption
  DEF IInv, TypeOK, Job, Row, Replay, Handler, Workers, Attempts, Stored, RequestInv,
      HandlerInv, HandlerOK, HandlerAt, Abandoned, StoreFails
<1>5. ASSUME NEW d \in Deliveries, EnqueueDelivered(d) PROVE Abandoned(id)'
  BY <1>5, WebhookAssumption
  DEF IInv, TypeOK, Job, Row, Replay, Handler, Workers, Attempts, Stored, RequestInv,
      HandlerInv, HandlerOK, HandlerAt, Abandoned, EnqueueDelivered, EnqueueEvent
<1>6. ASSUME NEW d \in Deliveries, EnqueueDeliveredFails(d) PROVE Abandoned(id)'
  BY <1>6, WebhookAssumption
  DEF IInv, TypeOK, Job, Row, Replay, Handler, Workers, Attempts, Stored, RequestInv,
      HandlerInv, HandlerOK, HandlerAt, Abandoned, EnqueueDeliveredFails
<1>7. ASSUME NEW r \in Replays, NEW e \in Deliveries, ReplayFind(r, e) PROVE Abandoned(id)'
  BY <1>7, WebhookAssumption
  DEF IInv, TypeOK, Job, Row, Replay, Handler, Workers, Attempts, Stored, RequestInv,
      HandlerInv, HandlerOK, HandlerAt, Abandoned, ReplayFind
<1>8. ASSUME NEW r \in Replays, ReplayMark(r) PROVE Abandoned(id)'
  BY <1>8, WebhookAssumption
  DEF IInv, TypeOK, Job, Row, Replay, Handler, Workers, Attempts, Stored, RequestInv,
      HandlerInv, HandlerOK, HandlerAt, Abandoned, ReplayMark, SetStatus
<1>9. ASSUME NEW r \in Replays, ReplayEnqueue(r) PROVE Abandoned(id)'
  <2>1. EnqueueEvent(r, replay[r].row) /\ r \in Workers /\ r \notin Deliveries
    BY <1>9, WebhookAssumption DEF ReplayEnqueue, Workers
  <2>2. job[r].state = "none" /\ \A x \in Workers \ {r} : job'[x] = job[x]
    BY <1>9, <2>1, EnqueueEffect DEF IInv, RequestInv, ReplayEnqueue
  <2>3. \A x \in Replays : replay[x].pc = "stranded" => replay'[x] = replay[x]
    BY <1>9 DEF IInv, TypeOK, ReplayEnqueue
  <2>4. delivery' = delivery /\ handler' = handler
    BY <1>9 DEF ReplayEnqueue
  <2> QED
    BY <2>2, <2>3, <2>4 DEF Abandoned
<1>10. ASSUME NEW r \in Replays, ReplayEnqueueFails(r) PROVE Abandoned(id)'
  BY <1>10, WebhookAssumption
  DEF IInv, TypeOK, Job, Row, Replay, Handler, Workers, Attempts, Stored, RequestInv,
      HandlerInv, HandlerOK, HandlerAt, Abandoned, ReplayEnqueueFails
<1>11. ASSUME NEW c \in Workers, NEW p \in Procs, StartJob(c, p) PROVE Abandoned(id)'
  BY <1>11, WebhookAssumption
  DEF IInv, TypeOK, Job, Row, Replay, Handler, Workers, Attempts, Stored, RequestInv,
      HandlerInv, HandlerOK, HandlerAt, Abandoned, StartJob
<1>12. ASSUME NEW c \in Workers, FindEvent(c) PROVE Abandoned(id)'
  BY <1>12, WebhookAssumption
  DEF IInv, TypeOK, Job, Row, Replay, Handler, Workers, Attempts, Stored, RequestInv,
      HandlerInv, HandlerOK, HandlerAt, Abandoned, FindEvent, Active
<1>13. ASSUME NEW c \in Workers, MarkProcessing(c) PROVE Abandoned(id)'
  BY <1>13, WebhookAssumption
  DEF IInv, TypeOK, Job, Row, Replay, Handler, Workers, Attempts, Stored, RequestInv,
      HandlerInv, HandlerOK, HandlerAt, Abandoned, MarkProcessing, Active, SetStatus
<1>14. ASSUME NEW c \in Workers, MarkProcessed(c) PROVE Abandoned(id)'
  BY <1>14, WebhookAssumption
  DEF IInv, TypeOK, Job, Row, Replay, Handler, Workers, Attempts, Stored, RequestInv,
      HandlerInv, HandlerOK, HandlerAt, Abandoned, MarkProcessed, Active
<1>15. ASSUME NEW c \in Workers, ReadRules(c) PROVE Abandoned(id)'
  BY <1>15, WebhookAssumption
  DEF IInv, TypeOK, Job, Row, Replay, Handler, Workers, Attempts, Stored, RequestInv,
      HandlerInv, HandlerOK, HandlerAt, Abandoned, ReadRules, Active
<1>16. ASSUME NEW c \in Workers, NEW rule \in AlertRules, FireAlert(c, rule) PROVE Abandoned(id)'
  BY <1>16, WebhookAssumption
  DEF IInv, TypeOK, Job, Row, Replay, Handler, Workers, Attempts, Stored, RequestInv,
      HandlerInv, HandlerOK, HandlerAt, Abandoned, FireAlert, Active
<1>17. ASSUME NEW c \in Workers, FinishJob(c) PROVE Abandoned(id)'
  BY <1>17, WebhookAssumption
  DEF IInv, TypeOK, Job, Row, Replay, Handler, Workers, Attempts, Stored, RequestInv,
      HandlerInv, HandlerOK, HandlerAt, Abandoned, FinishJob, Active
<1>18. ASSUME NEW c \in Workers, PromoteDelayed(c) PROVE Abandoned(id)'
  BY <1>18, WebhookAssumption
  DEF IInv, TypeOK, Job, Row, Replay, Handler, Workers, Attempts, Stored, RequestInv,
      HandlerInv, HandlerOK, HandlerAt, Abandoned, PromoteDelayed
<1>19. ASSUME NEW c \in Workers, AttemptFails(c) PROVE Abandoned(id)'
  BY <1>19, WebhookAssumption
  DEF IInv, TypeOK, Job, Row, Replay, Handler, Workers, Attempts, Stored, RequestInv,
      HandlerInv, HandlerOK, HandlerAt, Abandoned, AttemptFails, Fail, HandlerEntry
<1>20. ASSUME NEW c \in Workers, NEW n \in Attempts, RetryHandler(c, n) PROVE Abandoned(id)'
  BY <1>20, WebhookAssumption
  DEF IInv, TypeOK, Job, Row, Replay, Handler, Workers, Attempts, Stored, RequestInv,
      HandlerInv, HandlerOK, HandlerAt, Abandoned, RetryHandler, SetStatus
<1>21. ASSUME NEW c \in Workers, NEW n \in Attempts, DlqAdd(c, n) PROVE Abandoned(id)'
  BY <1>21, WebhookAssumption
  DEF IInv, TypeOK, Job, Row, Replay, Handler, Workers, Attempts, Stored, RequestInv,
      HandlerInv, HandlerOK, HandlerAt, Abandoned, DlqAdd
<1>22. ASSUME NEW c \in Workers, NEW n \in Attempts, DlqMark(c, n) PROVE Abandoned(id)'
  BY <1>22, WebhookAssumption
  DEF IInv, TypeOK, Job, Row, Replay, Handler, Workers, Attempts, Stored, RequestInv,
      HandlerInv, HandlerOK, HandlerAt, Abandoned, DlqMark, SetStatus
<1>23. ASSUME NEW c \in Workers, NEW n \in Attempts, DlqAudit(c, n) PROVE Abandoned(id)'
  BY <1>23, WebhookAssumption
  DEF IInv, TypeOK, Job, Row, Replay, Handler, Workers, Attempts, Stored, RequestInv,
      HandlerInv, HandlerOK, HandlerAt, Abandoned, DlqAudit
<1>24. ASSUME NEW rule \in AlertRules, CreateAlertRule(rule) PROVE Abandoned(id)'
  BY <1>24, WebhookAssumption
  DEF IInv, TypeOK, Job, Row, Replay, Handler, Workers, Attempts, Stored, RequestInv,
      HandlerInv, HandlerOK, HandlerAt, Abandoned, CreateAlertRule
<1>25. ASSUME NEW rule \in AlertRules, DeleteAlertRule(rule) PROVE Abandoned(id)'
  BY <1>25, WebhookAssumption
  DEF IInv, TypeOK, Job, Row, Replay, Handler, Workers, Attempts, Stored, RequestInv,
      HandlerInv, HandlerOK, HandlerAt, Abandoned, DeleteAlertRule
<1>26. ASSUME NEW c \in Workers, RequeueStalled(c) PROVE Abandoned(id)'
  BY <1>26, WebhookAssumption
  DEF IInv, TypeOK, Job, Row, Replay, Handler, Workers, Attempts, Stored, RequestInv,
      HandlerInv, HandlerOK, HandlerAt, Abandoned, RequeueStalled
<1>27. ASSUME NEW c \in Workers, NEW p \in Procs, FailStalled(c, p) PROVE Abandoned(id)'
  BY <1>27, WebhookAssumption
  DEF IInv, TypeOK, Job, Row, Replay, Handler, Workers, Attempts, Stored, RequestInv,
      HandlerInv, HandlerOK, HandlerAt, Abandoned, FailStalled, Fail, HandlerEntry
<1>28. ASSUME NEW p \in Procs, Crash(p) PROVE Abandoned(id)'
  <2>1. MaxAttempts \in Attempts
    BY WebhookAssumption DEF Attempts
  <2> QED
    BY <1>28, <2>1, CrashEffect DEF IInv, Abandoned
<1>29. CASE UNCHANGED vars
  BY <1>29 DEF Abandoned, vars
<1> QED
  BY <1>1, <1>2, <1>3, <1>4, <1>5, <1>6, <1>7, <1>8, <1>9, <1>10, <1>11, <1>12, <1>13,
     <1>14, <1>15, <1>16, <1>17, <1>18, <1>19, <1>20, <1>21, <1>22, <1>23, <1>24, <1>25,
     <1>26, <1>27, <1>28, <1>29
  DEF Next, DeliveryStep, ReplayStep, JobStep, HandlerStep

\* An owner keeps its duty, settles the row or is lost to a fault.
LEMMA OwnerStep ==
  ASSUME IInv, PromptHandlers, [Next]_vars, NEW id \in Deliveries,
         NEW w \in Workers, Owns(w, id)
  PROVE  Owns(w, id)' \/ ~ Unsettled(id)' \/ Abandoned(id)'
<1>1. ASSUME NEW d \in Deliveries, Deliver(d) PROVE Owns(w, id)' \/ ~ Unsettled(id)' \/ Abandoned(id)'
  BY <1>1, WebhookAssumption
  DEF IInv, TypeOK, Job, Row, Replay, Handler, Workers, Attempts, Stored, RequestInv,
      HandlerInv, HandlerOK, HandlerAt, Owns, Abandoned, Unsettled, Deliver
<1>2. ASSUME NEW d \in Deliveries, CheckDuplicate(d) PROVE Owns(w, id)' \/ ~ Unsettled(id)' \/ Abandoned(id)'
  BY <1>2, WebhookAssumption
  DEF IInv, TypeOK, Job, Row, Replay, Handler, Workers, Attempts, Stored, RequestInv,
      HandlerInv, HandlerOK, HandlerAt, Owns, Abandoned, Unsettled, CheckDuplicate
<1>3. ASSUME NEW d \in Deliveries, StoreEvent(d) PROVE Owns(w, id)' \/ ~ Unsettled(id)' \/ Abandoned(id)'
  BY <1>3, WebhookAssumption
  DEF IInv, TypeOK, Job, Row, Replay, Handler, Workers, Attempts, Stored, RequestInv,
      HandlerInv, HandlerOK, HandlerAt, Owns, Abandoned, Unsettled, StoreEvent, CanStore,
      IsEventDuplicate, SameEvent
<1>4. ASSUME NEW d \in Deliveries, StoreFails(d) PROVE Owns(w, id)' \/ ~ Unsettled(id)' \/ Abandoned(id)'
  BY <1>4, WebhookAssumption
  DEF IInv, TypeOK, Job, Row, Replay, Handler, Workers, Attempts, Stored, RequestInv,
      HandlerInv, HandlerOK, HandlerAt, Owns, Abandoned, Unsettled, StoreFails
<1>5. ASSUME NEW d \in Deliveries, EnqueueDelivered(d) PROVE Owns(w, id)' \/ ~ Unsettled(id)' \/ Abandoned(id)'
  BY <1>5, WebhookAssumption
  DEF IInv, TypeOK, Job, Row, Replay, Handler, Workers, Attempts, Stored, RequestInv,
      HandlerInv, HandlerOK, HandlerAt, Owns, Abandoned, Unsettled, EnqueueDelivered,
      EnqueueEvent
<1>6. ASSUME NEW d \in Deliveries, EnqueueDeliveredFails(d) PROVE Owns(w, id)' \/ ~ Unsettled(id)' \/ Abandoned(id)'
  BY <1>6, WebhookAssumption
  DEF IInv, TypeOK, Job, Row, Replay, Handler, Workers, Attempts, Stored, RequestInv,
      HandlerInv, HandlerOK, HandlerAt, Owns, Abandoned, Unsettled, EnqueueDeliveredFails
<1>7. ASSUME NEW r \in Replays, NEW e \in Deliveries, ReplayFind(r, e) PROVE Owns(w, id)' \/ ~ Unsettled(id)' \/ Abandoned(id)'
  BY <1>7, WebhookAssumption
  DEF IInv, TypeOK, Job, Row, Replay, Handler, Workers, Attempts, Stored, RequestInv,
      HandlerInv, HandlerOK, HandlerAt, Owns, Abandoned, Unsettled, ReplayFind
<1>8. ASSUME NEW r \in Replays, ReplayMark(r) PROVE Owns(w, id)' \/ ~ Unsettled(id)' \/ Abandoned(id)'
  BY <1>8, WebhookAssumption
  DEF IInv, TypeOK, Job, Row, Replay, Handler, Workers, Attempts, Stored, RequestInv,
      HandlerInv, HandlerOK, HandlerAt, Owns, Abandoned, Unsettled, ReplayMark, SetStatus
<1>9. ASSUME NEW r \in Replays, ReplayEnqueue(r) PROVE Owns(w, id)' \/ ~ Unsettled(id)' \/ Abandoned(id)'
  <2>1. /\ EnqueueEvent(r, replay[r].row) /\ r \in Workers /\ r \notin Deliveries
        /\ delivery' = delivery /\ handler' = handler
        /\ replay' = [replay EXCEPT ![r].pc = "done"]
    BY <1>9, WebhookAssumption DEF ReplayEnqueue, Workers
  <2>2. job[r].state = "none"
    BY <1>9 DEF IInv, RequestInv, ReplayEnqueue
  <2>3. /\ \A x \in Workers \ {r} : job'[x] = job[x]
        /\ job'[r].state = "waiting" /\ job'[r].row = replay[r].row
    BY <2>1, EnqueueEffect DEF IInv
  <2>4. \A x \in Replays \ {r} : replay'[x] = replay[x]
    BY <2>1 DEF IInv, TypeOK
  <2>5. CASE w = r
    BY <2>1, <2>2, <2>3, <2>5 DEF Owns
  <2>6. CASE w # r
    BY <2>1, <2>3, <2>4, <2>6 DEF Owns
  <2> QED
    BY <2>5, <2>6
<1>10. ASSUME NEW r \in Replays, ReplayEnqueueFails(r) PROVE Owns(w, id)' \/ ~ Unsettled(id)' \/ Abandoned(id)'
  BY <1>10, WebhookAssumption
  DEF IInv, TypeOK, Job, Row, Replay, Handler, Workers, Attempts, Stored, RequestInv,
      HandlerInv, HandlerOK, HandlerAt, Owns, Abandoned, Unsettled, ReplayEnqueueFails
<1>11. ASSUME NEW c \in Workers, NEW p \in Procs, StartJob(c, p) PROVE Owns(w, id)' \/ ~ Unsettled(id)' \/ Abandoned(id)'
  BY <1>11, WebhookAssumption
  DEF IInv, TypeOK, Job, Row, Replay, Handler, Workers, Attempts, Stored, RequestInv,
      HandlerInv, HandlerOK, HandlerAt, Owns, Abandoned, Unsettled, StartJob
<1>12. ASSUME NEW c \in Workers, FindEvent(c) PROVE Owns(w, id)' \/ ~ Unsettled(id)' \/ Abandoned(id)'
  BY <1>12, WebhookAssumption
  DEF IInv, TypeOK, Job, Row, Replay, Handler, Workers, Attempts, Stored, RequestInv,
      HandlerInv, HandlerOK, HandlerAt, Owns, Abandoned, Unsettled, FindEvent, Active
<1>13. ASSUME NEW c \in Workers, MarkProcessing(c) PROVE Owns(w, id)' \/ ~ Unsettled(id)' \/ Abandoned(id)'
  BY <1>13, WebhookAssumption
  DEF IInv, TypeOK, Job, Row, Replay, Handler, Workers, Attempts, Stored, RequestInv,
      HandlerInv, HandlerOK, HandlerAt, Owns, Abandoned, Unsettled, MarkProcessing,
      Active, SetStatus
<1>14. ASSUME NEW c \in Workers, MarkProcessed(c) PROVE Owns(w, id)' \/ ~ Unsettled(id)' \/ Abandoned(id)'
  BY <1>14, WebhookAssumption
  DEF IInv, TypeOK, Job, Row, Replay, Handler, Workers, Attempts, Stored, RequestInv,
      HandlerInv, HandlerOK, HandlerAt, Owns, Abandoned, Unsettled, MarkProcessed, Active
<1>15. ASSUME NEW c \in Workers, ReadRules(c) PROVE Owns(w, id)' \/ ~ Unsettled(id)' \/ Abandoned(id)'
  BY <1>15, WebhookAssumption
  DEF IInv, TypeOK, Job, Row, Replay, Handler, Workers, Attempts, Stored, RequestInv,
      HandlerInv, HandlerOK, HandlerAt, Owns, Abandoned, Unsettled, ReadRules, Active
<1>16. ASSUME NEW c \in Workers, NEW rule \in AlertRules, FireAlert(c, rule) PROVE Owns(w, id)' \/ ~ Unsettled(id)' \/ Abandoned(id)'
  BY <1>16, WebhookAssumption
  DEF IInv, TypeOK, Job, Row, Replay, Handler, Workers, Attempts, Stored, RequestInv,
      HandlerInv, HandlerOK, HandlerAt, Owns, Abandoned, Unsettled, FireAlert, Active
<1>17. ASSUME NEW c \in Workers, FinishJob(c) PROVE Owns(w, id)' \/ ~ Unsettled(id)' \/ Abandoned(id)'
  BY <1>17, WebhookAssumption
  DEF IInv, TypeOK, Job, Row, Replay, Handler, Workers, Attempts, Stored, RequestInv,
      HandlerInv, HandlerOK, HandlerAt, Owns, Abandoned, Unsettled, FinishJob, Active
<1>18. ASSUME NEW c \in Workers, PromoteDelayed(c) PROVE Owns(w, id)' \/ ~ Unsettled(id)' \/ Abandoned(id)'
  BY <1>18, WebhookAssumption
  DEF IInv, TypeOK, Job, Row, Replay, Handler, Workers, Attempts, Stored, RequestInv,
      HandlerInv, HandlerOK, HandlerAt, Owns, Abandoned, Unsettled, PromoteDelayed
<1>19. ASSUME NEW c \in Workers, AttemptFails(c) PROVE Owns(w, id)' \/ ~ Unsettled(id)' \/ Abandoned(id)'
  <2> DEFINE s == IF job[c].attempts + 1 < MaxAttempts THEN "delayed" ELSE "failed"
             p == job[c].proc
  <2>1. /\ Fail(c, p, s) /\ job[c].state = "active"
        /\ delivery' = delivery /\ replay' = replay
    BY <1>19 DEF AttemptFails
  <2>2. CASE w # c
    BY <2>1, <2>2, FailEffect DEF IInv, Owns
  <2>3. CASE w = c /\ delivery[c] = "enqueue" /\ c \in Deliveries
    BY <2>1, <2>3 DEF IInv, RequestInv
  <2>4. CASE w = c /\ c \in Replays /\ replay[c].pc = "enqueue"
    BY <2>1, <2>4 DEF IInv, RequestInv
  <2>5. CASE w = c /\ job[c].row = id
    <3>1. /\ job'[c].state = s /\ job'[c].row = id
          /\ job'[c].attempts = job[c].attempts + 1
      BY <2>1, <2>5, FailEffect DEF IInv
    <3>2. job[c].attempts \in 0..MaxAttempts /\ job[c].attempts < MaxAttempts
      <4>1. job[c] \in Job
        BY DEF IInv, TypeOK
      <4> QED
        BY <4>1, <2>1 DEF IInv, Job, HandlerInv, HandlerOK
    <3>3. s \in {"delayed", "failed"}
      OBVIOUS
    <3> HIDE DEF s
    <3>4. CASE job[c].attempts + 1 < MaxAttempts
      BY <3>1, <3>3, <3>4, <2>5 DEF Owns, Abandoned
    <3>5. CASE job[c].attempts + 1 = MaxAttempts
      <4>1. MaxAttempts \in Attempts /\ HandlerEntry(MaxAttempts) = "dlq"
        BY WebhookAssumption DEF Attempts, HandlerEntry
      <4>2. handler'[c][MaxAttempts] = [pc |-> "dlq", proc |-> p]
        BY <4>1, <3>5, <2>1, FailEffect DEF IInv
      <4> QED
        BY <4>2, <3>1, <3>3, <2>5 DEF Owns
    <3> QED
      BY <3>2, <3>4, <3>5, WebhookAssumption
  <2> QED
    BY <2>2, <2>3, <2>4, <2>5 DEF Owns
<1>20. ASSUME NEW c \in Workers, NEW n \in Attempts, RetryHandler(c, n) PROVE Owns(w, id)' \/ ~ Unsettled(id)' \/ Abandoned(id)'
  BY <1>20, WebhookAssumption
  DEF IInv, TypeOK, Job, Row, Replay, Handler, Workers, Attempts, Stored, RequestInv,
      HandlerInv, HandlerOK, HandlerAt, Owns, Abandoned, Unsettled, RetryHandler,
      SetStatus
<1>21. ASSUME NEW c \in Workers, NEW n \in Attempts, DlqAdd(c, n) PROVE Owns(w, id)' \/ ~ Unsettled(id)' \/ Abandoned(id)'
  BY <1>21, WebhookAssumption
  DEF IInv, TypeOK, Job, Row, Replay, Handler, Workers, Attempts, Stored, RequestInv,
      HandlerInv, HandlerOK, HandlerAt, Owns, Abandoned, Unsettled, DlqAdd
<1>22. ASSUME NEW c \in Workers, NEW n \in Attempts, DlqMark(c, n) PROVE Owns(w, id)' \/ ~ Unsettled(id)' \/ Abandoned(id)'
  BY <1>22, WebhookAssumption
  DEF IInv, TypeOK, Job, Row, Replay, Handler, Workers, Attempts, Stored, RequestInv,
      HandlerInv, HandlerOK, HandlerAt, Owns, Abandoned, Unsettled, DlqMark, SetStatus
<1>23. ASSUME NEW c \in Workers, NEW n \in Attempts, DlqAudit(c, n) PROVE Owns(w, id)' \/ ~ Unsettled(id)' \/ Abandoned(id)'
  BY <1>23, WebhookAssumption
  DEF IInv, TypeOK, Job, Row, Replay, Handler, Workers, Attempts, Stored, RequestInv,
      HandlerInv, HandlerOK, HandlerAt, Owns, Abandoned, Unsettled, DlqAudit
<1>24. ASSUME NEW rule \in AlertRules, CreateAlertRule(rule) PROVE Owns(w, id)' \/ ~ Unsettled(id)' \/ Abandoned(id)'
  BY <1>24, WebhookAssumption
  DEF IInv, TypeOK, Job, Row, Replay, Handler, Workers, Attempts, Stored, RequestInv,
      HandlerInv, HandlerOK, HandlerAt, Owns, Abandoned, Unsettled, CreateAlertRule
<1>25. ASSUME NEW rule \in AlertRules, DeleteAlertRule(rule) PROVE Owns(w, id)' \/ ~ Unsettled(id)' \/ Abandoned(id)'
  BY <1>25, WebhookAssumption
  DEF IInv, TypeOK, Job, Row, Replay, Handler, Workers, Attempts, Stored, RequestInv,
      HandlerInv, HandlerOK, HandlerAt, Owns, Abandoned, Unsettled, DeleteAlertRule
<1>26. ASSUME NEW c \in Workers, RequeueStalled(c) PROVE Owns(w, id)' \/ ~ Unsettled(id)' \/ Abandoned(id)'
  BY <1>26, WebhookAssumption
  DEF IInv, TypeOK, Job, Row, Replay, Handler, Workers, Attempts, Stored, RequestInv,
      HandlerInv, HandlerOK, HandlerAt, Owns, Abandoned, Unsettled, RequeueStalled
<1>27. ASSUME NEW c \in Workers, NEW p \in Procs, FailStalled(c, p) PROVE Owns(w, id)' \/ ~ Unsettled(id)' \/ Abandoned(id)'
  <2> DEFINE s == "failed"
  <2>1. /\ Fail(c, p, s) /\ job[c].state = "stalled"
        /\ delivery' = delivery /\ replay' = replay
    BY <1>27 DEF FailStalled
  <2>2. CASE w # c
    BY <2>1, <2>2, FailEffect DEF IInv, Owns
  <2>3. CASE w = c /\ delivery[c] = "enqueue" /\ c \in Deliveries
    BY <2>1, <2>3 DEF IInv, RequestInv
  <2>4. CASE w = c /\ c \in Replays /\ replay[c].pc = "enqueue"
    BY <2>1, <2>4 DEF IInv, RequestInv
  <2>5. CASE w = c /\ job[c].row = id
    <3>1. /\ job'[c].state = s /\ job'[c].row = id
          /\ job'[c].attempts = job[c].attempts + 1
      BY <2>1, <2>5, FailEffect DEF IInv
    <3>2. job[c].attempts \in 0..MaxAttempts /\ job[c].attempts < MaxAttempts
      <4>1. job[c] \in Job
        BY DEF IInv, TypeOK
      <4> QED
        BY <4>1, <2>1 DEF IInv, Job, HandlerInv, HandlerOK
    <3>3. s \in {"delayed", "failed"}
      OBVIOUS
    <3> HIDE DEF s
    <3>4. CASE job[c].attempts + 1 < MaxAttempts
      BY <3>1, <3>3, <3>4, <2>5 DEF Owns, Abandoned
    <3>5. CASE job[c].attempts + 1 = MaxAttempts
      <4>1. MaxAttempts \in Attempts /\ HandlerEntry(MaxAttempts) = "dlq"
        BY WebhookAssumption DEF Attempts, HandlerEntry
      <4>2. handler'[c][MaxAttempts] = [pc |-> "dlq", proc |-> p]
        BY <4>1, <3>5, <2>1, FailEffect DEF IInv
      <4> QED
        BY <4>2, <3>1, <3>3, <2>5 DEF Owns
    <3> QED
      BY <3>2, <3>4, <3>5, WebhookAssumption
  <2> QED
    BY <2>2, <2>3, <2>4, <2>5 DEF Owns
<1>28. ASSUME NEW p \in Procs, Crash(p) PROVE Owns(w, id)' \/ ~ Unsettled(id)' \/ Abandoned(id)'
  <2>1. MaxAttempts \in Attempts
    BY WebhookAssumption DEF Attempts
  <2> QED
    BY <1>28, <2>1, CrashEffect DEF Workers, Owns, Abandoned
<1>29. CASE UNCHANGED vars
  BY <1>29 DEF Owns, vars
<1> QED
  BY <1>1, <1>2, <1>3, <1>4, <1>5, <1>6, <1>7, <1>8, <1>9, <1>10, <1>11, <1>12, <1>13,
     <1>14, <1>15, <1>16, <1>17, <1>18, <1>19, <1>20, <1>21, <1>22, <1>23, <1>24, <1>25,
     <1>26, <1>27, <1>28, <1>29
  DEF Next, DeliveryStep, ReplayStep, JobStep, HandlerStep

\* Whoever stores, claims, replays or annotates a row has a duty for it.
LEMMA ReopenedIsOwned ==
  ASSUME IInv, PromptHandlers, [Next]_vars, NEW id \in Deliveries,
         ~ Unsettled(id), Unsettled(id)'
  PROVE  (\E w \in Workers : Owns(w, id)') \/ Abandoned(id)'
<1>1. ASSUME NEW d \in Deliveries, Deliver(d) PROVE (\E w \in Workers : Owns(w, id)') \/ Abandoned(id)'
  BY <1>1, WebhookAssumption
  DEF IInv, TypeOK, Job, Row, Replay, Handler, Workers, Attempts, Stored, RequestInv,
      HandlerInv, HandlerOK, HandlerAt, Owns, Abandoned, Unsettled, Deliver
<1>2. ASSUME NEW d \in Deliveries, CheckDuplicate(d) PROVE (\E w \in Workers : Owns(w, id)') \/ Abandoned(id)'
  BY <1>2, WebhookAssumption
  DEF IInv, TypeOK, Job, Row, Replay, Handler, Workers, Attempts, Stored, RequestInv,
      HandlerInv, HandlerOK, HandlerAt, Owns, Abandoned, Unsettled, CheckDuplicate
<1>3. ASSUME NEW d \in Deliveries, StoreEvent(d) PROVE (\E w \in Workers : Owns(w, id)') \/ Abandoned(id)'
  BY <1>3, WebhookAssumption
  DEF IInv, TypeOK, Job, Row, Replay, Handler, Workers, Attempts, Stored, RequestInv,
      HandlerInv, HandlerOK, HandlerAt, Owns, Abandoned, Unsettled, StoreEvent, CanStore,
      IsEventDuplicate, SameEvent
<1>4. ASSUME NEW d \in Deliveries, StoreFails(d) PROVE (\E w \in Workers : Owns(w, id)') \/ Abandoned(id)'
  BY <1>4, WebhookAssumption
  DEF IInv, TypeOK, Job, Row, Replay, Handler, Workers, Attempts, Stored, RequestInv,
      HandlerInv, HandlerOK, HandlerAt, Owns, Abandoned, Unsettled, StoreFails
<1>5. ASSUME NEW d \in Deliveries, EnqueueDelivered(d) PROVE (\E w \in Workers : Owns(w, id)') \/ Abandoned(id)'
  BY <1>5, WebhookAssumption
  DEF IInv, TypeOK, Job, Row, Replay, Handler, Workers, Attempts, Stored, RequestInv,
      HandlerInv, HandlerOK, HandlerAt, Owns, Abandoned, Unsettled, EnqueueDelivered,
      EnqueueEvent
<1>6. ASSUME NEW d \in Deliveries, EnqueueDeliveredFails(d) PROVE (\E w \in Workers : Owns(w, id)') \/ Abandoned(id)'
  BY <1>6, WebhookAssumption
  DEF IInv, TypeOK, Job, Row, Replay, Handler, Workers, Attempts, Stored, RequestInv,
      HandlerInv, HandlerOK, HandlerAt, Owns, Abandoned, Unsettled, EnqueueDeliveredFails
<1>7. ASSUME NEW r \in Replays, NEW e \in Deliveries, ReplayFind(r, e) PROVE (\E w \in Workers : Owns(w, id)') \/ Abandoned(id)'
  BY <1>7, WebhookAssumption
  DEF IInv, TypeOK, Job, Row, Replay, Handler, Workers, Attempts, Stored, RequestInv,
      HandlerInv, HandlerOK, HandlerAt, Owns, Abandoned, Unsettled, ReplayFind
<1>8. ASSUME NEW r \in Replays, ReplayMark(r) PROVE (\E w \in Workers : Owns(w, id)') \/ Abandoned(id)'
  BY <1>8, WebhookAssumption
  DEF IInv, TypeOK, Job, Row, Replay, Handler, Workers, Attempts, Stored, RequestInv,
      HandlerInv, HandlerOK, HandlerAt, Owns, Abandoned, Unsettled, ReplayMark, SetStatus
<1>9. ASSUME NEW r \in Replays, ReplayEnqueue(r) PROVE (\E w \in Workers : Owns(w, id)') \/ Abandoned(id)'
  BY <1>9, WebhookAssumption
  DEF IInv, TypeOK, Job, Row, Replay, Handler, Workers, Attempts, Stored, RequestInv,
      HandlerInv, HandlerOK, HandlerAt, Owns, Abandoned, Unsettled, ReplayEnqueue,
      EnqueueEvent
<1>10. ASSUME NEW r \in Replays, ReplayEnqueueFails(r) PROVE (\E w \in Workers : Owns(w, id)') \/ Abandoned(id)'
  BY <1>10, WebhookAssumption
  DEF IInv, TypeOK, Job, Row, Replay, Handler, Workers, Attempts, Stored, RequestInv,
      HandlerInv, HandlerOK, HandlerAt, Owns, Abandoned, Unsettled, ReplayEnqueueFails
<1>11. ASSUME NEW c \in Workers, NEW p \in Procs, StartJob(c, p) PROVE (\E w \in Workers : Owns(w, id)') \/ Abandoned(id)'
  BY <1>11, WebhookAssumption
  DEF IInv, TypeOK, Job, Row, Replay, Handler, Workers, Attempts, Stored, RequestInv,
      HandlerInv, HandlerOK, HandlerAt, Owns, Abandoned, Unsettled, StartJob
<1>12. ASSUME NEW c \in Workers, FindEvent(c) PROVE (\E w \in Workers : Owns(w, id)') \/ Abandoned(id)'
  BY <1>12, WebhookAssumption
  DEF IInv, TypeOK, Job, Row, Replay, Handler, Workers, Attempts, Stored, RequestInv,
      HandlerInv, HandlerOK, HandlerAt, Owns, Abandoned, Unsettled, FindEvent, Active
<1>13. ASSUME NEW c \in Workers, MarkProcessing(c) PROVE (\E w \in Workers : Owns(w, id)') \/ Abandoned(id)'
  BY <1>13, WebhookAssumption
  DEF IInv, TypeOK, Job, Row, Replay, Handler, Workers, Attempts, Stored, RequestInv,
      HandlerInv, HandlerOK, HandlerAt, Owns, Abandoned, Unsettled, MarkProcessing,
      Active, SetStatus
<1>14. ASSUME NEW c \in Workers, MarkProcessed(c) PROVE (\E w \in Workers : Owns(w, id)') \/ Abandoned(id)'
  BY <1>14, WebhookAssumption
  DEF IInv, TypeOK, Job, Row, Replay, Handler, Workers, Attempts, Stored, RequestInv,
      HandlerInv, HandlerOK, HandlerAt, Owns, Abandoned, Unsettled, MarkProcessed, Active
<1>15. ASSUME NEW c \in Workers, ReadRules(c) PROVE (\E w \in Workers : Owns(w, id)') \/ Abandoned(id)'
  BY <1>15, WebhookAssumption
  DEF IInv, TypeOK, Job, Row, Replay, Handler, Workers, Attempts, Stored, RequestInv,
      HandlerInv, HandlerOK, HandlerAt, Owns, Abandoned, Unsettled, ReadRules, Active
<1>16. ASSUME NEW c \in Workers, NEW rule \in AlertRules, FireAlert(c, rule) PROVE (\E w \in Workers : Owns(w, id)') \/ Abandoned(id)'
  BY <1>16, WebhookAssumption
  DEF IInv, TypeOK, Job, Row, Replay, Handler, Workers, Attempts, Stored, RequestInv,
      HandlerInv, HandlerOK, HandlerAt, Owns, Abandoned, Unsettled, FireAlert, Active
<1>17. ASSUME NEW c \in Workers, FinishJob(c) PROVE (\E w \in Workers : Owns(w, id)') \/ Abandoned(id)'
  BY <1>17, WebhookAssumption
  DEF IInv, TypeOK, Job, Row, Replay, Handler, Workers, Attempts, Stored, RequestInv,
      HandlerInv, HandlerOK, HandlerAt, Owns, Abandoned, Unsettled, FinishJob, Active
<1>18. ASSUME NEW c \in Workers, PromoteDelayed(c) PROVE (\E w \in Workers : Owns(w, id)') \/ Abandoned(id)'
  BY <1>18, WebhookAssumption
  DEF IInv, TypeOK, Job, Row, Replay, Handler, Workers, Attempts, Stored, RequestInv,
      HandlerInv, HandlerOK, HandlerAt, Owns, Abandoned, Unsettled, PromoteDelayed
<1>19. ASSUME NEW c \in Workers, AttemptFails(c) PROVE (\E w \in Workers : Owns(w, id)') \/ Abandoned(id)'
  BY <1>19, WebhookAssumption
  DEF IInv, TypeOK, Job, Row, Replay, Handler, Workers, Attempts, Stored, RequestInv,
      HandlerInv, HandlerOK, HandlerAt, Owns, Abandoned, Unsettled, AttemptFails, Fail,
      HandlerEntry
<1>20. ASSUME NEW c \in Workers, NEW n \in Attempts, RetryHandler(c, n) PROVE (\E w \in Workers : Owns(w, id)') \/ Abandoned(id)'
  <2>1. job[c].row \in Deliveries /\ job' = job
    BY <1>20 DEF IInv, RequestInv, HandlerInv, HandlerOK, HandlerAt, RetryHandler
  <2>2. id = job[c].row
    BY <1>20, <2>1 DEF IInv, TypeOK, Row, Unsettled, RetryHandler, SetStatus
  <2>3. job[c].state = "delayed" \/ (job[c].state = "failed" /\ job[c].attempts < MaxAttempts)
    BY <1>20 DEF IInv, HandlerInv, HandlerOK, HandlerAt, RetryHandler
  <2> QED
    BY <2>1, <2>2, <2>3 DEF Owns, Abandoned
<1>21. ASSUME NEW c \in Workers, NEW n \in Attempts, DlqAdd(c, n) PROVE (\E w \in Workers : Owns(w, id)') \/ Abandoned(id)'
  BY <1>21, WebhookAssumption
  DEF IInv, TypeOK, Job, Row, Replay, Handler, Workers, Attempts, Stored, RequestInv,
      HandlerInv, HandlerOK, HandlerAt, Owns, Abandoned, Unsettled, DlqAdd
<1>22. ASSUME NEW c \in Workers, NEW n \in Attempts, DlqMark(c, n) PROVE (\E w \in Workers : Owns(w, id)') \/ Abandoned(id)'
  BY <1>22, WebhookAssumption
  DEF IInv, TypeOK, Job, Row, Replay, Handler, Workers, Attempts, Stored, RequestInv,
      HandlerInv, HandlerOK, HandlerAt, Owns, Abandoned, Unsettled, DlqMark, SetStatus
<1>23. ASSUME NEW c \in Workers, NEW n \in Attempts, DlqAudit(c, n) PROVE (\E w \in Workers : Owns(w, id)') \/ Abandoned(id)'
  BY <1>23, WebhookAssumption
  DEF IInv, TypeOK, Job, Row, Replay, Handler, Workers, Attempts, Stored, RequestInv,
      HandlerInv, HandlerOK, HandlerAt, Owns, Abandoned, Unsettled, DlqAudit
<1>24. ASSUME NEW rule \in AlertRules, CreateAlertRule(rule) PROVE (\E w \in Workers : Owns(w, id)') \/ Abandoned(id)'
  BY <1>24, WebhookAssumption
  DEF IInv, TypeOK, Job, Row, Replay, Handler, Workers, Attempts, Stored, RequestInv,
      HandlerInv, HandlerOK, HandlerAt, Owns, Abandoned, Unsettled, CreateAlertRule
<1>25. ASSUME NEW rule \in AlertRules, DeleteAlertRule(rule) PROVE (\E w \in Workers : Owns(w, id)') \/ Abandoned(id)'
  BY <1>25, WebhookAssumption
  DEF IInv, TypeOK, Job, Row, Replay, Handler, Workers, Attempts, Stored, RequestInv,
      HandlerInv, HandlerOK, HandlerAt, Owns, Abandoned, Unsettled, DeleteAlertRule
<1>26. ASSUME NEW c \in Workers, RequeueStalled(c) PROVE (\E w \in Workers : Owns(w, id)') \/ Abandoned(id)'
  BY <1>26, WebhookAssumption
  DEF IInv, TypeOK, Job, Row, Replay, Handler, Workers, Attempts, Stored, RequestInv,
      HandlerInv, HandlerOK, HandlerAt, Owns, Abandoned, Unsettled, RequeueStalled
<1>27. ASSUME NEW c \in Workers, NEW p \in Procs, FailStalled(c, p) PROVE (\E w \in Workers : Owns(w, id)') \/ Abandoned(id)'
  BY <1>27, WebhookAssumption
  DEF IInv, TypeOK, Job, Row, Replay, Handler, Workers, Attempts, Stored, RequestInv,
      HandlerInv, HandlerOK, HandlerAt, Owns, Abandoned, Unsettled, FailStalled, Fail,
      HandlerEntry
<1>28. ASSUME NEW p \in Procs, Crash(p) PROVE (\E w \in Workers : Owns(w, id)') \/ Abandoned(id)'
  BY <1>28, WebhookAssumption
  DEF IInv, TypeOK, Job, Row, Replay, Handler, Workers, Attempts, Stored, RequestInv,
      HandlerInv, HandlerOK, HandlerAt, Owns, Abandoned, Unsettled, Crash
<1>29. CASE UNCHANGED vars
  BY <1>29 DEF Unsettled, vars
<1> QED
  BY <1>1, <1>2, <1>3, <1>4, <1>5, <1>6, <1>7, <1>8, <1>9, <1>10, <1>11, <1>12, <1>13,
     <1>14, <1>15, <1>16, <1>17, <1>18, <1>19, <1>20, <1>21, <1>22, <1>23, <1>24, <1>25,
     <1>26, <1>27, <1>28, <1>29
  DEF Next, DeliveryStep, ReplayStep, JobStep, HandlerStep

-----------------------------------------------------------------------------
(* Rows, queue, handlers and dead letters keep the shape the code relies on. *)
THEOREM TypeCorrect == Spec => []TypeOK
<1>1. IInv => TypeOK
  BY DEF IInv
<1> QED
  BY <1>1, Invariance, PTL

(* A job that may still be retried is never dead-lettered. *)
THEOREM DeadLettersExhausted == Spec => []DlqOnlyExhausted
<1>1. IInv => DlqOnlyExhausted
  BY DEF IInv
<1> QED
  BY <1>1, Invariance, PTL

(* No row is FAILED without its dead letter. *)
THEOREM FailedHasDeadLetter == Spec => []FailedIsDeadLettered
<1>1. IInv => FailedIsDeadLettered
  BY DEF IInv
<1> QED
  BY <1>1, Invariance, PTL

(* Concurrent and repeated deliveries of an event queue at most one job. *)
THEOREM AtMostOneIngest == Spec => []IngestedOnce
<1>1. IInv => IngestedOnce
  <2>1. ASSUME IInv, NEW d \in Deliveries, job[d].state # "none" PROVE Stored(d)
    BY <2>1 DEF IInv, RequestInv, Workers
  <2> QED
    BY <2>1 DEF IInv, RowsUnique, IngestedOnce
<1> QED
  BY <1>1, Invariance, PTL

(* No event is forgotten but by a fault, if a 'failed' handler ends before the
   backoff of its job does. *)
THEOREM NothingForgotten == ASSUME PromptHandlers PROVE Spec => []UnsettledIsOwned
<1>1. Init => UnsettledIsOwned
  BY DEF Init, UnsettledIsOwned, Unsettled
<1>2. ASSUME IInv, UnsettledIsOwned, [Next]_vars PROVE UnsettledIsOwned'
  <2> SUFFICES ASSUME NEW id \in Deliveries, Unsettled(id)'
               PROVE  Owners(id)' # {} \/ Abandoned(id)'
    BY DEF UnsettledIsOwned
  <2>1. CASE Abandoned(id)
    BY <1>2, <2>1, AbandonedStays
  <2>2. CASE ~ Unsettled(id)
    BY <1>2, <2>2, ReopenedIsOwned DEF Owners
  <2>3. CASE Unsettled(id) /\ ~ Abandoned(id)
    <3>1. PICK w \in Workers : Owns(w, id)
      BY <1>2, <2>3 DEF UnsettledIsOwned, Owners
    <3> QED
      BY <1>2, <3>1, OwnerStep DEF Owners
  <2> QED
    BY <2>1, <2>2, <2>3
<1> QED
  BY <1>1, <1>2, Invariance, PTL DEF Spec
-----------------------------------------------------------------------------
(* Acknowledged deliveries and alerts. *)

\* The actions that write a row.
LEMMA RowWriters ==
  ASSUME [Next]_vars
  PROVE  \/ row' = row
         \/ \E d \in Deliveries : StoreEvent(d)
         \/ \E r \in Replays : ReplayMark(r)
         \/ \E c \in Workers : MarkProcessing(c) \/ MarkProcessed(c)
         \/ \E c \in Workers, n \in Attempts : RetryHandler(c, n) \/ DlqMark(c, n)
BY DEF Next, vars, DeliveryStep, ReplayStep, JobStep, HandlerStep, Deliver, CheckDuplicate,
       StoreFails, EnqueueDelivered, EnqueueDeliveredFails, ReplayFind, ReplayEnqueue,
       ReplayEnqueueFails, StartJob, FindEvent, ReadRules, FireAlert, FinishJob, AttemptFails,
       PromoteDelayed, RequeueStalled, FailStalled, DlqAdd, DlqAudit, CreateAlertRule,
       DeleteAlertRule, Crash

\* What a step may do to a row: store it, or change its status and, when the
\* event is processed, its time; it is never taken away.
RowStepOf(id) ==
  \/ row'[id] = row[id]
  \/ /\ delivery[id] = "store" /\ ~ Stored(id)
     /\ row'[id] = [status |-> "RECEIVED", processedAt |-> FALSE]
  \/ /\ Stored(id) /\ row'[id].status # "ABSENT"
     /\ row[id].processedAt => row'[id].processedAt

LEMMA RowSteps ==
  ASSUME IInv, [Next]_vars PROVE \A id \in Deliveries : RowStepOf(id)
<1> USE DEF IInv, TypeOK, Row, RowStepOf, Stored
<1>1. CASE \E d \in Deliveries : StoreEvent(d)
  BY <1>1 DEF RequestInv, StoreEvent
<1>2. CASE \E r \in Replays : ReplayMark(r)
  BY <1>2 DEF RequestInv, ReplayMark, SetStatus
<1>3. CASE \E c \in Workers : MarkProcessing(c)
  BY <1>3 DEF RequestInv, MarkProcessing, Active, SetStatus
<1>4. CASE \E c \in Workers : MarkProcessed(c)
  BY <1>4 DEF RequestInv, MarkProcessed, Active
<1>5. CASE \E c \in Workers, n \in Attempts : RetryHandler(c, n) \/ DlqMark(c, n)
  <2>1. PICK c \in Workers, n \in Attempts : RetryHandler(c, n) \/ DlqMark(c, n)
    BY <1>5
  <2>2. job[c].row \in Deliveries /\ Stored(job[c].row)
    BY <2>1 DEF RequestInv, HandlerInv, HandlerOK, HandlerAt, RetryHandler, DlqMark
  <2> QED
    BY <2>1, <2>2 DEF RetryHandler, DlqMark, SetStatus
<1>6. CASE row' = row
  BY <1>6
<1> QED
  BY <1>1, <1>2, <1>3, <1>4, <1>5, <1>6, RowWriters

\* A stored row stays stored.
LEMMA StoredStays ==
  ASSUME IInv, [Next]_vars, NEW id \in Deliveries, Stored(id) PROVE Stored(id)'
BY RowSteps DEF RowStepOf, Stored

(* An event whose delivery was answered 200 is in the database, for this very
   provider, whatever became of the delivery that stored it. *)
THEOREM AcknowledgedIsStored == Spec => []AckedIsStored
<1>1. Init => AckedIsStored
  BY DEF Init, AckedIsStored
<1>2. ASSUME IInv, AckedIsStored, [Next]_vars PROVE AckedIsStored'
  <2> SUFFICES ASSUME NEW d \in Deliveries, delivery'[d] = "acked"
               PROVE  \E id \in Deliveries : Stored(id)' /\ SameEvent(id, d)
    BY DEF AckedIsStored, SameEvent
  <2>1. \/ delivery[d] = "acked"
        \/ delivery[d] = "check" /\ IsEventDuplicate(d)
        \/ delivery[d] = "enqueue"
    <3>1. CASE \E e \in Deliveries :
                 Deliver(e) \/ CheckDuplicate(e) \/ StoreEvent(e) \/ StoreFails(e)
                 \/ EnqueueDelivered(e) \/ EnqueueDeliveredFails(e)
      BY <1>2, <3>1 DEF IInv, TypeOK, Deliver, CheckDuplicate, StoreEvent, StoreFails,
                        EnqueueDelivered, EnqueueDeliveredFails
    <3>2. CASE \E p \in Procs : Crash(p)
      BY <1>2, <3>2, CrashEffect
    <3>3. CASE delivery' = delivery
      BY <3>3
    <3> QED
      BY <1>2, <3>1, <3>2, <3>3
      DEF Next, vars, DeliveryStep, ReplayStep, JobStep, HandlerStep, ReplayFind, ReplayMark,
          ReplayEnqueue, ReplayEnqueueFails, StartJob, FindEvent, MarkProcessing, MarkProcessed,
          ReadRules, FireAlert, FinishJob, AttemptFails, PromoteDelayed, RequeueStalled,
          FailStalled, RetryHandler, DlqAdd, DlqMark, DlqAudit, CreateAlertRule, DeleteAlertRule
  <2>2. \E id \in Deliveries : Stored(id) /\ SameEvent(id, d)
    <3>1. CASE delivery[d] = "acked"
      BY <1>2, <3>1 DEF AckedIsStored
    <3>2. CASE IsEventDuplicate(d)
      BY <3>2 DEF IsEventDuplicate
    <3>3. CASE delivery[d] = "enqueue"
      BY <1>2, <3>3 DEF IInv, RequestInv, SameEvent
    <3> QED
      BY <2>1, <3>1, <3>2, <3>3
  <2> QED
    BY <1>2, <2>2, StoredStays
<1> QED
  BY <1>1, <1>2, Invariance, PTL DEF Spec
\* The actions that write a job.
LEMMA JobWriters ==
  ASSUME [Next]_vars
  PROVE  \/ job' = job
         \/ \E d \in Deliveries : EnqueueDelivered(d)
         \/ \E r \in Replays : ReplayEnqueue(r)
         \/ \E c \in Workers : JobStep(c) \/ AttemptFails(c)
         \/ \E p \in Procs : Crash(p)
BY DEF Next, vars, DeliveryStep, ReplayStep, HandlerStep, Deliver, CheckDuplicate, StoreEvent,
       StoreFails, EnqueueDeliveredFails, ReplayFind, ReplayMark, ReplayEnqueueFails,
       RetryHandler, DlqAdd, DlqMark, DlqAudit, CreateAlertRule, DeleteAlertRule

\* Behind AlertsFollowProcessing: only a stored row has a time; a job that has got
\* to its rules has written it, and holds rules of the event's own tenant only.
AtRules(c) == job[c].state = "active" /\ job[c].pc \in {"rules", "alert"}
OwnTenantsRule(c, rule) == rule.tenantId = Carries[job[c].row].tenantId

AlertInv ==
  /\ \A id \in Deliveries : row[id].processedAt => Stored(id)
  /\ \A c \in Workers : AtRules(c) => row[job[c].row].processedAt
  /\ \A c \in Workers : \A rule \in job[c].pending : OwnTenantsRule(c, rule)
  /\ AlertsFollowProcessing

\* A job gets to its rules by writing the time, gets rules to alert by reading
\* those of its tenant, and keeps its row as long as it has either.
AlertJobStepOf(c) ==
  /\ AtRules(c)' => job'[c].row = job[c].row /\ (AtRules(c) \/ MarkProcessed(c))
  /\ \A rule \in job'[c].pending :
       job'[c].row = job[c].row /\ (rule \in job[c].pending \/ OwnTenantsRule(c, rule))

LEMMA AlertJobSteps ==
  ASSUME IInv, [Next]_vars PROVE \A c \in Workers : AlertJobStepOf(c)
<1> USE DEF IInv, TypeOK, Job, AlertJobStepOf, AtRules
<1>1. CASE \E d \in Deliveries : EnqueueDelivered(d)
  BY <1>1 DEF Workers, EnqueueDelivered, EnqueueEvent
<1>2. CASE \E r \in Replays : ReplayEnqueue(r)
  BY <1>2 DEF Workers, ReplayEnqueue, EnqueueEvent
<1>3. ASSUME NEW c \in Workers, \E p \in Procs : StartJob(c, p) PROVE AlertJobStepOf(c)
  BY <1>3 DEF StartJob
<1>4. ASSUME NEW c \in Workers, FindEvent(c) \/ MarkProcessing(c) \/ MarkProcessed(c)
      PROVE  AlertJobStepOf(c)
  BY <1>4 DEF FindEvent, MarkProcessing, MarkProcessed, Active
<1>5. ASSUME NEW c \in Workers, ReadRules(c) PROVE AlertJobStepOf(c)
  BY <1>5 DEF ReadRules, Active, OwnTenantsRule
<1>6. ASSUME NEW c \in Workers, (\E rule \in AlertRules : FireAlert(c, rule)) \/ FinishJob(c)
      PROVE  AlertJobStepOf(c)
  BY <1>6 DEF FireAlert, FinishJob, Active
<1>7. ASSUME NEW c \in Workers, PromoteDelayed(c) \/ RequeueStalled(c) PROVE AlertJobStepOf(c)
  BY <1>7 DEF PromoteDelayed, RequeueStalled
<1>8. ASSUME NEW c \in Workers, AttemptFails(c) \/ \E p \in Procs : FailStalled(c, p)
      PROVE  AlertJobStepOf(c)
  <2>1. PICK p \in Procs \cup {NoProc}, s \in {"delayed", "failed"} : Fail(c, p, s)
    BY <1>8 DEF AttemptFails, FailStalled
  <2>2. job'[c].state = s /\ job'[c].pending = {}
    BY <2>1 DEF Fail
  <2> QED
    BY <2>2
<1>9. ASSUME NEW c \in Workers, JobStep(c) \/ AttemptFails(c) PROVE \A x \in Workers : AlertJobStepOf(x)
  <2>1. AlertJobStepOf(c)
    BY <1>3, <1>4, <1>5, <1>6, <1>7, <1>8, <1>9 DEF JobStep
  <2>2. \A x \in Workers \ {c} : job'[x] = job[x]
    BY <1>9 DEF JobStep, StartJob, FindEvent, MarkProcessing, MarkProcessed, ReadRules, FireAlert,
                FinishJob, PromoteDelayed, RequeueStalled, AttemptFails, FailStalled, Fail
  <2> QED
    BY <2>1, <2>2
<1>10. CASE \E p \in Procs : Crash(p)
  <2>1. PICK p \in Procs : Crash(p)
    BY <1>10
  <2> SUFFICES ASSUME NEW c \in Workers PROVE AlertJobStepOf(c)
    OBVIOUS
  <2>2. CASE c \in RunningOn(p)
    <3>1. job'[c].state = "stalled" /\ job'[c].pending = {}
      BY <2>1, <2>2 DEF Crash
    <3> QED
      BY <3>1
  <2>3. CASE c \notin RunningOn(p)
    <3>1. job'[c] = job[c]
      BY <2>1, <2>3 DEF Crash
    <3> QED
      BY <3>1
  <2> QED
    BY <2>2, <2>3
<1>11. CASE job' = job
  BY <1>11
<1> QED
  BY <1>1, <1>2, <1>9, <1>10, <1>11, JobWriters

(* An alert is about an event that has been processed and goes to a rule of the
   event's tenant, though rules are made and deleted while the job runs. *)
THEOREM AlertsAreOwed == Spec => []AlertsFollowProcessing
<1>1. Init => AlertInv
  BY DEF Init, AlertInv, AtRules, AlertsFollowProcessing
<1>2. ASSUME IInv, AlertInv, [Next]_vars PROVE AlertInv'
  <2> USE <1>2
  <2>1. ASSUME NEW id \in Deliveries, row'[id].processedAt PROVE Stored(id)'
    BY <2>1, RowSteps DEF AlertInv, RowStepOf, Stored
  <2>2. ASSUME NEW id \in Deliveries, row[id].processedAt PROVE row'[id].processedAt
    BY <2>2, RowSteps DEF AlertInv, RowStepOf
  <2>3. ASSUME NEW c \in Workers, AtRules(c)' PROVE row'[job'[c].row].processedAt
    <3>1. job'[c].row = job[c].row /\ (AtRules(c) \/ MarkProcessed(c))
      BY <2>3, AlertJobSteps DEF AlertJobStepOf
    <3>2. CASE MarkProcessed(c)
      BY <3>1, <3>2 DEF IInv, TypeOK, Row, RequestInv, MarkProcessed, Active
    <3>3. CASE AtRules(c)
      BY <2>2, <3>1, <3>3 DEF IInv, RequestInv, AlertInv, AtRules
    <3> QED
      BY <3>1, <3>2, <3>3
  <2>4. ASSUME NEW c \in Workers, NEW rule \in job'[c].pending PROVE OwnTenantsRule(c, rule)'
    BY <2>4, AlertJobSteps DEF AlertInv, AlertJobStepOf, OwnTenantsRule
  <2>5. ASSUME NEW f \in fired'
        PROVE  row'[f.row].processedAt /\ f.rule.tenantId = Carries[f.row].tenantId
    <3>1. CASE f \in fired
      BY <2>2, <3>1 DEF IInv, TypeOK, AlertInv, AlertsFollowProcessing
    <3>2. CASE \E c \in Workers, rule \in AlertRules :
                 FireAlert(c, rule) /\ f = [row |-> job[c].row, rule |-> rule]
      BY <2>2, <3>2 DEF IInv, RequestInv, AlertInv, AtRules, OwnTenantsRule, FireAlert, Active
    <3>3. fired' = fired \/ \E c \in Workers, rule \in AlertRules : FireAlert(c, rule)
      BY DEF Next, vars, DeliveryStep, ReplayStep, JobStep, HandlerStep, Deliver,
             CheckDuplicate, StoreEvent, StoreFails, EnqueueDelivered, EnqueueDeliveredFails,
             ReplayFind, ReplayMark, ReplayEnqueue, ReplayEnqueueFails, StartJob, FindEvent,
             MarkProcessing, MarkProcessed, ReadRules, FinishJob, AttemptFails, PromoteDelayed,
             RequeueStalled, FailStalled, RetryHandler, DlqAdd, DlqMark, DlqAudit,
             CreateAlertRule, DeleteAlertRule, Crash
    <3> QED
      BY <3>1, <3>2, <3>3 DEF FireAlert
  <2> QED
    BY <2>1, <2>3, <2>4, <2>5 DEF AlertInv, AlertsFollowProcessing
<1>3. AlertInv => AlertsFollowProcessing
  BY DEF AlertInv
<1> QED
  BY <1>1, <1>2, <1>3, Invariance, PTL DEF Spec
-----------------------------------------------------------------------------
(* The monitor implements the ledger. *)

Phase(id) == PhaseOf(row[id].status)

\* The three kinds of steps of the ledger, one item and one doer at a time.
LedgerKeeps ==
  \A id \in Deliveries :
    Phase(id)' = Phase(id) /\ \A w \in Workers : Owns(w, id)' <=> Owns(w, id)

OthersKept(id, w) ==
  \A x \in Deliveries :
    /\ x = id \/ Phase(x)' = Phase(x)
    /\ \A v \in Workers : (x = id /\ v = w) \/ (Owns(v, x)' <=> Owns(v, x))

LedgerMoves(id, w) ==
  /\ OthersKept(id, w)
  /\ \/ /\ Phase(id) = "absent" /\ Phase(id)' = "open"
        /\ (\A v \in Workers : ~ Owns(v, id)) /\ Owns(w, id)'
     \/ /\ Phase(id) # "absent" /\ Phase(id)' \in {Phase(id), "open"}
        /\ Owns(w, id)'
     \/ /\ Owns(w, id) /\ ~ Owns(w, id)'
        /\ Phase(id)' \in {"processed", "failed"}

LedgerDisturbed ==
  /\ MaxFaults > 0
  /\ \A id \in Deliveries :
       Phase(id)' # Phase(id) => Phase(id) # "absent" /\ Phase(id)' = "open"

\* Each of them is a step of the ledger.
LEMMA LedgerActs ==
  ASSUME \/ LedgerKeeps
         \/ \E id \in Deliveries, w \in Workers : LedgerMoves(id, w)
         \/ LedgerDisturbed
  PROVE  [Ledger!Next]_(Ledger!vars)
<1> DEFINE phase == [id \in Deliveries |-> PhaseOf(row[id].status)]
           duties == [id \in Deliveries |-> Owners(id)]
<1>1. CASE LedgerKeeps
  <2>1. \A id \in Deliveries : Owners(id)' = Owners(id)
    BY <1>1 DEF LedgerKeeps, Owners
  <2> QED
    BY <1>1, <2>1 DEF LedgerKeeps, Phase, Ledger!vars
<1>2. ASSUME NEW id \in Deliveries, NEW w \in Workers, LedgerMoves(id, w) PROVE Ledger!Next
  <2>1. /\ \A x \in Deliveries \ {id} : phase'[x] = phase[x] /\ duties'[x] = duties[x]
        /\ phase[id] = Phase(id) /\ phase'[id] = Phase(id)'
        /\ duties[id] = Owners(id) /\ duties'[id] = Owners(id)'
    BY <1>2 DEF LedgerMoves, OthersKept, Phase, Owners
  <2>2. \A v \in Workers \ {w} : Owns(v, id)' <=> Owns(v, id)
    BY <1>2 DEF LedgerMoves, OthersKept
  <2>3. CASE /\ Phase(id) = "absent" /\ Phase(id)' = "open"
             /\ (\A v \in Workers : ~ Owns(v, id)) /\ Owns(w, id)'
    <3>1. Owners(id)' = {w}
      BY <2>2, <2>3 DEF Owners
    <3>2. phase' = [phase EXCEPT ![id] = "open"] /\ duties' = [duties EXCEPT ![id] = {w}]
      BY <2>1, <2>3, <3>1
    <3>3. Ledger!Accept(id, w)
      BY <2>1, <2>3, <3>2 DEF Ledger!Accept
    <3> QED
      BY <3>3 DEF Ledger!Next
  <2>4. CASE /\ Phase(id) # "absent" /\ Phase(id)' \in {Phase(id), "open"}
             /\ Owns(w, id)'
    <3>1. Owners(id)' = Owners(id) \cup {w}
      BY <2>2, <2>4 DEF Owners
    <3>2. phase' \in {phase, [phase EXCEPT ![id] = "open"]}
          /\ duties' = [duties EXCEPT ![id] = @ \cup {w}]
      BY <2>1, <2>4, <3>1
    <3>3. Ledger!Work(id, w)
      BY <2>1, <2>4, <3>2 DEF Ledger!Work
    <3> QED
      BY <3>3 DEF Ledger!Next
  <2>5. CASE /\ Owns(w, id) /\ ~ Owns(w, id)'
             /\ Phase(id)' \in {"processed", "failed"}
    <3>1. Owners(id)' = Owners(id) \ {w} /\ w \in Owners(id)
      BY <2>2, <2>5 DEF Owners
    <3>2. /\ \E outcome \in {"processed", "failed"} : phase' = [phase EXCEPT ![id] = outcome]
          /\ duties' = [duties EXCEPT ![id] = @ \ {w}]
      BY <2>1, <2>5, <3>1
    <3>3. Ledger!Discharge(id, w)
      BY <2>1, <3>1, <3>2 DEF Ledger!Discharge
    <3> QED
      BY <3>3 DEF Ledger!Next
  <2> QED
    BY <1>2, <2>3, <2>4, <2>5 DEF LedgerMoves
<1>3. CASE LedgerDisturbed
  <2>1. phase' \in [Deliveries -> Ledger!Phase] /\ duties' \in [Deliveries -> SUBSET Workers]
    BY DEF PhaseOf, Ledger!Phase, Owners
  <2>2. \A id \in Deliveries : phase'[id] # phase[id] => phase[id] # "absent" /\ phase'[id] = "open"
    BY <1>3 DEF LedgerDisturbed, Phase
  <2>3. Ledger!Disturb
    BY <1>3, <2>1, <2>2 DEF LedgerDisturbed, Ledger!Disturb
  <2> QED
    BY <2>3 DEF Ledger!Next
<1> QED
  BY <1>1, <1>2, <1>3
\* Behind the refinement: BullMQ finds a job stalled, or gives it up with attempts
\* left, only where a process can die.
StallInv ==
  \A c \in Workers :
    job[c].state = "stalled" \/ (job[c].state = "failed" /\ job[c].attempts < MaxAttempts)
    => MaxFaults > 0

\* How each step of the monitor acts on the ledger.
LEMMA LedgerSteps ==
  ASSUME IInv, StallInv, PromptHandlers, [Next]_vars
  PROVE  \/ LedgerKeeps
         \/ \E id \in Deliveries, w \in Workers : LedgerMoves(id, w)
         \/ LedgerDisturbed
<1>0. /\ MaxAttempts \in Attempts /\ Deliveries \cap Replays = {}
      /\ faults < MaxFaults => MaxFaults > 0
  BY WebhookAssumption DEF IInv, TypeOK, Attempts
<1>1. ASSUME NEW d \in Deliveries, Deliver(d) PROVE LedgerKeeps
  BY <1>0, <1>1
  DEF IInv, TypeOK, Job, Row, Replay, Handler, Workers, Owns, Phase, PhaseOf, Stored,
      RequestInv, LedgerKeeps, Deliver
<1>2. ASSUME NEW d \in Deliveries, CheckDuplicate(d) PROVE LedgerKeeps
  BY <1>0, <1>2
  DEF IInv, TypeOK, Job, Row, Replay, Handler, Workers, Owns, Phase, PhaseOf, Stored,
      RequestInv, LedgerKeeps, CheckDuplicate
<1>3. ASSUME NEW d \in Deliveries, StoreEvent(d) PROVE LedgerMoves(d, d)
  <2>1. /\ row' = [row EXCEPT ![d] = [status |-> "RECEIVED", processedAt |-> FALSE]]
        /\ delivery' = [delivery EXCEPT ![d] = "enqueue"]
        /\ job' = job /\ replay' = replay /\ handler' = handler
        /\ delivery[d] = "store" /\ ~ Stored(d)
    BY <1>3 DEF IInv, RequestInv, StoreEvent
  <2>2. \A v \in Workers : ~ Owns(v, d)
    BY <1>0, <2>1 DEF IInv, RequestInv, Owns, Workers
  <2>3. \A x \in Deliveries \ {d} : Phase(x)' = Phase(x)
    BY <2>1 DEF IInv, TypeOK, Phase
  <2>4. Phase(d) = "absent" /\ Phase(d)' = "open"
    BY <2>1 DEF IInv, TypeOK, Phase, PhaseOf, Stored
  <2>5. \A x \in Deliveries : delivery'[x] = IF x = d THEN "enqueue" ELSE delivery[x]
    BY <2>1 DEF IInv, TypeOK
  <2>6. \A x \in Deliveries, v \in Workers : (x = d /\ v = d) \/ Owns(v, x)' = Owns(v, x)
    BY <2>1, <2>5 DEF Owns
  <2>7. Owns(d, d)'
    BY <2>5 DEF Owns
  <2> QED
    BY <2>2, <2>3, <2>4, <2>6, <2>7 DEF LedgerMoves, OthersKept
<1>4. ASSUME NEW d \in Deliveries, StoreFails(d) PROVE LedgerKeeps
  BY <1>0, <1>4
  DEF IInv, TypeOK, Job, Row, Replay, Handler, Workers, Owns, Phase, PhaseOf, Stored,
      RequestInv, LedgerKeeps, StoreFails
<1>5. ASSUME NEW d \in Deliveries, EnqueueDelivered(d) PROVE LedgerKeeps
  BY <1>0, <1>5
  DEF IInv, TypeOK, Job, Row, Replay, Handler, Workers, Owns, Phase, PhaseOf, Stored,
      RequestInv, LedgerKeeps, EnqueueDelivered, EnqueueEvent
<1>6. ASSUME NEW d \in Deliveries, EnqueueDeliveredFails(d) PROVE LedgerDisturbed
  BY <1>0, <1>6 DEF LedgerDisturbed, EnqueueDeliveredFails, Phase
<1>7. ASSUME NEW r \in Replays, NEW id \in Deliveries, ReplayFind(r, id) PROVE LedgerKeeps
  BY <1>0, <1>7
  DEF IInv, TypeOK, Job, Row, Replay, Handler, Workers, Owns, Phase, PhaseOf, Stored,
      RequestInv, LedgerKeeps, ReplayFind
<1>8. ASSUME NEW r \in Replays, ReplayMark(r)
      PROVE  \A id \in Deliveries : id = replay[r].row => LedgerMoves(id, r)
  BY <1>0, <1>8
  DEF IInv, TypeOK, Job, Row, Replay, Handler, Workers, Owns, Phase, PhaseOf, Stored,
      RequestInv, LedgerMoves, OthersKept, ReplayMark, SetStatus
<1>9. ASSUME NEW r \in Replays, ReplayEnqueue(r) PROVE LedgerKeeps
  <2>1. /\ EnqueueEvent(r, replay[r].row) /\ r \in Workers /\ r \notin Deliveries
        /\ delivery' = delivery /\ handler' = handler /\ row' = row
        /\ replay' = [replay EXCEPT ![r].pc = "done"] /\ replay[r].pc = "enqueue"
    BY <1>0, <1>9 DEF ReplayEnqueue, Workers
  <2>2. job[r].state = "none"
    BY <2>1 DEF IInv, RequestInv
  <2>3. /\ \A x \in Workers \ {r} : job'[x] = job[x]
        /\ job'[r].state = "waiting" /\ job'[r].row = replay[r].row
    BY <2>1, EnqueueEffect DEF IInv
  <2>4. /\ \A x \in Replays \ {r} : replay'[x] = replay[x]
        /\ replay'[r].pc = "done"
    BY <2>1 DEF IInv, TypeOK, Replay
  <2> QED
    BY <2>1, <2>2, <2>3, <2>4 DEF LedgerKeeps, Phase, Owns
<1>10. ASSUME NEW r \in Replays, ReplayEnqueueFails(r) PROVE LedgerDisturbed
  BY <1>0, <1>10 DEF LedgerDisturbed, ReplayEnqueueFails, Phase
<1>11. ASSUME NEW c \in Workers, NEW p \in Procs, StartJob(c, p) PROVE LedgerKeeps
  BY <1>0, <1>11
  DEF IInv, TypeOK, Job, Row, Replay, Handler, Workers, Owns, Phase, PhaseOf, Stored,
      RequestInv, HandlerInv, HandlerOK, HandlerAt, LedgerKeeps, StartJob
<1>12. ASSUME NEW c \in Workers, FindEvent(c) PROVE LedgerKeeps
  BY <1>0, <1>12
  DEF IInv, TypeOK, Job, Row, Replay, Handler, Workers, Owns, Phase, PhaseOf, Stored,
      RequestInv, HandlerInv, HandlerOK, HandlerAt, LedgerKeeps, FindEvent, Active
<1>13. ASSUME NEW c \in Workers, MarkProcessing(c)
      PROVE  \A id \in Deliveries : id = job[c].row => LedgerMoves(id, c)
  BY <1>0, <1>13
  DEF IInv, TypeOK, Job, Row, Replay, Handler, Workers, Owns, Phase, PhaseOf, Stored,
      RequestInv, HandlerInv, HandlerOK, HandlerAt, LedgerMoves, OthersKept, MarkProcessing,
      Active, SetStatus
<1>14. ASSUME NEW c \in Workers, MarkProcessed(c)
      PROVE  \A id \in Deliveries : id = job[c].row => LedgerMoves(id, c)
  <2> SUFFICES ASSUME NEW id \in Deliveries, id = job[c].row PROVE LedgerMoves(id, c)
    OBVIOUS
  <2>1. /\ row' = [row EXCEPT ![id] = [status |-> "PROCESSED", processedAt |-> TRUE]]
        /\ job' = [job EXCEPT ![c].pc = "rules"]
        /\ delivery' = delivery /\ replay' = replay /\ handler' = handler
        /\ job[c].state = "active" /\ job[c].pc = "complete"
    BY <1>14 DEF MarkProcessed, Active
  <2>2. /\ \A x \in Deliveries \ {id} : Phase(x)' = Phase(x)
        /\ Phase(id)' = "processed"
    BY <2>1 DEF IInv, TypeOK, Row, Phase, PhaseOf
  <2>3. /\ \A v \in Workers \ {c} : job'[v] = job[v]
        /\ job'[c].state = "active" /\ job'[c].pc = "rules"
    BY <2>1 DEF IInv, TypeOK, Job
  <2>4. \A x \in Deliveries, v \in Workers \ {c} : Owns(v, x)' = Owns(v, x)
    BY <2>1, <2>3 DEF Owns
  <2>5. Owns(c, id) /\ \A x \in Deliveries : ~ Owns(c, x)' /\ (x # id => ~ Owns(c, x))
    BY <2>1, <2>3 DEF IInv, RequestInv, Owns
  <2> QED
    BY <2>2, <2>4, <2>5 DEF LedgerMoves, OthersKept
<1>15. ASSUME NEW c \in Workers, ReadRules(c) PROVE LedgerKeeps
  BY <1>0, <1>15
  DEF IInv, TypeOK, Job, Row, Replay, Handler, Workers, Owns, Phase, PhaseOf, Stored,
      RequestInv, HandlerInv, HandlerOK, HandlerAt, LedgerKeeps, ReadRules, Active
<1>16. ASSUME NEW c \in Workers, NEW rule \in AlertRules, FireAlert(c, rule) PROVE LedgerKeeps
  BY <1>0, <1>16
  DEF IInv, TypeOK, Job, Row, Replay, Handler, Workers, Owns, Phase, PhaseOf, Stored,
      RequestInv, HandlerInv, HandlerOK, HandlerAt, LedgerKeeps, FireAlert, Active
<1>17. ASSUME NEW c \in Workers, FinishJob(c) PROVE LedgerKeeps
  BY <1>0, <1>17
  DEF IInv, TypeOK, Job, Row, Replay, Handler, Workers, Owns, Phase, PhaseOf, Stored,
      RequestInv, HandlerInv, HandlerOK, HandlerAt, LedgerKeeps, FinishJob, Active
<1>18. ASSUME NEW c \in Workers, PromoteDelayed(c) PROVE LedgerKeeps
  BY <1>0, <1>18
  DEF IInv, TypeOK, Job, Row, Replay, Handler, Workers, Owns, Phase, PhaseOf, Stored,
      RequestInv, HandlerInv, HandlerOK, HandlerAt, LedgerKeeps, PromoteDelayed
<1>19. ASSUME NEW c \in Workers, AttemptFails(c)
      PROVE  \A id \in Deliveries : id = job[c].row => LedgerMoves(id, c)
  <2> SUFFICES ASSUME NEW id \in Deliveries, id = job[c].row PROVE LedgerMoves(id, c)
    OBVIOUS
  <2> DEFINE s == IF job[c].attempts + 1 < MaxAttempts THEN "delayed" ELSE "failed"
             p == job[c].proc
  <2>1. /\ Fail(c, p, s) /\ job[c].state = "active"
        /\ delivery' = delivery /\ replay' = replay /\ row' = row
    BY <1>19 DEF AttemptFails
  <2>2. /\ \A x \in Workers \ {c} : job'[x] = job[x] /\ handler'[x] = handler[x]
        /\ job'[c].state = s /\ job'[c].row = job[c].row
    BY <2>1, FailEffect DEF IInv
  <2>3. \A x \in Deliveries, v \in Workers \ {c} : Owns(v, x)' = Owns(v, x)
    BY <2>1, <2>2 DEF Owns
  <2>4. \A x \in Deliveries \ {id} : ~ Owns(c, x) /\ ~ Owns(c, x)'
    BY <2>1, <2>2 DEF IInv, RequestInv, Owns
  <2>5. Owns(c, id)'
    <3>1. CASE job[c].attempts + 1 < MaxAttempts
      BY <2>2, <3>1 DEF Owns
    <3>2. CASE ~ (job[c].attempts + 1 < MaxAttempts)
      <4>1. job[c] \in Job /\ job[c].attempts < MaxAttempts
        BY <2>1 DEF IInv, TypeOK, HandlerInv, HandlerOK
      <4>2. job[c].attempts + 1 = MaxAttempts
        BY <4>1, <3>2, WebhookAssumption DEF Job
      <4>3. handler'[c][MaxAttempts] = [pc |-> HandlerEntry(MaxAttempts), proc |-> p]
        BY <1>0, <4>2, <2>1, FailEffect DEF IInv
      <4>4. HandlerEntry(MaxAttempts) = "dlq"
        BY WebhookAssumption DEF HandlerEntry
      <4> QED
        BY <2>2, <3>2, <4>3, <4>4 DEF Owns
    <3> QED
      BY <3>1, <3>2
  <2>6. \A x \in Deliveries : Phase(x)' = Phase(x)
    BY <2>1 DEF Phase
  <2>7. Phase(id) # "absent"
    BY <2>1 DEF IInv, TypeOK, Row, Status, RequestInv, Phase, PhaseOf, Stored
  <2>8. id = job[c].row
    BY <2>1 DEF IInv, RequestInv
  <2> HIDE DEF s
  <2> QED
    BY <2>3, <2>4, <2>5, <2>6, <2>7, <2>8 DEF LedgerMoves, OthersKept
<1>20. ASSUME NEW c \in Workers, NEW n \in Attempts, RetryHandler(c, n)
      PROVE  LedgerDisturbed \/ \A id \in Deliveries : id = job[c].row => LedgerMoves(id, c)
  <2> SUFFICES ASSUME NEW id \in Deliveries, id = job[c].row
               PROVE  LedgerDisturbed \/ LedgerMoves(id, c)
    OBVIOUS
  <2>1. /\ id = job[c].row /\ Stored(id)
        /\ job' = job /\ delivery' = delivery /\ replay' = replay
        /\ handler' = [handler EXCEPT ![c][n] = [pc |-> "done", proc |-> NoProc]]
        /\ \/ job[c].state = "delayed"
           \/ job[c].state = "failed" /\ job[c].attempts < MaxAttempts
        /\ n < MaxAttempts
    BY <1>20 DEF IInv, RequestInv, HandlerInv, HandlerOK, HandlerAt, RetryHandler
  <2>2. /\ \A x \in Deliveries \ {id} : Phase(x)' = Phase(x)
        /\ Phase(id) # "absent"
        /\ Phase(id)' \in {Phase(id), "open"}
    BY <1>20, <2>1
    DEF IInv, TypeOK, Row, Status, Phase, PhaseOf, Stored, RetryHandler, SetStatus
  <2>3. CASE job[c].state = "failed"
    <3>1. MaxFaults > 0
      BY <2>1, <2>3 DEF StallInv
    <3> QED
      BY <2>2, <3>1 DEF LedgerDisturbed
  <2>4. CASE job[c].state = "delayed"
    <3>1. \A v \in Workers : handler'[v][MaxAttempts] = handler[v][MaxAttempts]
      BY <1>0, <2>1, WebhookAssumption DEF IInv, TypeOK, Attempts
    <3>2. \A x \in Deliveries, v \in Workers : Owns(v, x)' = Owns(v, x)
      BY <2>1, <3>1 DEF Owns
    <3>3. Owns(c, id)
      BY <2>4 DEF Owns
    <3> QED
      BY <2>1, <2>2, <3>2, <3>3 DEF LedgerMoves, OthersKept
  <2> QED
    BY <2>1, <2>3, <2>4
<1>21. ASSUME NEW c \in Workers, NEW n \in Attempts, DlqAdd(c, n) PROVE LedgerKeeps
  BY <1>0, <1>21
  DEF IInv, TypeOK, Job, Row, Replay, Handler, Workers, Owns, Phase, PhaseOf, Stored,
      RequestInv, HandlerInv, HandlerOK, HandlerAt, LedgerKeeps, DlqAdd
<1>22. ASSUME NEW c \in Workers, NEW n \in Attempts, DlqMark(c, n)
      PROVE  \A id \in Deliveries : id = job[c].row => LedgerMoves(id, c)
  <2> SUFFICES ASSUME NEW id \in Deliveries, id = job[c].row PROVE LedgerMoves(id, c)
    OBVIOUS
  <2>1. /\ n = MaxAttempts
        /\ job' = job /\ delivery' = delivery /\ replay' = replay
        /\ handler' = [handler EXCEPT ![c][n].pc = "audit"] /\ handler[c][n].pc = "mark"
        /\ job[c].state = "failed"
    BY <1>22 DEF IInv, RequestInv, HandlerInv, HandlerOK, HandlerAt, DlqMark
  <2>2. /\ \A x \in Deliveries \ {id} : Phase(x)' = Phase(x)
        /\ Phase(id)' = "failed"
    BY <1>22, <2>1 DEF IInv, TypeOK, Row, Phase, PhaseOf, DlqMark, SetStatus
  <2>3. /\ \A v \in Workers \ {c} : handler'[v] = handler[v]
        /\ handler'[c][MaxAttempts].pc = "audit"
    BY <1>0, <2>1 DEF IInv, TypeOK, Handler
  <2>4. \A x \in Deliveries, v \in Workers \ {c} : Owns(v, x)' = Owns(v, x)
    BY <2>1, <2>3 DEF Owns
  <2>5. Owns(c, id) /\ \A x \in Deliveries : ~ Owns(c, x)' /\ (x # id => ~ Owns(c, x))
    BY <2>1, <2>3 DEF IInv, RequestInv, Owns
  <2> QED
    BY <2>2, <2>4, <2>5 DEF LedgerMoves, OthersKept
<1>23. ASSUME NEW c \in Workers, NEW n \in Attempts, DlqAudit(c, n) PROVE LedgerKeeps
  BY <1>0, <1>23
  DEF IInv, TypeOK, Job, Row, Replay, Handler, Workers, Owns, Phase, PhaseOf, Stored,
      RequestInv, HandlerInv, HandlerOK, HandlerAt, LedgerKeeps, DlqAudit
<1>24. ASSUME NEW rule \in AlertRules, CreateAlertRule(rule) PROVE LedgerKeeps
  BY <1>0, <1>24
  DEF IInv, TypeOK, Job, Row, Replay, Handler, Workers, Owns, Phase, PhaseOf, Stored,
      RequestInv, HandlerInv, HandlerOK, HandlerAt, LedgerKeeps, CreateAlertRule
<1>25. ASSUME NEW rule \in AlertRules, DeleteAlertRule(rule) PROVE LedgerKeeps
  BY <1>0, <1>25
  DEF IInv, TypeOK, Job, Row, Replay, Handler, Workers, Owns, Phase, PhaseOf, Stored,
      RequestInv, HandlerInv, HandlerOK, HandlerAt, LedgerKeeps, DeleteAlertRule
<1>26. ASSUME NEW c \in Workers, RequeueStalled(c) PROVE LedgerKeeps
  BY <1>0, <1>26
  DEF IInv, TypeOK, Job, Row, Replay, Handler, Workers, Owns, Phase, PhaseOf, Stored,
      RequestInv, HandlerInv, HandlerOK, HandlerAt, LedgerKeeps, RequeueStalled
<1>27. ASSUME NEW c \in Workers, NEW p \in Procs, FailStalled(c, p) PROVE LedgerDisturbed
  <2>1. job[c].state = "stalled" /\ row' = row
    BY <1>27 DEF FailStalled
  <2> QED
    BY <2>1 DEF StallInv, LedgerDisturbed, Phase
<1>28. ASSUME NEW p \in Procs, Crash(p) PROVE LedgerDisturbed
  BY <1>0, <1>28 DEF LedgerDisturbed, Crash, Phase
<1>29. CASE UNCHANGED vars
  BY <1>29 DEF vars, LedgerKeeps, Phase, Owns
<1>30. \A c \in Workers : job[c].state # "none" => job[c].row \in Deliveries
  BY DEF IInv, RequestInv
<1>31. \A r \in Replays : replay[r].pc # "idle" => replay[r].row \in Deliveries
  BY DEF IInv, RequestInv
<1>32. \A c \in Workers, n \in Attempts : handler[c][n].pc # "none" => job[c].state # "none"
  BY DEF IInv, HandlerInv, HandlerOK, HandlerAt
<1>33. \A r \in Replays : ReplayMark(r) => replay[r].row \in Deliveries
  BY <1>31 DEF ReplayMark
<1>34. \A c \in Workers : MarkProcessing(c) \/ MarkProcessed(c) \/ AttemptFails(c)
        => job[c].row \in Deliveries
  BY <1>30 DEF MarkProcessing, MarkProcessed, AttemptFails, Active
<1>35. \A c \in Workers, n \in Attempts : RetryHandler(c, n) \/ DlqMark(c, n)
        => job[c].row \in Deliveries
  BY <1>30, <1>32 DEF RetryHandler, DlqMark
<1>36. \A d \in Deliveries : d \in Workers /\ \A r \in Replays : r \in Workers
  BY DEF Workers
<1> QED
  BY <1>1, <1>2, <1>3, <1>4, <1>5, <1>6, <1>7, <1>8, <1>9, <1>10, <1>11, <1>12, <1>13, <1>14,
     <1>15, <1>16, <1>17, <1>18, <1>19, <1>20, <1>21, <1>22, <1>23, <1>24, <1>25, <1>26, <1>27,
     <1>28, <1>29, <1>33, <1>34, <1>35, <1>36
  DEF Next, DeliveryStep, ReplayStep, JobStep, HandlerStep
LEMMA StallInvStep == ASSUME IInv, StallInv, [Next]_vars PROVE StallInv'
<1> DEFINE Stall(c) == job[c].state = "stalled" \/ (job[c].state = "failed" /\ job[c].attempts < MaxAttempts)
<1> USE DEF IInv, TypeOK, Job
<1> SUFFICES ASSUME NEW c \in Workers, Stall(c)' PROVE MaxFaults > 0
  BY DEF StallInv
<1>1. CASE Stall(c)
  BY <1>1 DEF StallInv
<1>2. CASE \E p \in Procs : Crash(p)
  <2>1. faults < MaxFaults /\ faults \in 0..MaxFaults
    BY <1>2 DEF Crash
  <2> QED
    BY <2>1, WebhookAssumption
<1>3. CASE \E p \in Procs : FailStalled(c, p)
  BY <1>3 DEF StallInv, FailStalled
<1>4. CASE AttemptFails(c)
  <2> DEFINE s == IF job[c].attempts + 1 < MaxAttempts THEN "delayed" ELSE "failed"
  <2>1. Fail(c, job[c].proc, s)
    BY <1>4 DEF AttemptFails
  <2>2. job'[c].state = s /\ job'[c].attempts = job[c].attempts + 1
    BY <2>1, FailEffect
  <2> QED
    BY <2>2
<1>5. CASE job'[c].state \notin {"stalled", "failed"}
  BY <1>5
<1>6. CASE job'[c] = job[c]
  BY <1>1, <1>6
<1>7. \/ \E p \in Procs : Crash(p) \/ FailStalled(c, p)
      \/ AttemptFails(c) \/ job'[c].state \notin {"stalled", "failed"} \/ job'[c] = job[c]
      \/ Stall(c)
  <2>1. ASSUME NEW x \in Workers, x # c, JobStep(x) \/ AttemptFails(x) PROVE job'[c] = job[c]
    BY <2>1 DEF JobStep, StartJob, FindEvent, MarkProcessing, MarkProcessed, ReadRules, FireAlert,
                FinishJob, PromoteDelayed, RequeueStalled, AttemptFails, FailStalled, Fail
  <2>2. ASSUME NEW d \in Deliveries, EnqueueDelivered(d)
        PROVE  job'[c] = job[c] \/ job'[c].state = "waiting"
    BY <2>2 DEF EnqueueDelivered, EnqueueEvent, Workers
  <2>3. ASSUME NEW r \in Replays, ReplayEnqueue(r)
        PROVE  job'[c] = job[c] \/ job'[c].state = "waiting"
    BY <2>3 DEF ReplayEnqueue, EnqueueEvent, Workers
  <2>4. ASSUME JobStep(c), ~ \E p \in Procs : FailStalled(c, p)
        PROVE  job'[c].state \notin {"stalled", "failed"}
    BY <2>4 DEF JobStep, StartJob, FindEvent, MarkProcessing, MarkProcessed, ReadRules, FireAlert,
                FinishJob, PromoteDelayed, RequeueStalled, Active
  <2> QED
    BY <2>1, <2>2, <2>3, <2>4, JobWriters
<1> QED
  BY <1>1, <1>2, <1>3, <1>4, <1>5, <1>6, <1>7

LEMMA StallInvariance == Spec => []StallInv
<1>1. Init => StallInv
  BY DEF Init, StallInv
<1> QED
  BY <1>1, StallInvStep, Invariance, PTL DEF Spec

(* The monitor implements the ledger, if a 'failed' handler ends before the backoff
   of its job does: every step takes, keeps or discharges a duty for the row it
   writes, or is one of the faults the ledger allows for where there are any. *)
THEOREM MonitorImplementsLedger == ASSUME PromptHandlers PROVE Spec => ImplementsLedger
<1>1. Init => Ledger!Init
  BY DEF Init, Ledger!Init, PhaseOf, Owners, Owns, Workers
<1>2. IInv /\ StallInv /\ [Next]_vars => [Ledger!Next]_(Ledger!vars)
  BY LedgerSteps, LedgerActs
<1> QED
  BY <1>1, <1>2, Invariance, StallInvariance, PTL DEF Spec, ImplementsLedger, Ledger!Spec

LEMMA SetStatusEffect ==
  ASSUME TypeOK, NEW id, NEW s, SetStatus(id, s)
  PROVE  \A x \in Deliveries : row'[x].status = IF x = id THEN s ELSE row[x].status
BY DEF TypeOK, Row, SetStatus

(* Whatever fails and however late a handler is: PROCESSING is written for a job
   that is alive, that was given up as stalled, or, if handlers may be late, that
   has outrun the handler of an earlier attempt (the 'failed' handler of
   onModuleInit, processEvent). *)
THEOREM ProcessingIsLive == Spec => ProcessingMeansLiveJob
<1> DEFINE Step == \A id \in Deliveries :
             row[id].status # "PROCESSING" /\ row'[id].status = "PROCESSING" =>
               \E c \in Workers :
                 /\ job[c].row = id
                 /\ Live(c) \/ StalledOut(c) \/ \E n \in Attempts : Outran(c, n)
<1>1. ASSUME IInv, Next PROVE Step
  <2> SUFFICES ASSUME NEW id \in Deliveries,
                      row[id].status # "PROCESSING", row'[id].status = "PROCESSING"
               PROVE  \E c \in Workers :
                        /\ job[c].row = id
                        /\ Live(c) \/ StalledOut(c) \/ \E n \in Attempts : Outran(c, n)
    OBVIOUS
  <2> USE <1>1 DEF IInv, TypeOK, Row
  <2>1. CASE \E c \in Workers : MarkProcessing(c)
    BY <2>1 DEF RequestInv, MarkProcessing, Active, SetStatus, Live
  <2>2. CASE \E c \in Workers, n \in Attempts : RetryHandler(c, n)
    <3>1. PICK c \in Workers, n \in Attempts : RetryHandler(c, n)
      BY <2>2
    <3>2. job[c].row = id
      BY <3>1 DEF RetryHandler, SetStatus
    <3>3. handler[c][n].pc = "retry" /\ n < MaxAttempts /\ job[c].state # "none"
      BY <3>1 DEF HandlerInv, HandlerOK, HandlerAt, RetryHandler
    <3>4. PromptHandlers => Live(c) \/ StalledOut(c)
      BY <3>3 DEF HandlerInv, HandlerOK, HandlerAt, Live, StalledOut
    <3>5. job[c].attempts \in 0..MaxAttempts /\ MaxAttempts \in Nat /\ n \in Nat
      BY WebhookAssumption DEF Job, Attempts
    <3>6. ~ PromptHandlers => Live(c) \/ StalledOut(c) \/ Outran(c, n)
      BY <3>3, <3>5 DEF Live, StalledOut, Outran
    <3> QED
      BY <3>2, <3>4, <3>6
  <2>3. ~ \E d \in Deliveries : StoreEvent(d)
    BY DEF StoreEvent
  <2>4. ~ \E r \in Replays : ReplayMark(r)
    BY SetStatusEffect DEF ReplayMark
  <2>5. ~ \E c \in Workers : MarkProcessed(c)
    BY DEF MarkProcessed
  <2>6. ~ \E c \in Workers, n \in Attempts : DlqMark(c, n)
    BY SetStatusEffect DEF DlqMark
  <2> QED
    BY <2>1, <2>2, <2>3, <2>4, <2>5, <2>6, RowWriters
<1>2. IInv /\ [Next]_vars => [Step]_vars
  BY <1>1
<1> QED
  BY <1>2, Invariance, PTL DEF Spec, ProcessingMeansLiveJob
=============================================================================
