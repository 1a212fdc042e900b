------------------------------- MODULE Dunning -------------------------------
(***************************************************************************)
(* Failed-payment recovery of Marginly: payment_failed and                 *)
(* payment_succeeded events update FailedPayment rows, a failure queues    *)
(* one delayed job per step of the tenant's default RecoverySequence, the  *)
(* workers turn jobs into e-mails and text messages, and a scheduler in    *)
(* every process fires the payments whose nextRetryAt has passed.          *)
(*                                                                         *)
(* Every step between two awaits of the code is one action; a lookup of    *)
(* something that never changes (the tenant of a payment) is merged with   *)
(* the next one.  The unit of time is arbitrary: two clock readings in one *)
(* unit stand for two readings in the same millisecond.                    *)
(***************************************************************************)
EXTENDS Naturals, FiniteSets, Sequences

CONSTANTS
  Invoices,                 \* Stripe invoices
  SeqIds,                   \* ids of RecoverySequence rows, made or to be made
  TenantOf,                 \* the tenant of every invoice and sequence id
  Failures, FailedInvoice,  \* payment_failed events and their invoices
  Successes, PaidInvoice,   \* payment_succeeded events and their invoices
  Edits, Dto,               \* create and update requests for sequences
  StepLists,                \* the step lists a sequence may have
  InitialSequences,         \* the rows there are at the start
  Ticks, TickProc,          \* runs of fireOverdueRetries that may overlap
  Procs, Api,               \* processes with a worker; the one serving HTTP
  Concurrency, MaxStalls,   \* of a worker; BullMQ's maxStalledCount
  Horizon,                  \* bound on the clock: later times are not told apart
  MaxFaults,                \* bound on crashes and failing queue calls
  NoProc, NoInvoice

StepIndex == UNION {DOMAIN steps : steps \in StepLists}
Channels == {"email", "EMAIL", "sms"}
Step == [delay : Nat, channel : Channels, custom : BOOLEAN]
SequenceRow == [exists : BOOLEAN, isDefault : BOOLEAN, steps : StepLists \cup {<<>>}]

\* The body of a request; isDefault is "keep" and keepSteps TRUE when an update
\* leaves them out.
EditDto == [op : {"create", "update"}, id : SeqIds, isDefault : {"yes", "no", "keep"},
            keepSteps : BOOLEAN, steps : StepLists \cup {<<>>}]

ASSUME DunningAssumption ==
  /\ StepLists \subseteq Seq(Step)
  /\ FailedInvoice \in [Failures -> Invoices]
  /\ PaidInvoice \in [Successes -> Invoices]
  /\ Dto \in [Edits -> EditDto]
  /\ InitialSequences \in [SeqIds -> SequenceRow]
  /\ TickProc \in [Ticks -> Procs]
  /\ Api \in Procs /\ NoProc \notin Procs /\ NoInvoice \notin Invoices
  /\ Concurrency \in Nat \ {0} /\ MaxStalls \in Nat
  /\ IsFiniteSet(Ticks)
  /\ Horizon \in Nat /\ MaxFaults \in Nat

VARIABLES
  now,      \* the clock
  payment,  \* FailedPayment rows
  sequence, \* RecoverySequence rows
  failure,  \* the handlers of payment_failed events
  success,  \* the handlers of payment_succeeded events
  edit,     \* requests that create or update a sequence
  job,      \* jobs of the queue 'dunning-retries'
  sent,     \* messages SES or SNS took for each job
  attempt,  \* RecoveryAttempt rows each job has created
  tick,     \* runs of the scheduler
  faults    \* faults so far, at most MaxFaults

vars == <<now, payment, sequence, failure, success, edit, job, sent, attempt, tick, faults>>

Time == 0..Horizon
Never == Horizon + 1
Later(t, d) == IF t + d <= Horizon THEN t + d ELSE Horizon

\* A step job is named by its payment and step, a job of the scheduler by its
\* payment and the time its run read from the clock.
StepJob(i, k) == [kind |-> "step", invoice |-> i, n |-> k]
SchedulerJob(i, t) == [kind |-> "scheduler", invoice |-> i, n |-> t]
JobIds == [kind : {"step"}, invoice : Invoices, n : StepIndex]
          \cup [kind : {"scheduler"}, invoice : Invoices, n : Time]

Notices == {"payment failed", "still outstanding", "final notice"}

\* The id of a row is no notice.
ASSUME TextAssumption == SeqIds \cap (Notices \cup {"none"}) = {}

Payment == [status : {"ABSENT", "RECOVERING", "RECOVERED"}, retryCount : Nat,
            nextRetryAt : Time \cup {Never}]
Failure == [pc : {"idle", "plan", "add", "stamp", "done", "lost"},
            steps : StepLists \cup {<<>>}, k : Nat \ {0}]
Job == [state : {"none", "delayed", "waiting", "active", "stalled", "completed", "failed"},
        due : Time, channel : Channels \cup {"none"},
        pc : {"idle", "render", "send", "record", "finish"},
        proc : Procs \cup {NoProc}, stalls : 0..MaxStalls,
        text : SeqIds \cup Notices \cup {"none"}]
Tick == [pc : {"idle", "query", "add", "clear"}, now : Time, todo : SUBSET Invoices,
         at : Invoices \cup {NoInvoice}]

TypeOK ==
  /\ now \in Time
  /\ payment \in [Invoices -> Payment]
  /\ sequence \in [SeqIds -> SequenceRow]
  /\ failure \in [Failures -> Failure]
  /\ success \in [Successes -> {"idle", "update", "done", "lost"}]
  /\ edit \in [Edits -> {"idle", "write", "done", "lost"}]
  /\ job \in [JobIds -> Job]
  /\ sent \in [JobIds -> Nat]
  /\ attempt \in [JobIds -> Nat]
  /\ tick \in [Ticks -> Tick]
  /\ faults \in 0..MaxFaults

NewJob == [state |-> "none", due |-> 0, channel |-> "none", pc |-> "idle",
           proc |-> NoProc, stalls |-> 0, text |-> "none"]
IdleTick == [pc |-> "idle", now |-> 0, todo |-> {}, at |-> NoInvoice]

Init ==
  /\ now = 0
  /\ payment = [i \in Invoices |-> [status |-> "ABSENT", retryCount |-> 0, nextRetryAt |-> Never]]
  /\ sequence = InitialSequences
  /\ failure = [f \in Failures |-> [pc |-> "idle", steps |-> <<>>, k |-> 1]]
  /\ success = [s \in Successes |-> "idle"]
  /\ edit = [e \in Edits |-> "idle"]
  /\ job = [j \in JobIds |-> NewJob]
  /\ sent = [j \in JobIds |-> 0]
  /\ attempt = [j \in JobIds |-> 0]
  /\ tick = [r \in Ticks |-> IdleTick]
  /\ faults = 0

Defaults(tenant) ==
  {s \in SeqIds : sequence[s].exists /\ sequence[s].isDefault /\ TenantOf[s] = tenant}

\* Mutated: a job that has ended is queued once more.
AddAgain(j, channel, delay) ==
  IF job[j].state \in {"none", "completed", "failed"}
  THEN [job EXCEPT ![j] = [NewJob EXCEPT !.state = IF delay = 0 THEN "waiting" ELSE "delayed",
                                         !.due = Later(now, delay), !.channel = channel]]
  ELSE job

\* dunningQueue.add: BullMQ keeps ended jobs and ignores an id it knows.
Add(j, channel, delay) ==
  IF job[j].state = "none"
  THEN [job EXCEPT ![j] = [NewJob EXCEPT !.state = IF delay = 0 THEN "waiting" ELSE "delayed",
                                         !.due = Later(now, delay), !.channel = channel]]
  ELSE job

AdvanceClock ==
  /\ now < Horizon
  /\ now' = now + 1
  /\ UNCHANGED <<payment, sequence, failure, success, edit, job, sent, attempt, tick, faults>>

-----------------------------------------------------------------------------
\* handleFailedPayment and scheduleRetries.

UpsertPayment(f) ==
  LET i == FailedInvoice[f]
  IN  /\ failure[f].pc = "idle"
      /\ payment' =
           IF payment[i].status = "ABSENT"
           THEN [payment EXCEPT ![i] = [status |-> "RECOVERING", retryCount |-> 0,
                                        nextRetryAt |-> Never]]
           ELSE [payment EXCEPT ![i].status = "RECOVERING", ![i].retryCount = @ + 1]
      /\ failure' = [failure EXCEPT ![f].pc = "plan"]
      /\ UNCHANGED <<now, sequence, success, edit, job, sent, attempt, tick, faults>>

\* findFirst picks any of the default sequences; there may be none.
ReadSequence(f) ==
  /\ failure[f].pc = "plan"
  /\ LET found == Defaults(TenantOf[FailedInvoice[f]])
     IN  \/ /\ found = {}
            /\ failure' = [failure EXCEPT ![f].pc = "done"]
         \/ \E s \in found :
              failure' = [failure EXCEPT
                ![f] = [@ EXCEPT !.pc = IF sequence[s].steps = <<>> THEN "done" ELSE "add",
                                 !.steps = sequence[s].steps]]
  /\ UNCHANGED <<now, payment, sequence, success, edit, job, sent, attempt, tick, faults>>

\* Where the loop goes after step k.
AfterStep(f) ==
  IF failure[f].k < Len(failure[f].steps)
  THEN [failure EXCEPT ![f].pc = "add", ![f].k = @ + 1]
  ELSE [failure EXCEPT ![f].pc = "done"]

\* Mutated: the due time is written before the job is queued.
StampAndAdd(f) ==
  LET i == FailedInvoice[f]
      step == failure[f].steps[1]
  IN  /\ failure[f].pc = "add"
      /\ \/ /\ failure[f].k = 1 /\ payment[i].nextRetryAt = Never
            /\ payment' = [payment EXCEPT ![i].nextRetryAt = Later(now, step.delay)]
            /\ UNCHANGED <<job, failure>>
         \/ /\ failure[f].k # 1 \/ payment[i].nextRetryAt # Never
            /\ job' = Add(StepJob(i, failure[f].k), step.channel, step.delay)
            /\ failure' = AfterStep(f)
            /\ UNCHANGED payment
      /\ UNCHANGED <<now, sequence, success, edit, sent, attempt, tick, faults>>

\* Mutated: the loop ends one step early.
AddAllButLast(f) ==
  LET i == FailedInvoice[f]
      k == failure[f].k
      step == failure[f].steps[k]
  IN  /\ failure[f].pc = "add"
      /\ job' = IF k = Len(failure[f].steps) THEN job ELSE Add(StepJob(i, k), step.channel, step.delay)
      /\ failure' = IF k = 1 THEN [failure EXCEPT ![f].pc = "stamp"] ELSE AfterStep(f)
      /\ UNCHANGED <<now, payment, sequence, success, edit, sent, attempt, tick, faults>>

AddStep(f) ==
  LET i == FailedInvoice[f]
      k == failure[f].k
      step == failure[f].steps[k]
  IN  /\ failure[f].pc = "add"
      /\ job' = Add(StepJob(i, k), step.channel, step.delay)
      /\ failure' = IF k = 1 THEN [failure EXCEPT ![f].pc = "stamp"] ELSE AfterStep(f)
      /\ UNCHANGED <<now, payment, sequence, success, edit, sent, attempt, tick, faults>>

\* The queue refuses or cannot be reached: the handler throws.
AddStepFails(f) ==
  /\ failure[f].pc = "add"
  /\ faults < MaxFaults
  /\ faults' = faults + 1
  /\ failure' = [failure EXCEPT ![f].pc = "lost"]
  /\ UNCHANGED <<now, payment, sequence, success, edit, job, sent, attempt, tick>>

\* The due time of the first step, from a new reading of the clock.
StampRetry(f) ==
  /\ failure[f].pc = "stamp"
  /\ payment' = [payment EXCEPT ![FailedInvoice[f]].nextRetryAt =
                   Later(now, failure[f].steps[1].delay)]
  /\ failure' = AfterStep(f)
  /\ UNCHANGED <<now, sequence, success, edit, job, sent, attempt, tick, faults>>

-----------------------------------------------------------------------------
\* handlePaymentSucceeded.

FindPaid(s) ==
  /\ success[s] = "idle"
  /\ success' = [success EXCEPT ![s] =
       IF payment[PaidInvoice[s]].status = "ABSENT" THEN "done" ELSE "update"]
  /\ UNCHANGED <<now, payment, sequence, failure, edit, job, sent, attempt, tick, faults>>

MarkRecovered(s) ==
  /\ success[s] = "update"
  /\ payment' = [payment EXCEPT ![PaidInvoice[s]].status = "RECOVERED"]
  /\ success' = [success EXCEPT ![s] = "done"]
  /\ UNCHANGED <<now, sequence, failure, edit, job, sent, attempt, tick, faults>>

-----------------------------------------------------------------------------
\* createSequence and updateSequence.

\* Mutated: the defaults of every tenant are unset.
UnsetAllDefaults(e) ==
  [s \in SeqIds |->
     IF s \in UNION {Defaults(TenantOf[u]) : u \in SeqIds} /\ (Dto[e].op = "update" => s # Dto[e].id)
     THEN [sequence[s] EXCEPT !.isDefault = FALSE] ELSE sequence[s]]

UnsetDefaults(e) ==
  [s \in SeqIds |->
     IF s \in Defaults(TenantOf[Dto[e].id]) /\ (Dto[e].op = "update" => s # Dto[e].id)
     THEN [sequence[s] EXCEPT !.isDefault = FALSE] ELSE sequence[s]]

\* The first write: the other defaults go, if this one is to be the default.
BeginEdit(e) ==
  /\ edit[e] = "idle"
  /\ Dto[e].op = "update" => sequence[Dto[e].id].exists
  /\ Dto[e].op = "create" => ~ sequence[Dto[e].id].exists
  /\ sequence' = IF Dto[e].isDefault = "yes" THEN UnsetDefaults(e) ELSE sequence
  /\ edit' = [edit EXCEPT ![e] = "write"]
  /\ UNCHANGED <<now, payment, failure, success, job, sent, attempt, tick, faults>>

\* The second write.
WriteSequence(e) ==
  /\ edit[e] = "write"
  /\ sequence' = [sequence EXCEPT ![Dto[e].id] =
       [exists |-> TRUE,
        isDefault |-> IF Dto[e].isDefault = "keep" THEN @.isDefault ELSE Dto[e].isDefault = "yes",
        steps |-> IF Dto[e].keepSteps THEN @.steps ELSE Dto[e].steps]]
  /\ edit' = [edit EXCEPT ![e] = "done"]
  /\ UNCHANGED <<now, payment, failure, success, job, sent, attempt, tick, faults>>

-----------------------------------------------------------------------------
\* A worker runs a job.

Active(j, pc) == job[j].state = "active" /\ job[j].pc = pc

RunningOn(p) == {j \in JobIds : job[j].state = "active" /\ job[j].proc = p}

PromoteDelayed(j) ==
  /\ job[j].state = "delayed"
  /\ job[j].due <= now
  /\ job' = [job EXCEPT ![j].state = "waiting"]
  /\ UNCHANGED <<now, payment, sequence, failure, success, edit, sent, attempt, tick, faults>>

StartJob(j, p) ==
  /\ job[j].state = "waiting"
  /\ Cardinality(RunningOn(p)) < Concurrency
  /\ job' = [job EXCEPT ![j].state = "active", ![j].pc = "render", ![j].proc = p]
  /\ UNCHANGED <<now, payment, sequence, failure, success, edit, sent, attempt, tick, faults>>

\* The channel a job of either kind is sent on: anything else is an SMS.
IsEmail(j) == job[j].channel \in {"email", "EMAIL"}

\* buildEmailContent: the step's own text if the sequence has one, else the
\* built-in notice for its position.
Notice(k) ==
  CASE k = 1 -> "payment failed"
    [] k = 2 -> "still outstanding"
    [] OTHER -> "final notice"

EmailContent(s, k) ==
  IF k \in DOMAIN sequence[s].steps /\ sequence[s].steps[k].custom THEN s ELSE Notice(k)

\* Mutated: the lookup of the default sequence forgets the tenant.
TextsOfAnyone(j) ==
  LET found == {s \in SeqIds : sequence[s].exists /\ sequence[s].isDefault}
  IN  IF found = {} THEN {Notice(j.n)} ELSE {EmailContent(s, j.n) : s \in found}

\* The e-mail is rendered from the sequence that is the default now.
Texts(j) ==
  LET found == Defaults(TenantOf[j.invoice])
  IN  IF found = {} THEN {Notice(j.n)} ELSE {EmailContent(s, j.n) : s \in found}

\* What sendRecoveryEmail and sendRecoverySms read before they send: never the
\* status of the payment.
Render(j) ==
  /\ Active(j, "render")
  /\ \E text \in IF IsEmail(j) THEN Texts(j) ELSE {"none"} :
       job' = [job EXCEPT ![j].pc = "send", ![j].text = text]
  /\ UNCHANGED <<now, payment, sequence, failure, success, edit, sent, attempt, tick, faults>>

\* Mutated: the attempt is recorded before the message is sent.
RecordBeforeSend(j) ==
  /\ Active(j, "send")
  /\ attempt' = [attempt EXCEPT ![j] = @ + 1]
  /\ job' = [job EXCEPT ![j].pc = "record"]
  /\ UNCHANGED <<now, payment, sequence, failure, success, edit, sent, tick, faults>>

SendMessage(j) ==
  /\ Active(j, "send")
  /\ sent' = [sent EXCEPT ![j] = @ + 1]
  /\ job' = [job EXCEPT ![j].pc = "record"]
  /\ UNCHANGED <<now, payment, sequence, failure, success, edit, attempt, tick, faults>>

RecordAttempt(j) ==
  /\ Active(j, "record")
  /\ attempt' = [attempt EXCEPT ![j] = @ + 1]
  /\ job' = [job EXCEPT ![j].pc = "finish"]
  /\ UNCHANGED <<now, payment, sequence, failure, success, edit, sent, tick, faults>>

\* The job leaves its worker for good or until it is found stalled.
Leave(j, state) == [job EXCEPT ![j].state = state, ![j].pc = "idle", ![j].proc = NoProc]

FinishJob(j) ==
  /\ Active(j, "finish")
  /\ job' = Leave(j, "completed")
  /\ UNCHANGED <<now, payment, sequence, failure, success, edit, sent, attempt, tick, faults>>

\* Mutated: the handler catches the failure and puts its job back, however often.
RetryFailed(j) ==
  /\ job[j].state = "active" /\ job[j].pc # "finish"
  /\ job' = Leave(j, "waiting")
  /\ UNCHANGED <<now, payment, sequence, failure, success, edit, sent, attempt, tick, faults>>

\* A read, SES, SNS or the INSERT fails: jobs of this queue have one attempt.
JobFails(j) ==
  /\ job[j].state = "active" /\ job[j].pc # "finish"
  /\ job' = Leave(j, "failed")
  /\ UNCHANGED <<now, payment, sequence, failure, success, edit, sent, attempt, tick, faults>>

\* BullMQ's stalled check: back to the queue, or failed at the limit.
RequeueStalled(j) ==
  /\ job[j].state = "stalled"
  /\ job[j].stalls < MaxStalls
  /\ job' = [job EXCEPT ![j].state = "waiting", ![j].stalls = @ + 1]
  /\ UNCHANGED <<now, payment, sequence, failure, success, edit, sent, attempt, tick, faults>>

FailStalled(j) ==
  /\ job[j].state = "stalled"
  /\ job[j].stalls = MaxStalls
  /\ job' = Leave(j, "failed")
  /\ UNCHANGED <<now, payment, sequence, failure, success, edit, sent, attempt, tick, faults>>

-----------------------------------------------------------------------------
\* DunningScheduler.fireOverdueRetries, every five minutes in every process.

StartTick(r) ==
  /\ tick[r].pc = "idle"
  /\ tick' = [tick EXCEPT ![r] = [IdleTick EXCEPT !.pc = "query", !.now = now]]
  /\ UNCHANGED <<now, payment, sequence, failure, success, edit, job, sent, attempt, faults>>

Overdue(t) ==
  {i \in Invoices : payment[i].status = "RECOVERING" /\ payment[i].nextRetryAt <= t}

QueryOverdue(r) ==
  /\ tick[r].pc = "query"
  /\ LET found == Overdue(tick[r].now)
     IN  tick' = [tick EXCEPT ![r] = IF found = {} THEN IdleTick
                                     ELSE [@ EXCEPT !.pc = "add", !.todo = found]]
  /\ UNCHANGED <<now, payment, sequence, failure, success, edit, job, sent, attempt, faults>>

FireRetry(r, i) ==
  /\ tick[r].pc = "add"
  /\ i \in tick[r].todo
  /\ job' = Add(SchedulerJob(i, tick[r].now), "none", 0)
  /\ tick' = [tick EXCEPT ![r].pc = "clear", ![r].at = i]
  /\ UNCHANGED <<now, payment, sequence, failure, success, edit, sent, attempt, faults>>

\* Mutated: the error is caught in the loop, which goes on to clear the due time.
FireRetrySwallowed(r) ==
  /\ tick[r].pc = "add"
  /\ faults < MaxFaults
  /\ faults' = faults + 1
  /\ \E i \in tick[r].todo : tick' = [tick EXCEPT ![r].pc = "clear", ![r].at = i]
  /\ UNCHANGED <<now, payment, sequence, failure, success, edit, job, sent, attempt>>

\* The error is logged; what is left of the list waits for a later run.
FireRetryFails(r) ==
  /\ tick[r].pc = "add"
  /\ faults < MaxFaults
  /\ faults' = faults + 1
  /\ tick' = [tick EXCEPT ![r] = IdleTick]
  /\ UNCHANGED <<now, payment, sequence, failure, success, edit, job, sent, attempt>>

NextOverdue(r) ==
  LET left == tick[r].todo \ {tick[r].at}
  IN  IF left = {} THEN IdleTick
      ELSE [tick[r] EXCEPT !.pc = "add", !.todo = left, !.at = NoInvoice]

\* Mutated: the due time stays.
KeepRetry(r) ==
  /\ tick[r].pc = "clear"
  /\ tick' = [tick EXCEPT ![r] = NextOverdue(r)]
  /\ UNCHANGED <<now, payment, sequence, failure, success, edit, job, sent, attempt, faults>>

\* Whatever nextRetryAt is by now.
ClearRetry(r) ==
  /\ tick[r].pc = "clear"
  /\ payment' = [payment EXCEPT ![tick[r].at].nextRetryAt = Never]
  /\ tick' = [tick EXCEPT ![r] = NextOverdue(r)]
  /\ UNCHANGED <<now, sequence, failure, success, edit, job, sent, attempt, faults>>

-----------------------------------------------------------------------------
\* A process dies with the handlers, requests, runs and jobs it was executing.

Crash(p) ==
  /\ faults < MaxFaults
  /\ faults' = faults + 1
  /\ failure' = [f \in Failures |->
       IF p = Api /\ failure[f].pc \in {"plan", "add", "stamp"}
       THEN [failure[f] EXCEPT !.pc = "lost"] ELSE failure[f]]
  /\ success' = [s \in Successes |->
       IF p = Api /\ success[s] = "update" THEN "lost" ELSE success[s]]
  /\ edit' = [e \in Edits |-> IF p = Api /\ edit[e] = "write" THEN "lost" ELSE edit[e]]
  /\ job' = [j \in JobIds |->
       IF j \in RunningOn(p)
       THEN [job[j] EXCEPT !.state = "stalled", !.pc = "idle", !.proc = NoProc] ELSE job[j]]
  /\ tick' = [r \in Ticks |-> IF TickProc[r] = p THEN IdleTick ELSE tick[r]]
  /\ UNCHANGED <<now, payment, sequence, sent, attempt>>

-----------------------------------------------------------------------------
FailureStep(f) == ReadSequence(f) \/ AddStep(f) \/ StampRetry(f)

JobStep(j) ==
  \/ PromoteDelayed(j)
  \/ \E p \in Procs : StartJob(j, p)
  \/ Render(j)
  \/ SendMessage(j)
  \/ RecordAttempt(j)
  \/ FinishJob(j)
  \/ RequeueStalled(j)
  \/ FailStalled(j)

TickStep(r) ==
  \/ StartTick(r)
  \/ QueryOverdue(r)
  \/ \E i \in Invoices : FireRetry(r, i)
  \/ ClearRetry(r)

Next ==
  \/ AdvanceClock
  \/ \E f \in Failures : UpsertPayment(f) \/ FailureStep(f) \/ AddStepFails(f)
  \/ \E s \in Successes : FindPaid(s) \/ MarkRecovered(s)
  \/ \E e \in Edits : BeginEdit(e) \/ WriteSequence(e)
  \/ \E j \in JobIds : JobStep(j) \/ JobFails(j)
  \/ \E r \in Ticks : TickStep(r) \/ FireRetryFails(r)
  \/ \E p \in Procs : Crash(p)

Spec == Init /\ [][Next]_vars

\* Time passes, the interval timers fire, started handlers and jobs go on and
\* the queue hands out jobs.  Stripe, users, failing calls and crashes owe
\* nothing.
Fairness ==
  /\ WF_vars(AdvanceClock)
  /\ \A f \in Failures : WF_vars(FailureStep(f))
  /\ \A s \in Successes : WF_vars(MarkRecovered(s))
  /\ \A e \in Edits : WF_vars(WriteSequence(e))
  /\ \A j \in JobIds : WF_vars(JobStep(j))
  /\ \A r \in Ticks : WF_vars(TickStep(r))

FairSpec == Spec /\ Fairness

-----------------------------------------------------------------------------
\* Properties.

(* A customer gets the message of a step, or of a pick-up by the scheduler, once:
   repeated payment_failed events never repeat it, only a job that was found
   stalled after its process died is run, and its message sent, again. *)
MessagesNotRepeated == \A j \in JobIds : sent[j] <= 1 + job[j].stalls

AttemptsMatch(j) ==
  /\ attempt[j] <= sent[j]
  /\ sent[j] <= attempt[j] + job[j].stalls +
       (IF job[j].pc = "record" \/ job[j].state \in {"stalled", "failed"} THEN 1 ELSE 0)
  /\ job[j].state = "completed" => attempt[j] > 0

(* RecoveryAttempt rows are the true history of the messages: a row only for a
   message that went out, a row missing only for a message whose job died or
   failed right after it, and a completed job has both. *)
AttemptsMatchMessages == \A j \in JobIds : AttemptsMatch(j)

(* A payment with a due time has its first step in the queue, whatever failed in
   between: the scheduler never chases a payment nobody planned for. *)
RetryHasJob ==
  \A i \in Invoices : payment[i].nextRetryAt # Never => job[StepJob(i, 1)].state # "none"

Queued(f, k) == job[StepJob(FailedInvoice[f], k)].state # "none"

(* When the handler of a payment_failed event has ended, every step of the
   sequence it read is queued, or was by an earlier event. *)
DoneIsScheduled ==
  \A f \in Failures : failure[f].pc = "done" =>
    \A k \in DOMAIN failure[f].steps : Queued(f, k)

(* The text of an e-mail comes from the customer's own merchant or from the
   built-in notices, though sequences are edited while jobs wait. *)
OwnTenantsText ==
  \A j \in JobIds : job[j].text \in SeqIds => TenantOf[job[j].text] = TenantOf[j.invoice]

(* A tenant's default sequence survives the edits of all other tenants; an edit
   of its own that makes a default leaves it with one unless the request died
   between the two writes. *)
DefaultKept ==
  \A s \in SeqIds :
    LET t == TenantOf[s]
        own == {e \in Edits : TenantOf[Dto[e].id] = t /\ edit[e] # "idle"}
    IN  InitialSequences[s].exists /\ InitialSequences[s].isDefault =>
          \/ Defaults(t) # {}
          \/ \E e \in own : \/ Dto[e].isDefault = "yes" /\ edit[e] \in {"write", "lost"}
                            \/ Dto[e].isDefault = "no"

(* A payment whose retry is overdue is picked up by a run of the scheduler, with
   runs that overlap, fail or die with their process. *)
OverdueIsPickedUp ==
  \A i \in Invoices :
    (payment[i].status = "RECOVERING" /\ payment[i].nextRetryAt <= now)
      ~> (payment[i].status # "RECOVERING" \/ payment[i].nextRetryAt = Never)

(* Every step planned for a failed payment ends, sent or failed, when its time
   has come. *)
PlannedStepsEnd ==
  \A i \in Invoices, k \in StepIndex :
    job[StepJob(i, k)].state # "none" ~> job[StepJob(i, k)].state \in {"completed", "failed"}

-----------------------------------------------------------------------------
\* The inductive invariant behind the theorems of DunningProofs.

\* What the progress of a handler says of the queue.
FailureOK(f) ==
  /\ failure[f].pc \in {"idle", "plan"} => failure[f].steps = <<>> /\ failure[f].k = 1
  /\ failure[f].pc \in {"add", "stamp"} => failure[f].k \in DOMAIN failure[f].steps
  /\ failure[f].pc = "add" => \A k \in DOMAIN failure[f].steps : k < failure[f].k => Queued(f, k)
  /\ failure[f].pc = "stamp" => failure[f].k = 1 /\ Queued(f, 1)
  /\ failure[f].pc = "done" => \A k \in DOMAIN failure[f].steps : Queued(f, k)

\* A run of job j that has sent its message and not been requeued since.
HasSent(j) ==
  job[j].pc \in {"record", "finish"} \/ job[j].state \in {"stalled", "completed", "failed"}

\* What the progress of a job says of its messages and attempts.
JobOK(j) ==
  /\ (job[j].state = "active") = (job[j].pc # "idle")
  /\ job[j].state = "none" => sent[j] = 0
  /\ sent[j] <= job[j].stalls + (IF HasSent(j) THEN 1 ELSE 0)
  /\ AttemptsMatch(j)
  /\ job[j].pc = "record" => attempt[j] < sent[j]
  /\ job[j].pc = "finish" => attempt[j] > 0

RetryOK(i) ==
  payment[i].nextRetryAt # Never => 1 \in StepIndex /\ job[StepJob(i, 1)].state # "none"

(* Dunning's inductive invariant: the progress of handlers and jobs agrees with
   the queue, the messages, the attempts and the due times. *)
IInv ==
  /\ TypeOK
  /\ \A f \in Failures : FailureOK(f)
  /\ \A j \in JobIds : JobOK(j)
  /\ \A i \in Invoices : RetryOK(i)

-----------------------------------------------------------------------------
\* What documents and comments say of dunning, and the code does not do.

(* demo.service.ts:39 "Second email if still unpaid": no message about a payment
   goes out after it has been marked RECOVERED. *)
NoMessageOnceRecovered ==
  [][\A j \in JobIds : sent'[j] # sent[j] => payment[j.invoice].status # "RECOVERED"]_vars

(* scheduler.ts:60 "Clear nextRetryAt to prevent re-pickup": every event that
   stamps a due time brings at most one job of the scheduler. *)
PickedUpOnce ==
  \A i \in Invoices :
    Cardinality({t \in Time : job[SchedulerJob(i, t)].state # "none"})
      <= Cardinality({f \in Failures : FailedInvoice[f] = i /\ failure[f].pc # "idle"})
=============================================================================
