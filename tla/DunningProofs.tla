---------------------------- MODULE DunningProofs ----------------------------
(* Theorems of Dunning and of the history of its due times, for every value of
   their constants. *)
EXTENDS DunningPickUps, FiniteSetTheorems, TLAPS

\* A job once queued stays known to the queue.
JobsKept == \A j \in JobIds : job[j].state # "none" => job'[j].state # "none"

LEMMA LaterIsTime == ASSUME NEW t \in Time, NEW d \in Nat PROVE Later(t, d) \in Time
BY DunningAssumption DEF Later, Time

LEMMA StepIsJob ==
  ASSUME TypeOK, NEW f \in Failures, NEW k \in DOMAIN failure[f].steps
  PROVE  /\ StepJob(FailedInvoice[f], k) \in JobIds
         /\ failure[f].steps \in Seq(Step)
         /\ failure[f].steps[k].delay \in Nat
         /\ failure[f].steps[k].channel \in Channels
<1>1. failure[f].steps \in StepLists \cup {<<>>}
  BY DEF TypeOK, Failure
<1>2. failure[f].steps \in StepLists
  BY <1>1
<1>3. k \in StepIndex
  BY <1>2 DEF StepIndex
<1>4. failure[f].steps \in Seq(Step)
  BY <1>2, DunningAssumption
<1>5. failure[f].steps[k] \in Step
  BY <1>4
<1>6. FailedInvoice[f] \in Invoices
  BY DunningAssumption
<1> QED
  BY <1>3, <1>4, <1>5, <1>6 DEF Step, StepJob, JobIds

LEMMA SchedulerIsJob ==
  ASSUME NEW i \in Invoices, NEW t \in Time PROVE SchedulerJob(i, t) \in JobIds
BY DEF SchedulerJob, JobIds

\* What dunningQueue.add does to the queue.
LEMMA AddEffect ==
  ASSUME TypeOK, NEW j \in JobIds, NEW c \in Channels \cup {"none"}, NEW d \in Nat,
         job' = Add(j, c, d)
  PROVE  /\ job' \in [JobIds -> Job]
         /\ JobsKept
         /\ job'[j].state # "none"
         /\ \A x \in JobIds :
              \/ job'[x] = job[x]
              \/ /\ job[x].state = "none" /\ job'[x].state \in {"waiting", "delayed"}
                 /\ job'[x].pc = "idle" /\ job'[x].stalls = 0
<1>1. Later(now, d) \in Time
  BY LaterIsTime DEF TypeOK
<1>2. 0 \in Time /\ 0 \in 0..MaxStalls
  BY DunningAssumption DEF Time
<1> DEFINE new == [NewJob EXCEPT !.state = IF d = 0 THEN "waiting" ELSE "delayed",
                                 !.due = Later(now, d), !.channel = c]
<1>3. new \in Job
  BY <1>1, <1>2 DEF NewJob, Job
<1>4. new.state \in {"waiting", "delayed"} /\ new.pc = "idle" /\ new.stalls = 0
  BY DEF NewJob
<1>5. CASE job[j].state = "none"
  <2>1. job' = [job EXCEPT ![j] = new]
    BY <1>5 DEF Add
  <2> HIDE DEF new
  <2> QED
    BY <2>1, <1>3, <1>4, <1>5 DEF TypeOK, JobsKept
<1>6. CASE job[j].state # "none"
  <2>1. job' = job
    BY <1>6 DEF Add
  <2> QED
    BY <2>1, <1>6 DEF TypeOK, JobsKept
<1> QED
  BY <1>5, <1>6

\* Steps of one job that is already queued: the job takes a new value v.
LEMMA JobStepEffect ==
  ASSUME TypeOK, NEW j \in JobIds, JobStep(j) \/ JobFails(j)
  PROVE  /\ \E v \in Job : job' = [job EXCEPT ![j] = v] /\ v.state # "none" /\ job[j].state # "none"
         /\ UNCHANGED <<now, payment, sequence, failure, success, edit, tick, faults>>
<1>0. job[j] \in Job
  BY DEF TypeOK
<1>a. UNCHANGED <<now, payment, sequence, failure, success, edit, tick, faults>>
  BY DEF JobStep, JobFails, PromoteDelayed, StartJob, Render, SendMessage, RecordAttempt,
         FinishJob, RequeueStalled, FailStalled
<1>1. ASSUME PromoteDelayed(j) PROVE \E v \in Job : job' = [job EXCEPT ![j] = v] /\ v.state # "none" /\ job[j].state # "none"
  <2> DEFINE v == [job[j] EXCEPT !.state = "waiting"]
  <2>1. v \in Job /\ v.state # "none"
    BY <1>0 DEF Job
  <2>2. job' = [job EXCEPT ![j] = v] /\ job[j].state # "none"
    BY <1>1 DEF PromoteDelayed
  <2> QED
    BY <2>1, <2>2
<1>2. ASSUME NEW p \in Procs, StartJob(j, p) PROVE \E v \in Job : job' = [job EXCEPT ![j] = v] /\ v.state # "none" /\ job[j].state # "none"
  <2> DEFINE v == [job[j] EXCEPT !.state = "active", !.pc = "render", !.proc = p]
  <2>1. v \in Job /\ v.state # "none"
    BY <1>0 DEF Job
  <2>2. job' = [job EXCEPT ![j] = v] /\ job[j].state # "none"
    BY <1>2 DEF StartJob
  <2> QED
    BY <2>1, <2>2
<1>3. ASSUME Render(j) PROVE \E v \in Job : job' = [job EXCEPT ![j] = v] /\ v.state # "none" /\ job[j].state # "none"
  <2>1. PICK text : /\ text \in IF IsEmail(j) THEN Texts(j) ELSE {"none"}
                    /\ job' = [job EXCEPT ![j].pc = "send", ![j].text = text]
    BY <1>3 DEF Render
  <2>2. text \in SeqIds \cup Notices \cup {"none"}
    BY <2>1 DEF Texts, EmailContent, Notice, Notices, Defaults
  <2> DEFINE v == [job[j] EXCEPT !.pc = "send", !.text = text]
  <2>3. v \in Job /\ v.state = job[j].state
    BY <1>0, <2>2 DEF Job
  <2>4. job' = [job EXCEPT ![j] = v] /\ job[j].state # "none"
    BY <1>3, <2>1 DEF Render, Active
  <2> QED
    BY <2>3, <2>4
<1>4. ASSUME SendMessage(j) PROVE \E v \in Job : job' = [job EXCEPT ![j] = v] /\ v.state # "none" /\ job[j].state # "none"
  <2> DEFINE v == [job[j] EXCEPT !.pc = "record"]
  <2>1. v \in Job /\ v.state = job[j].state
    BY <1>0 DEF Job
  <2>2. job' = [job EXCEPT ![j] = v] /\ job[j].state # "none"
    BY <1>4 DEF SendMessage, Active
  <2> QED
    BY <2>1, <2>2
<1>5. ASSUME RecordAttempt(j) PROVE \E v \in Job : job' = [job EXCEPT ![j] = v] /\ v.state # "none" /\ job[j].state # "none"
  <2> DEFINE v == [job[j] EXCEPT !.pc = "finish"]
  <2>1. v \in Job /\ v.state = job[j].state
    BY <1>0 DEF Job
  <2>2. job' = [job EXCEPT ![j] = v] /\ job[j].state # "none"
    BY <1>5 DEF RecordAttempt, Active
  <2> QED
    BY <2>1, <2>2
<1>6. ASSUME NEW s \in {"completed", "failed"}, job' = Leave(j, s), job[j].state # "none"
      PROVE \E v \in Job : job' = [job EXCEPT ![j] = v] /\ v.state # "none" /\ job[j].state # "none"
  <2> DEFINE v == [job[j] EXCEPT !.state = s, !.pc = "idle", !.proc = NoProc]
  <2>1. v \in Job /\ v.state # "none"
    BY <1>0, <1>6 DEF Job
  <2>2. job' = [job EXCEPT ![j] = v] /\ job[j].state # "none"
    BY <1>6 DEF Leave
  <2> QED
    BY <2>1, <2>2
<1>7. ASSUME RequeueStalled(j) PROVE \E v \in Job : job' = [job EXCEPT ![j] = v] /\ v.state # "none" /\ job[j].state # "none"
  <2> DEFINE v == [job[j] EXCEPT !.state = "waiting", !.stalls = @ + 1]
  <2>0. job[j].stalls + 1 \in 0..MaxStalls
    BY <1>0, <1>7, DunningAssumption DEF Job, RequeueStalled
  <2>1. v \in Job /\ v.state # "none"
    BY <1>0, <2>0 DEF Job
  <2>2. job' = [job EXCEPT ![j] = v] /\ job[j].state # "none"
    BY <1>7 DEF RequeueStalled
  <2> QED
    BY <2>1, <2>2
<1>8. CASE FinishJob(j)
  BY <1>6, <1>8, <1>a DEF FinishJob, Active
<1>9. CASE FailStalled(j)
  BY <1>6, <1>9, <1>a DEF FailStalled
<1>10. CASE JobFails(j)
  BY <1>6, <1>10, <1>a DEF JobFails
<1> QED
  BY <1>1, <1>2, <1>3, <1>4, <1>5, <1>7, <1>8, <1>9, <1>10, <1>a DEF JobStep

LEMMA TypeInit == Init => TypeOK
<1> SUFFICES ASSUME Init PROVE TypeOK
  OBVIOUS
<1>1. 0 \in Time /\ 0 \in 0..MaxStalls /\ 0 \in 0..MaxFaults /\ Never \in Time \cup {Never}
  BY DunningAssumption DEF Time
<1>2. payment \in [Invoices -> Payment]
  BY DEF Init, Payment
<1>3. failure \in [Failures -> Failure]
  BY DEF Init, Failure
<1>4. NewJob \in Job
  BY <1>1 DEF NewJob, Job
<1>5. job \in [JobIds -> Job]
  BY <1>4 DEF Init
<1>6. tick \in [Ticks -> Tick]
  BY <1>1 DEF Init, IdleTick, Tick
<1> QED
  BY <1>1, <1>2, <1>3, <1>5, <1>6, DunningAssumption DEF Init, TypeOK

LEMMA AfterStepType ==
  ASSUME TypeOK, NEW f \in Failures PROVE AfterStep(f) \in [Failures -> Failure]
<1>0. failure[f] \in Failure /\ failure \in [Failures -> Failure]
  BY DEF TypeOK
<1>1. failure[f].k + 1 \in Nat \ {0}
  BY <1>0 DEF Failure
<1> DEFINE u == [failure[f] EXCEPT !.pc = "add", !.k = @ + 1]
           v == [failure[f] EXCEPT !.pc = "done"]
<1>2. u \in Failure /\ v \in Failure
  BY <1>0, <1>1 DEF Failure
<1>3. AfterStep(f) = [failure EXCEPT ![f] = u] \/ AfterStep(f) = [failure EXCEPT ![f] = v]
  BY DEF AfterStep
<1> HIDE DEF u, v
<1> QED
  BY <1>0, <1>2, <1>3

LEMMA TypeFailure ==
  ASSUME TypeOK, NEW f \in Failures, UpsertPayment(f) \/ FailureStep(f) \/ AddStepFails(f),
         FailureOK(f)
  PROVE  TypeOK'
<1>0. failure[f] \in Failure /\ payment[FailedInvoice[f]] \in Payment /\ FailedInvoice[f] \in Invoices
  BY DunningAssumption DEF TypeOK
<1>1. CASE UpsertPayment(f)
  <2> DEFINE p == payment[FailedInvoice[f]]
             t == [status |-> "RECOVERING", retryCount |-> 0, nextRetryAt |-> Never]
             u == [p EXCEPT !.status = "RECOVERING", !.retryCount = @ + 1]
             v == [failure[f] EXCEPT !.pc = "plan"]
  <2>1. t \in Payment /\ u \in Payment
    <3>1. t \in Payment
      BY DEF Payment
    <3>2. p \in Payment /\ p.retryCount + 1 \in Nat
      BY <1>0 DEF Payment
    <3> HIDE DEF p
    <3>3. u \in Payment
      BY <3>2 DEF Payment
    <3> QED
      BY <3>1, <3>3
  <2>2. \/ payment' = [payment EXCEPT ![FailedInvoice[f]] = t]
        \/ payment' = [payment EXCEPT ![FailedInvoice[f]] = u]
    BY <1>1 DEF UpsertPayment
  <2>3. payment' \in [Invoices -> Payment]
    <3> HIDE DEF t, u
    <3> QED  BY <2>1, <2>2 DEF TypeOK
  <2>4. v \in Failure /\ failure' = [failure EXCEPT ![f] = v]
    BY <1>0, <1>1 DEF Failure, UpsertPayment
  <2>5. failure' \in [Failures -> Failure]
    <3> HIDE DEF v
    <3> QED  BY <2>4 DEF TypeOK
  <2> QED
    BY <1>1, <2>3, <2>5 DEF UpsertPayment, TypeOK
<1>2. CASE ReadSequence(f)
  <2>1. failure' \in [Failures -> Failure]
    <3>1. CASE failure' = [failure EXCEPT ![f].pc = "done"]
      <4>1. [failure[f] EXCEPT !.pc = "done"] \in Failure
        BY <1>0 DEF Failure
      <4> QED
        BY <3>1, <4>1 DEF TypeOK
    <3>2. CASE \E s \in SeqIds :
                 failure' = [failure EXCEPT
                   ![f] = [@ EXCEPT !.pc = IF sequence[s].steps = <<>> THEN "done" ELSE "add",
                                    !.steps = sequence[s].steps]]
      <4>1. PICK s \in SeqIds :
                 failure' = [failure EXCEPT
                   ![f] = [@ EXCEPT !.pc = IF sequence[s].steps = <<>> THEN "done" ELSE "add",
                                    !.steps = sequence[s].steps]]
        BY <3>2
      <4>2. sequence[s].steps \in StepLists \cup {<<>>}
        BY DEF TypeOK, SequenceRow
      <4> DEFINE v == [failure[f] EXCEPT !.pc = IF sequence[s].steps = <<>> THEN "done" ELSE "add",
                                         !.steps = sequence[s].steps]
      <4>3. v \in Failure
        BY <1>0, <4>2 DEF Failure
      <4>4. failure' = [failure EXCEPT ![f] = v]
        BY <4>1
      <4> HIDE DEF v
      <4> QED
        BY <4>3, <4>4 DEF TypeOK
    <3> QED
      BY <1>2, <3>1, <3>2 DEF ReadSequence, Defaults
  <2> QED
    BY <1>2, <2>1 DEF ReadSequence, TypeOK
<1>3. CASE AddStep(f)
  <2>1. failure[f].k \in DOMAIN failure[f].steps
    BY <1>3 DEF AddStep, FailureOK
  <2>2. job' \in [JobIds -> Job]
    BY <1>3, <2>1, StepIsJob, AddEffect DEF AddStep
  <2>3. failure' \in [Failures -> Failure]
    <3>1. [failure[f] EXCEPT !.pc = "stamp"] \in Failure
      BY <1>0 DEF Failure
    <3>2. [failure EXCEPT ![f].pc = "stamp"] \in [Failures -> Failure]
      BY <3>1 DEF TypeOK
    <3> QED
      BY <1>3, <3>2, AfterStepType DEF AddStep
  <2> QED
    BY <1>3, <2>2, <2>3 DEF AddStep, TypeOK
<1>4. CASE StampRetry(f)
  <2>1. 1 \in DOMAIN failure[f].steps
    BY <1>4 DEF StampRetry, FailureOK
  <2>2. Later(now, failure[f].steps[1].delay) \in Time
    BY <2>1, StepIsJob, LaterIsTime DEF TypeOK
  <2>3. [payment[FailedInvoice[f]] EXCEPT !.nextRetryAt = Later(now, failure[f].steps[1].delay)] \in Payment
    BY <1>0, <2>2 DEF Payment
  <2>4. payment' \in [Invoices -> Payment]
    BY <1>4, <2>3 DEF StampRetry, TypeOK
  <2> QED
    BY <1>4, <2>4, AfterStepType DEF StampRetry, TypeOK
<1>5. CASE AddStepFails(f)
  <2>1. [failure[f] EXCEPT !.pc = "lost"] \in Failure
    BY <1>0 DEF Failure
  <2>2. failure' \in [Failures -> Failure]
    BY <1>5, <2>1 DEF AddStepFails, TypeOK
  <2>3. faults' \in 0..MaxFaults
    BY <1>5, DunningAssumption DEF AddStepFails, TypeOK
  <2> QED
    BY <1>5, <2>2, <2>3 DEF AddStepFails, TypeOK
<1> QED
  BY <1>1, <1>2, <1>3, <1>4, <1>5 DEF FailureStep

LEMMA TypeTick ==
  ASSUME TypeOK, NEW r \in Ticks, TickStep(r) \/ FireRetryFails(r)
  PROVE  TypeOK'
<1>0. tick[r] \in Tick /\ now \in Time
  BY DEF TypeOK
<1>1. IdleTick \in Tick
  BY DunningAssumption DEF IdleTick, Tick, Time
<1>2. NextOverdue(r) \in Tick
  <2>1. [tick[r] EXCEPT !.pc = "add", !.todo = tick[r].todo \ {tick[r].at}, !.at = NoInvoice] \in Tick
    BY <1>0 DEF Tick
  <2> QED
    BY <1>1, <2>1 DEF NextOverdue
<1>3. CASE StartTick(r)
  <2>1. [IdleTick EXCEPT !.pc = "query", !.now = now] \in Tick
    BY <1>0, <1>1 DEF Tick
  <2>2. tick' \in [Ticks -> Tick]
    BY <1>3, <2>1 DEF StartTick, TypeOK
  <2> QED
    BY <1>3, <2>2 DEF StartTick, TypeOK
<1>4. CASE QueryOverdue(r)
  <2>1. [tick[r] EXCEPT !.pc = "add", !.todo = Overdue(tick[r].now)] \in Tick
    BY <1>0 DEF Tick, Overdue
  <2>2. tick' \in [Ticks -> Tick]
    BY <1>1, <1>4, <2>1 DEF QueryOverdue, TypeOK
  <2> QED
    BY <1>4, <2>2 DEF QueryOverdue, TypeOK
<1>5. ASSUME NEW i \in Invoices, FireRetry(r, i) PROVE TypeOK'
  <2>1. [tick[r] EXCEPT !.pc = "clear", !.at = i] \in Tick
    BY <1>0 DEF Tick
  <2>2. tick' \in [Ticks -> Tick]
    BY <1>5, <2>1 DEF FireRetry, TypeOK
  <2>3. tick[r].now \in Time
    BY <1>0 DEF Tick
  <2>4. job' \in [JobIds -> Job]
    BY <1>5, <2>3, SchedulerIsJob, AddEffect DEF FireRetry
  <2> QED
    BY <1>5, <2>2, <2>4 DEF FireRetry, TypeOK
<1>6. CASE ClearRetry(r)
  <2>1. \A i \in Invoices : [payment[i] EXCEPT !.nextRetryAt = Never] \in Payment
    BY DEF TypeOK, Payment
  <2>2. payment' \in [Invoices -> Payment]
    BY <1>6, <2>1 DEF ClearRetry, TypeOK
  <2>3. tick' \in [Ticks -> Tick]
    BY <1>2, <1>6 DEF ClearRetry, TypeOK
  <2> QED
    BY <1>6, <2>2, <2>3 DEF ClearRetry, TypeOK
<1>7. CASE FireRetryFails(r)
  <2>1. tick' \in [Ticks -> Tick]
    BY <1>1, <1>7 DEF FireRetryFails, TypeOK
  <2>2. faults' \in 0..MaxFaults
    BY <1>7, DunningAssumption DEF FireRetryFails, TypeOK
  <2> QED
    BY <1>7, <2>1, <2>2 DEF FireRetryFails, TypeOK
<1> QED
  BY <1>3, <1>4, <1>5, <1>6, <1>7 DEF TickStep

LEMMA TypeJob ==
  ASSUME TypeOK, NEW j \in JobIds, JobStep(j) \/ JobFails(j)
  PROVE  TypeOK'
<1>1. PICK v \in Job : job' = [job EXCEPT ![j] = v]
  BY JobStepEffect
<1>2. job' \in [JobIds -> Job]
  BY <1>1 DEF TypeOK
<1>3. sent' \in [JobIds -> Nat] /\ attempt' \in [JobIds -> Nat]
  <2>1. sent' = sent \/ sent' = [sent EXCEPT ![j] = @ + 1]
    BY DEF JobStep, JobFails, PromoteDelayed, StartJob, Render, SendMessage, RecordAttempt,
           FinishJob, RequeueStalled, FailStalled
  <2>2. attempt' = attempt \/ attempt' = [attempt EXCEPT ![j] = @ + 1]
    BY DEF JobStep, JobFails, PromoteDelayed, StartJob, Render, SendMessage, RecordAttempt,
           FinishJob, RequeueStalled, FailStalled
  <2> QED
    BY <2>1, <2>2 DEF TypeOK
<1> QED
  BY <1>2, <1>3, JobStepEffect DEF TypeOK

LEMMA TypeRest ==
  ASSUME TypeOK,
         \/ AdvanceClock
         \/ \E s \in Successes : FindPaid(s) \/ MarkRecovered(s)
         \/ \E e \in Edits : BeginEdit(e) \/ WriteSequence(e)
         \/ \E p \in Procs : Crash(p)
  PROVE  TypeOK'
<1>1. CASE AdvanceClock
  BY <1>1, DunningAssumption DEF AdvanceClock, TypeOK, Time
<1>2. ASSUME NEW s \in Successes, FindPaid(s) PROVE TypeOK'
  BY <1>2 DEF FindPaid, TypeOK
<1>3. ASSUME NEW s \in Successes, MarkRecovered(s) PROVE TypeOK'
  <2>1. \A i \in Invoices : [payment[i] EXCEPT !.status = "RECOVERED"] \in Payment
    BY DEF TypeOK, Payment
  <2>2. payment' \in [Invoices -> Payment]
    BY <1>3, <2>1 DEF MarkRecovered, TypeOK
  <2>3. success' \in [Successes -> {"idle", "update", "done", "lost"}]
    BY <1>3 DEF MarkRecovered, TypeOK
  <2> QED
    BY <1>3, <2>2, <2>3 DEF MarkRecovered, TypeOK
<1>4. ASSUME NEW e \in Edits, BeginEdit(e) PROVE TypeOK'
  <2>1. \A s \in SeqIds : [sequence[s] EXCEPT !.isDefault = FALSE] \in SequenceRow
    BY DEF TypeOK, SequenceRow
  <2>2. UnsetDefaults(e) \in [SeqIds -> SequenceRow]
    BY <2>1 DEF UnsetDefaults, TypeOK
  <2>3. sequence' \in [SeqIds -> SequenceRow]
    BY <1>4, <2>2 DEF BeginEdit, TypeOK
  <2>4. edit' \in [Edits -> {"idle", "write", "done", "lost"}]
    BY <1>4 DEF BeginEdit, TypeOK
  <2> QED
    BY <1>4, <2>3, <2>4 DEF BeginEdit, TypeOK
<1>5. ASSUME NEW e \in Edits, WriteSequence(e) PROVE TypeOK'
  <2>1. Dto[e] \in EditDto
    BY DunningAssumption
  <2>2. sequence[Dto[e].id] \in SequenceRow /\ Dto[e].id \in SeqIds
    BY <2>1 DEF EditDto, TypeOK
  <2> DEFINE old == sequence[Dto[e].id]
             new == [exists |-> TRUE,
                     isDefault |-> IF Dto[e].isDefault = "keep" THEN old.isDefault
                                                                ELSE Dto[e].isDefault = "yes",
                     steps |-> IF Dto[e].keepSteps THEN old.steps ELSE Dto[e].steps]
  <2>3. new \in SequenceRow
    <3>1. old.isDefault \in BOOLEAN /\ old.steps \in StepLists \cup {<<>>}
      BY <2>2 DEF SequenceRow
    <3>2. Dto[e].steps \in StepLists \cup {<<>>}
      BY <2>1 DEF EditDto
    <3>3. (IF Dto[e].keepSteps THEN old.steps ELSE Dto[e].steps) \in StepLists \cup {<<>>}
      BY <3>1, <3>2
    <3>4. (IF Dto[e].isDefault = "keep" THEN old.isDefault ELSE Dto[e].isDefault = "yes") \in BOOLEAN
      <4> DEFINE yes == Dto[e].isDefault = "yes"
      <4>1. yes \in BOOLEAN
        BY Zenon
      <4> HIDE DEF yes, old
      <4> QED
        BY <3>1, <4>1, Zenon
    <3> QED
      BY <3>3, <3>4 DEF SequenceRow
  <2>4. sequence' = [sequence EXCEPT ![Dto[e].id] = new]
    BY <1>5 DEF WriteSequence
  <2>5. sequence' \in [SeqIds -> SequenceRow]
    <3> HIDE DEF new
    <3> QED  BY <2>3, <2>4 DEF TypeOK
  <2>6. edit' \in [Edits -> {"idle", "write", "done", "lost"}]
    BY <1>5 DEF WriteSequence, TypeOK
  <2> QED
    BY <1>5, <2>5, <2>6 DEF WriteSequence, TypeOK
<1>6. ASSUME NEW p \in Procs, Crash(p) PROVE TypeOK'
  <2>1. \A f \in Failures : [failure[f] EXCEPT !.pc = "lost"] \in Failure
    BY DEF TypeOK, Failure
  <2>2. failure' \in [Failures -> Failure]
    BY <1>6, <2>1 DEF Crash, TypeOK
  <2>3. \A j \in JobIds : [job[j] EXCEPT !.state = "stalled", !.pc = "idle", !.proc = NoProc] \in Job
    <3>1. TAKE j \in JobIds
    <3>2. job[j] \in Job
      BY DEF TypeOK
    <3> QED
      BY <3>2 DEF Job
  <2>4. job' \in [JobIds -> Job]
    <3>1. job' = [j \in JobIds |->
                    IF j \in RunningOn(p)
                    THEN [job[j] EXCEPT !.state = "stalled", !.pc = "idle", !.proc = NoProc]
                    ELSE job[j]]
      BY <1>6 DEF Crash
    <3>2. \A j \in JobIds : job[j] \in Job
      BY DEF TypeOK
    <3> QED
      BY <3>1, <3>2, <2>3
  <2>5. IdleTick \in Tick
    BY DunningAssumption DEF IdleTick, Tick, Time
  <2>6. tick' \in [Ticks -> Tick]
    BY <1>6, <2>5 DEF Crash, TypeOK
  <2>7. faults' \in 0..MaxFaults
    <3>1. faults \in 0..MaxFaults /\ faults < MaxFaults /\ faults' = faults + 1
      BY <1>6 DEF Crash, TypeOK
    <3> QED
      BY <3>1, DunningAssumption
  <2>8. /\ success' \in [Successes -> {"idle", "update", "done", "lost"}]
        /\ edit' \in [Edits -> {"idle", "write", "done", "lost"}]
    BY <1>6 DEF Crash, TypeOK
  <2> QED
    BY <1>6, <2>2, <2>4, <2>6, <2>7, <2>8 DEF Crash, TypeOK
<1> QED
  BY <1>1, <1>2, <1>3, <1>4, <1>5, <1>6

LEMMA TypeStep == ASSUME IInv, [Next]_vars PROVE TypeOK'
<1>0. TypeOK /\ \A f \in Failures : FailureOK(f)
  BY DEF IInv
<1>1. CASE UNCHANGED vars
  BY <1>0, <1>1 DEF vars, TypeOK
<1>2. CASE \E f \in Failures : UpsertPayment(f) \/ FailureStep(f) \/ AddStepFails(f)
  BY <1>0, <1>2, TypeFailure
<1>3. CASE \E j \in JobIds : JobStep(j) \/ JobFails(j)
  BY <1>0, <1>3, TypeJob
<1>4. CASE \E r \in Ticks : TickStep(r) \/ FireRetryFails(r)
  BY <1>0, <1>4, TypeTick
<1>5. CASE \/ AdvanceClock
           \/ \E s \in Successes : FindPaid(s) \/ MarkRecovered(s)
           \/ \E e \in Edits : BeginEdit(e) \/ WriteSequence(e)
           \/ \E p \in Procs : Crash(p)
  BY <1>0, <1>5, TypeRest
<1> QED
  BY <1>1, <1>2, <1>3, <1>4, <1>5 DEF Next

-----------------------------------------------------------------------------
\* What a step may do to the queue, to the messages and to their records.

\* A step that leaves all jobs, messages and attempts alone.
QueueAlone == UNCHANGED <<job, sent, attempt>>

\* A step that does at most dunningQueue.add.
QueueAdds ==
  /\ UNCHANGED <<sent, attempt>>
  /\ \A x \in JobIds :
       \/ job'[x] = job[x]
       \/ /\ job[x].state = "none" /\ job'[x].state \in {"waiting", "delayed"}
          /\ job'[x].pc = "idle" /\ job'[x].stalls = 0

\* Every step is of one of four kinds.
LEMMA FailureQueue ==
  ASSUME TypeOK, NEW f \in Failures, UpsertPayment(f) \/ FailureStep(f) \/ AddStepFails(f),
         FailureOK(f)
  PROVE  JobsKept /\ QueueAdds
<1>1. CASE AddStep(f)
  <2>1. failure[f].k \in DOMAIN failure[f].steps
    BY <1>1 DEF AddStep, FailureOK
  <2>2. UNCHANGED <<sent, attempt>>
    BY <1>1 DEF AddStep
  <2> QED
    BY <1>1, <2>1, <2>2, StepIsJob, AddEffect DEF AddStep, QueueAdds
<1>2. CASE ~ AddStep(f)
  <2>1. UNCHANGED <<job, sent, attempt>>
    BY <1>2 DEF UpsertPayment, FailureStep, ReadSequence, StampRetry, AddStepFails
  <2> QED
    BY <2>1 DEF QueueAdds, JobsKept
<1> QED
  BY <1>1, <1>2

LEMMA TickQueue ==
  ASSUME TypeOK, NEW r \in Ticks, TickStep(r) \/ FireRetryFails(r)
  PROVE  JobsKept /\ QueueAdds
<1>1. ASSUME NEW i \in Invoices, FireRetry(r, i) PROVE JobsKept /\ QueueAdds
  <2>1. tick[r].now \in Time
    BY DEF TypeOK, Tick
  <2>2. 0 \in Nat
    OBVIOUS
  <2>3. UNCHANGED <<sent, attempt>> /\ job' = Add(SchedulerJob(i, tick[r].now), "none", 0)
    BY <1>1 DEF FireRetry
  <2> QED
    BY <2>1, <2>2, <2>3, SchedulerIsJob, AddEffect DEF QueueAdds
<1>2. CASE ~ \E i \in Invoices : FireRetry(r, i)
  <2>1. UNCHANGED <<job, sent, attempt>>
    BY <1>2 DEF TickStep, StartTick, QueryOverdue, ClearRetry, FireRetryFails
  <2> QED
    BY <2>1 DEF QueueAdds, JobsKept
<1> QED
  BY <1>1, <1>2

\* The messages and attempts of other jobs, and what a step of a job does to its own.
LEMMA JobStepKinds ==
  ASSUME TypeOK, NEW j \in JobIds, JobStep(j) \/ JobFails(j), JobOK(j)
  PROVE  JobOK(j)'
<1>0. /\ job[j] \in Job /\ sent[j] \in Nat /\ attempt[j] \in Nat /\ job[j].stalls \in Nat
      /\ job \in [JobIds -> Job] /\ sent \in [JobIds -> Nat] /\ attempt \in [JobIds -> Nat]
  BY DunningAssumption DEF TypeOK, Job
<1> USE DEF JobOK, AttemptsMatch, HasSent
<1>1. CASE PromoteDelayed(j)
  BY <1>0, <1>1 DEF PromoteDelayed, Job
<1>2. ASSUME NEW p \in Procs, StartJob(j, p) PROVE JobOK(j)'
  BY <1>0, <1>2 DEF StartJob, Job
<1>3. CASE Render(j)
  <2>1. PICK text : job' = [job EXCEPT ![j].pc = "send", ![j].text = text]
    BY <1>3 DEF Render
  <2>2. job'[j].state = "active" /\ job'[j].pc = "send" /\ job'[j].stalls = job[j].stalls
    BY <1>0, <1>3, <2>1 DEF Render, Active, Job
  <2> QED
    BY <1>0, <1>3, <2>2 DEF Render, Active
<1>4. CASE SendMessage(j)
  BY <1>0, <1>4 DEF SendMessage, Active, Job
<1>5. CASE RecordAttempt(j)
  BY <1>0, <1>5 DEF RecordAttempt, Active, Job
<1>6. CASE FinishJob(j)
  BY <1>0, <1>6 DEF FinishJob, Active, Leave, Job
<1>7. CASE RequeueStalled(j)
  BY <1>0, <1>7 DEF RequeueStalled, Job
<1>8. CASE FailStalled(j)
  BY <1>0, <1>8 DEF FailStalled, Leave, Job
<1>9. CASE JobFails(j)
  BY <1>0, <1>9 DEF JobFails, Leave, Job
<1> QED
  BY <1>1, <1>2, <1>3, <1>4, <1>5, <1>6, <1>7, <1>8, <1>9 DEF JobStep

\* The invariant of a job through every kind of step.
LEMMA JobsStep == ASSUME IInv, [Next]_vars PROVE JobsKept /\ \A j \in JobIds : JobOK(j)'
<1>0. TypeOK /\ (\A f \in Failures : FailureOK(f)) /\ (\A j \in JobIds : JobOK(j))
  BY DEF IInv
<1>1. ASSUME QueueAdds PROVE \A j \in JobIds : JobOK(j)'
  <2> TAKE j \in JobIds
  <2>1. JobOK(j) /\ sent' = sent /\ attempt' = attempt /\ sent[j] \in Nat /\ attempt[j] \in Nat
    BY <1>0, <1>1 DEF QueueAdds, TypeOK
  <2>2. CASE job'[j] = job[j]
    BY <2>1, <2>2 DEF JobOK, AttemptsMatch, HasSent
  <2>3. CASE /\ job[j].state = "none" /\ job'[j].state \in {"waiting", "delayed"}
             /\ job'[j].pc = "idle" /\ job'[j].stalls = 0
    BY <2>1, <2>3 DEF JobOK, AttemptsMatch, HasSent
  <2> QED
    BY <1>1, <2>2, <2>3 DEF QueueAdds
<1>2. CASE UNCHANGED <<job, sent, attempt>>
  BY <1>1, <1>2 DEF QueueAdds, JobsKept
<1>3. CASE \E f \in Failures : UpsertPayment(f) \/ FailureStep(f) \/ AddStepFails(f)
  BY <1>0, <1>1, <1>3, FailureQueue
<1>4. CASE \E r \in Ticks : TickStep(r) \/ FireRetryFails(r)
  BY <1>0, <1>1, <1>4, TickQueue
<1>5. ASSUME NEW j \in JobIds, JobStep(j) \/ JobFails(j)
      PROVE  JobsKept /\ \A x \in JobIds : JobOK(x)'
  <2>1. PICK v \in Job : job' = [job EXCEPT ![j] = v] /\ v.state # "none"
    BY <1>0, <1>5, JobStepEffect
  <2>2. /\ \A x \in JobIds \ {j} : job'[x] = job[x]
        /\ job'[j] = v
    BY <1>0, <2>1 DEF TypeOK
  <2>3. sent' = sent \/ sent' = [sent EXCEPT ![j] = @ + 1]
    BY <1>5 DEF JobStep, JobFails, PromoteDelayed, StartJob, Render, SendMessage, RecordAttempt,
                FinishJob, RequeueStalled, FailStalled
  <2>4. attempt' = attempt \/ attempt' = [attempt EXCEPT ![j] = @ + 1]
    BY <1>5 DEF JobStep, JobFails, PromoteDelayed, StartJob, Render, SendMessage, RecordAttempt,
                FinishJob, RequeueStalled, FailStalled
  <2>5. \A x \in JobIds \ {j} : sent'[x] = sent[x] /\ attempt'[x] = attempt[x]
    BY <1>0, <2>3, <2>4 DEF TypeOK
  <2>6. \A x \in JobIds \ {j} : JobOK(x)'
    BY <1>0, <2>2, <2>5 DEF JobOK, AttemptsMatch, HasSent
  <2>7. JobOK(j)'
    BY <1>0, <1>5, JobStepKinds
  <2>8. JobsKept
    BY <2>1, <2>2 DEF JobsKept
  <2> QED
    BY <2>6, <2>7, <2>8
<1>6. ASSUME NEW p \in Procs, Crash(p) PROVE JobsKept /\ \A x \in JobIds : JobOK(x)'
  <2>1. /\ sent' = sent /\ attempt' = attempt
        /\ job' = [j \in JobIds |->
                     IF j \in RunningOn(p)
                     THEN [job[j] EXCEPT !.state = "stalled", !.pc = "idle", !.proc = NoProc]
                     ELSE job[j]]
    BY <1>6 DEF Crash
  <2>2. ASSUME NEW x \in JobIds
        PROVE  (job[x].state # "none" => job'[x].state # "none") /\ JobOK(x)'
    <3>1. JobOK(x) /\ job[x] \in Job /\ sent[x] \in Nat /\ attempt[x] \in Nat
      BY <1>0 DEF TypeOK
    <3>2. CASE x \in RunningOn(p)
      <4>1. /\ job'[x] = [job[x] EXCEPT !.state = "stalled", !.pc = "idle", !.proc = NoProc]
            /\ job[x].state = "active"
        BY <2>1, <3>2 DEF RunningOn
      <4>2. job'[x].state = "stalled" /\ job'[x].pc = "idle" /\ job'[x].stalls = job[x].stalls
        BY <3>1, <4>1 DEF Job
      <4>3. job[x].stalls \in Nat /\ job[x].pc # "idle"
        BY <3>1, <4>1, DunningAssumption DEF Job, JobOK
      <4>4. sent'[x] = sent[x] /\ attempt'[x] = attempt[x]
        BY <2>1
      <4>5. /\ sent[x] <= job[x].stalls + 1
            /\ attempt[x] <= sent[x] /\ sent[x] <= attempt[x] + job[x].stalls + 1
        BY <3>1, <4>3 DEF JobOK, AttemptsMatch
      <4> QED
        BY <4>2, <4>4, <4>5 DEF JobOK, AttemptsMatch, HasSent
    <3>3. CASE x \notin RunningOn(p)
      <4>1. job'[x] = job[x]
        BY <2>1, <3>3
      <4> QED
        BY <2>1, <3>1, <4>1 DEF JobOK, AttemptsMatch, HasSent
    <3> QED
      BY <3>2, <3>3
  <2> QED
    BY <2>2 DEF JobsKept
<1>7. CASE \/ AdvanceClock
           \/ \E s \in Successes : FindPaid(s) \/ MarkRecovered(s)
           \/ \E e \in Edits : BeginEdit(e) \/ WriteSequence(e)
  <2>1. UNCHANGED <<job, sent, attempt>>
    BY <1>7 DEF AdvanceClock, FindPaid, MarkRecovered, BeginEdit, WriteSequence
  <2> QED
    BY <1>2, <2>1
<1>8. CASE UNCHANGED vars
  BY <1>2, <1>8 DEF vars
<1> QED
  BY <1>3, <1>4, <1>5, <1>6, <1>7, <1>8 DEF Next

-----------------------------------------------------------------------------
\* What an ended or interrupted handler knows of the queue stays true.
LEMMA QueuedKept ==
  ASSUME TypeOK, JobsKept, NEW f \in Failures, NEW k \in DOMAIN failure[f].steps, Queued(f, k)
  PROVE  Queued(f, k)'
BY StepIsJob DEF JobsKept, Queued

\* The handler of f keeps its place.
LEMMA FailureIdle ==
  ASSUME TypeOK, JobsKept, NEW f \in Failures, FailureOK(f), failure'[f] = failure[f]
  PROVE  FailureOK(f)'
<1>1. ASSUME NEW k \in DOMAIN failure[f].steps, Queued(f, k) PROVE Queued(f, k)'
  BY <1>1, QueuedKept
<1>2. failure[f].pc = "stamp" => 1 \in DOMAIN failure[f].steps
  BY DEF FailureOK
<1> QED
  BY <1>1, <1>2 DEF FailureOK

\* The handler of f goes on, fails or dies.
LEMMA FailureGoesOn ==
  ASSUME TypeOK, JobsKept, NEW f \in Failures, FailureOK(f),
         UpsertPayment(f) \/ FailureStep(f) \/ AddStepFails(f)
  PROVE  FailureOK(f)'
<1>0. /\ failure \in [Failures -> Failure] /\ failure[f] \in Failure
      /\ failure[f].k \in Nat \ {0}
  BY DEF TypeOK, Failure
<1>1. ASSUME NEW k \in DOMAIN failure[f].steps, Queued(f, k) PROVE Queued(f, k)'
  BY <1>1, QueuedKept
<1>2. CASE UpsertPayment(f)
  <2>1. failure'[f].pc = "plan" /\ failure'[f].steps = <<>> /\ failure'[f].k = 1
    BY <1>0, <1>2 DEF UpsertPayment, FailureOK, Failure
  <2> QED
    BY <2>1 DEF FailureOK
<1>3. CASE ReadSequence(f)
  <2>0. failure[f].steps = <<>> /\ failure[f].k = 1
    BY <1>3 DEF ReadSequence, FailureOK
  <2>1. CASE failure' = [failure EXCEPT ![f].pc = "done"]
    <3>1. failure'[f].pc = "done" /\ failure'[f].steps = <<>>
      BY <1>0, <2>0, <2>1 DEF Failure
    <3> QED
      BY <3>1 DEF FailureOK
  <2>2. CASE \E s \in SeqIds :
               failure' = [failure EXCEPT
                 ![f] = [@ EXCEPT !.pc = IF sequence[s].steps = <<>> THEN "done" ELSE "add",
                                  !.steps = sequence[s].steps]]
    <3>1. PICK s \in SeqIds :
               failure' = [failure EXCEPT
                 ![f] = [@ EXCEPT !.pc = IF sequence[s].steps = <<>> THEN "done" ELSE "add",
                                  !.steps = sequence[s].steps]]
      BY <2>2
    <3>2. sequence[s].steps \in StepLists \cup {<<>>}
      BY DEF TypeOK, SequenceRow
    <3> DEFINE v == [failure[f] EXCEPT !.pc = IF sequence[s].steps = <<>> THEN "done" ELSE "add",
                                       !.steps = sequence[s].steps]
    <3>3. /\ v.pc = IF sequence[s].steps = <<>> THEN "done" ELSE "add"
          /\ v.steps = sequence[s].steps /\ v.k = 1
      BY <1>0, <2>0 DEF Failure
    <3>4. failure'[f] = v
      BY <1>0, <3>1
    <3> HIDE DEF v
    <3>5. CASE sequence[s].steps = <<>>
      <4>1. failure'[f].pc = "done" /\ failure'[f].steps = <<>>
        BY <3>3, <3>4, <3>5
      <4> QED
        BY <4>1 DEF FailureOK
    <3>6. CASE sequence[s].steps # <<>>
      <4>1. sequence[s].steps \in Seq(Step)
        BY <3>2, <3>6, DunningAssumption
      <4>2. 1 \in DOMAIN sequence[s].steps
        BY <3>6, <4>1
      <4>3. \A k \in DOMAIN sequence[s].steps : ~ (k < 1)
        BY <4>1
      <4> QED
        BY <3>3, <3>4, <3>6, <4>2, <4>3 DEF FailureOK
    <3> QED
      BY <3>5, <3>6
  <2> QED
    BY <1>3, <2>1, <2>2 DEF ReadSequence, Defaults
<1>4. ASSUME failure' = AfterStep(f), failure[f].k \in DOMAIN failure[f].steps,
             \A k \in DOMAIN failure[f].steps : k <= failure[f].k => Queued(f, k)'
      PROVE  FailureOK(f)'
  <2>1. failure[f].steps \in Seq(Step)
    BY <1>4, StepIsJob
  <2>2. CASE failure[f].k < Len(failure[f].steps)
    <3> DEFINE u == [failure[f] EXCEPT !.pc = "add", !.k = @ + 1]
    <3>1. failure' = [failure EXCEPT ![f] = u]
      BY <1>4, <2>2 DEF AfterStep
    <3>2. u.pc = "add" /\ u.k = failure[f].k + 1 /\ u.steps = failure[f].steps
      BY <1>0 DEF Failure
    <3>3. failure'[f] = u
      BY <1>0, <3>1
    <3> HIDE DEF u
    <3>4. failure[f].k + 1 \in DOMAIN failure[f].steps
      BY <1>0, <2>1, <2>2
    <3>5. \A k \in DOMAIN failure[f].steps : k < failure[f].k + 1 => k <= failure[f].k
      BY <1>0, <2>1
    <3> QED
      BY <1>4, <3>2, <3>3, <3>4, <3>5 DEF FailureOK
  <2>3. CASE ~ (failure[f].k < Len(failure[f].steps))
    <3>1. failure' = [failure EXCEPT ![f].pc = "done"]
      BY <1>4, <2>3 DEF AfterStep
    <3>2. failure'[f].pc = "done" /\ failure'[f].steps = failure[f].steps
      BY <1>0, <3>1 DEF Failure
    <3>3. \A k \in DOMAIN failure[f].steps : k <= failure[f].k
      BY <1>0, <2>1, <2>3
    <3> QED
      BY <1>4, <3>2, <3>3 DEF FailureOK
  <2> QED
    BY <2>2, <2>3
<1>5. CASE AddStep(f)
  <2>1. /\ failure[f].k \in DOMAIN failure[f].steps
        /\ \A k \in DOMAIN failure[f].steps : k < failure[f].k => Queued(f, k)
    BY <1>5 DEF AddStep, FailureOK
  <2>2. job'[StepJob(FailedInvoice[f], failure[f].k)].state # "none"
    <3> DEFINE j == StepJob(FailedInvoice[f], failure[f].k)
               step == failure[f].steps[failure[f].k]
    <3>1. j \in JobIds /\ step.delay \in Nat /\ step.channel \in Channels
      BY <2>1, StepIsJob
    <3>2. job' = Add(j, step.channel, step.delay)
      BY <1>5 DEF AddStep
    <3> HIDE DEF j, step
    <3>3. job'[j].state # "none"
      BY <3>1, <3>2, AddEffect
    <3> QED
      BY <3>3 DEF j
  <2>3. failure[f].steps \in Seq(Step)
    BY <2>1, StepIsJob
  <2>4. ASSUME NEW k \in DOMAIN failure[f].steps, k <= failure[f].k PROVE Queued(f, k)'
    <3>1. CASE k < failure[f].k
      BY <1>1, <2>1, <3>1
    <3>2. CASE ~ (k < failure[f].k)
      <4>1. k = failure[f].k
        BY <1>0, <2>3, <2>4, <3>2
      <4> QED
        BY <2>2, <4>1 DEF Queued
    <3> QED
      BY <3>1, <3>2
  <2>5. CASE failure[f].k = 1
    <3>1. failure' = [failure EXCEPT ![f].pc = "stamp"]
      BY <1>5, <2>5 DEF AddStep
    <3>2. failure'[f].pc = "stamp" /\ failure'[f].k = 1 /\ failure'[f].steps = failure[f].steps
      BY <1>0, <2>5, <3>1 DEF Failure
    <3>3. Queued(f, 1)'
      BY <2>1, <2>4, <2>5
    <3> QED
      BY <2>1, <2>5, <3>2, <3>3 DEF FailureOK
  <2>6. CASE failure[f].k # 1
    BY <1>4, <1>5, <2>1, <2>4, <2>6 DEF AddStep
  <2> QED
    BY <2>5, <2>6
<1>6. CASE StampRetry(f)
  <2>1. failure[f].k = 1 /\ Queued(f, 1) /\ 1 \in DOMAIN failure[f].steps
    BY <1>6 DEF StampRetry, FailureOK
  <2>2. failure[f].steps \in Seq(Step)
    BY <2>1, StepIsJob
  <2>3. Queued(f, 1)'
    BY <1>1, <2>1
  <2>4. \A k \in DOMAIN failure[f].steps : k <= failure[f].k => Queued(f, k)'
    <3>1. \A k \in DOMAIN failure[f].steps : k <= 1 => k = 1
      BY <2>2
    <3> QED
      BY <2>1, <2>3, <3>1
  <2> QED
    BY <1>4, <1>6, <2>1, <2>4 DEF StampRetry
<1>7. CASE AddStepFails(f)
  <2>1. failure'[f].pc = "lost"
    BY <1>0, <1>7 DEF AddStepFails, Failure
  <2> QED
    BY <2>1 DEF FailureOK
<1> QED
  BY <1>2, <1>3, <1>5, <1>6, <1>7 DEF FailureStep

LEMMA FailuresStep ==
  ASSUME IInv, [Next]_vars, JobsKept PROVE \A f \in Failures : FailureOK(f)'
<1>0. TypeOK /\ \A f \in Failures : FailureOK(f)
  BY DEF IInv
<1>1. ASSUME failure' = failure PROVE \A f \in Failures : FailureOK(f)'
  BY <1>0, <1>1, FailureIdle
<1>2. ASSUME NEW f \in Failures, UpsertPayment(f) \/ FailureStep(f) \/ AddStepFails(f)
      PROVE  \A g \in Failures : FailureOK(g)'
  <2>1. FailureOK(f)'
    BY <1>0, <1>2, FailureGoesOn
  <2>2. \A g \in Failures \ {f} : failure'[g] = failure[g]
    BY <1>0, <1>2 DEF UpsertPayment, FailureStep, ReadSequence, AddStep, StampRetry, AddStepFails,
                      AfterStep, TypeOK
  <2>3. \A g \in Failures \ {f} : FailureOK(g)'
    BY <1>0, <2>2, FailureIdle
  <2> QED
    BY <2>1, <2>3
<1>3. ASSUME NEW p \in Procs, Crash(p) PROVE \A g \in Failures : FailureOK(g)'
  <2> TAKE g \in Failures
  <2>1. failure[g] \in Failure
    BY <1>0 DEF TypeOK
  <2>2. \/ failure'[g] = failure[g]
        \/ failure'[g] = [failure[g] EXCEPT !.pc = "lost"]
    BY <1>3 DEF Crash
  <2>3. CASE failure'[g] = failure[g]
    BY <1>0, <2>3, FailureIdle
  <2>4. CASE failure'[g] = [failure[g] EXCEPT !.pc = "lost"]
    <3>1. failure'[g].pc = "lost"
      BY <2>1, <2>4 DEF Failure
    <3> QED
      BY <3>1 DEF FailureOK
  <2> QED
    BY <2>2, <2>3, <2>4
<1>4. CASE \/ AdvanceClock
           \/ \E s \in Successes : FindPaid(s) \/ MarkRecovered(s)
           \/ \E e \in Edits : BeginEdit(e) \/ WriteSequence(e)
  <2>1. failure' = failure
    BY <1>4 DEF AdvanceClock, FindPaid, MarkRecovered, BeginEdit, WriteSequence
  <2> QED
    BY <1>1, <2>1
<1>5. CASE \E j \in JobIds : JobStep(j) \/ JobFails(j)
  <2>1. failure' = failure
    BY <1>0, <1>5, JobStepEffect
  <2> QED
    BY <1>1, <2>1
<1>6. CASE \E r \in Ticks : TickStep(r) \/ FireRetryFails(r)
  <2>1. failure' = failure
    BY <1>6 DEF TickStep, FireRetryFails, StartTick, QueryOverdue, FireRetry, ClearRetry
  <2> QED
    BY <1>1, <2>1
<1>7. CASE UNCHANGED vars
  <2>1. failure' = failure
    BY <1>7 DEF vars
  <2> QED
    BY <1>1, <2>1
<1> QED
  BY <1>2, <1>3, <1>4, <1>5, <1>6, <1>7 DEF Next

-----------------------------------------------------------------------------
\* Only StampRetry gives a payment a due time, once its first step is queued.
LEMMA RetriesStep ==
  ASSUME IInv, [Next]_vars, JobsKept PROVE \A i \in Invoices : RetryOK(i)'
<1>0. TypeOK /\ (\A f \in Failures : FailureOK(f)) /\ (\A i \in Invoices : RetryOK(i))
  BY DEF IInv
<1>1. ASSUME NEW i \in Invoices, payment'[i].nextRetryAt \in {payment[i].nextRetryAt, Never}
      PROVE  RetryOK(i)'
  <2>1. 1 \in StepIndex => StepJob(i, 1) \in JobIds
    BY DEF StepJob, JobIds
  <2> QED
    BY <1>0, <1>1, <2>1 DEF RetryOK, JobsKept
<1>2. ASSUME NEW f \in Failures, StampRetry(f) PROVE \A i \in Invoices : RetryOK(i)'
  <2>1. Queued(f, 1) /\ 1 \in DOMAIN failure[f].steps
    BY <1>0, <1>2 DEF StampRetry, FailureOK
  <2>2. StepJob(FailedInvoice[f], 1) \in JobIds
    BY <1>0, <2>1, StepIsJob
  <2>3. 1 \in StepIndex
    BY <2>2 DEF StepJob, JobIds
  <2>4. RetryOK(FailedInvoice[f])'
    BY <2>1, <2>2, <2>3 DEF RetryOK, Queued, JobsKept
  <2>5. \A i \in Invoices \ {FailedInvoice[f]} : payment'[i] = payment[i]
    BY <1>0, <1>2 DEF StampRetry, TypeOK
  <2>6. \A i \in Invoices \ {FailedInvoice[f]} : RetryOK(i)'
    BY <1>1, <2>5
  <2> QED
    BY <2>4, <2>6
<1>3. ASSUME payment' = payment PROVE \A i \in Invoices : RetryOK(i)'
  BY <1>1, <1>3
<1>4. ASSUME NEW f \in Failures, UpsertPayment(f) PROVE \A i \in Invoices : RetryOK(i)'
  <2>1. \A i \in Invoices : payment[i] \in Payment
    BY <1>0 DEF TypeOK
  <2>2. ASSUME NEW i \in Invoices PROVE payment'[i].nextRetryAt \in {payment[i].nextRetryAt, Never}
    <3>1. CASE i # FailedInvoice[f]
      BY <1>0, <1>4, <3>1 DEF UpsertPayment, TypeOK
    <3>2. CASE i = FailedInvoice[f] /\ payment[i].status = "ABSENT"
      BY <1>0, <1>4, <3>2 DEF UpsertPayment, TypeOK
    <3>3. CASE i = FailedInvoice[f] /\ payment[i].status # "ABSENT"
      <4>1. payment' = [payment EXCEPT ![i].status = "RECOVERING", ![i].retryCount = @ + 1]
        BY <1>4, <3>3 DEF UpsertPayment
      <4> QED
        BY <1>0, <2>1, <4>1 DEF TypeOK, Payment
    <3> QED
      BY <3>1, <3>2, <3>3
  <2> QED
    BY <1>1, <2>2
<1>5. ASSUME NEW s \in Successes, MarkRecovered(s) PROVE \A i \in Invoices : RetryOK(i)'
  <2>1. \A i \in Invoices : payment'[i].nextRetryAt = payment[i].nextRetryAt
    BY <1>0, <1>5 DEF MarkRecovered, TypeOK, Payment
  <2> QED
    BY <1>1, <2>1
<1>6. ASSUME NEW r \in Ticks, ClearRetry(r) PROVE \A i \in Invoices : RetryOK(i)'
  <2>1. \A i \in Invoices : payment'[i].nextRetryAt \in {payment[i].nextRetryAt, Never}
    BY <1>0, <1>6 DEF ClearRetry, TypeOK, Payment
  <2> QED
    BY <1>1, <2>1
<1>7. CASE \E f \in Failures : UpsertPayment(f) \/ FailureStep(f) \/ AddStepFails(f)
  <2>1. PICK f \in Failures : UpsertPayment(f) \/ FailureStep(f) \/ AddStepFails(f)
    BY <1>7
  <2>2. CASE ReadSequence(f) \/ AddStep(f) \/ AddStepFails(f)
    <3>1. payment' = payment
      BY <2>2 DEF ReadSequence, AddStep, AddStepFails
    <3> QED
      BY <1>3, <3>1
  <2> QED
    BY <1>2, <1>4, <2>1, <2>2 DEF FailureStep
<1>8. CASE \E r \in Ticks : TickStep(r) \/ FireRetryFails(r)
  <2>1. PICK r \in Ticks : TickStep(r) \/ FireRetryFails(r)
    BY <1>8
  <2>2. CASE ~ ClearRetry(r)
    <3>1. payment' = payment
      BY <2>1, <2>2 DEF TickStep, FireRetryFails, StartTick, QueryOverdue, FireRetry
    <3> QED
      BY <1>3, <3>1
  <2> QED
    BY <1>6, <2>2
<1>9. CASE \E j \in JobIds : JobStep(j) \/ JobFails(j)
  <2>1. payment' = payment
    BY <1>0, <1>9, JobStepEffect
  <2> QED
    BY <1>3, <2>1
<1>10. CASE \/ AdvanceClock
            \/ \E s \in Successes : FindPaid(s)
            \/ \E e \in Edits : BeginEdit(e) \/ WriteSequence(e)
            \/ \E p \in Procs : Crash(p)
            \/ UNCHANGED vars
  <2>1. payment' = payment
    BY <1>10 DEF AdvanceClock, FindPaid, BeginEdit, WriteSequence, Crash, vars
  <2> QED
    BY <1>3, <2>1
<1> QED
  BY <1>5, <1>7, <1>8, <1>9, <1>10 DEF Next

-----------------------------------------------------------------------------
LEMMA InitInvariant == Init => IInv
<1> SUFFICES ASSUME Init PROVE IInv
  OBVIOUS
<1>1. TypeOK
  BY TypeInit
<1>2. \A f \in Failures : FailureOK(f)
  BY DEF Init, FailureOK
<1>3. \A j \in JobIds : JobOK(j)
  BY DEF Init, NewJob, JobOK, AttemptsMatch, HasSent
<1>4. \A i \in Invoices : RetryOK(i)
  BY DEF Init, RetryOK
<1> QED
  BY <1>1, <1>2, <1>3, <1>4 DEF IInv

(* The inductive invariant of dunning: through all interleavings, crashes and
   failing calls the progress of the handlers of payment_failed and of the
   workers agrees with the queue, the messages and the due times. *)
THEOREM Invariance == Spec => []IInv
<1>1. Init => IInv
  BY InitInvariant
<1>2. IInv /\ [Next]_vars => IInv'
  <2> SUFFICES ASSUME IInv, [Next]_vars PROVE IInv'
    OBVIOUS
  <2>1. TypeOK'
    BY TypeStep
  <2>2. JobsKept /\ \A j \in JobIds : JobOK(j)'
    BY JobsStep
  <2>3. \A f \in Failures : FailureOK(f)'
    BY <2>2, FailuresStep
  <2>4. \A i \in Invoices : RetryOK(i)'
    BY <2>2, RetriesStep
  <2>5. (\A j \in JobIds : JobOK(j))'
    BY <2>2
  <2> QED
    BY <2>1, <2>3, <2>4, <2>5 DEF IInv
<1> QED
  BY <1>1, <1>2, PTL DEF Spec

(* The rows, jobs, handlers and runs of the scheduler keep their types. *)
THEOREM TypeCorrect == Spec => []TypeOK
<1>1. IInv => TypeOK
  BY DEF IInv
<1> QED
  BY <1>1, Invariance, PTL

(* A message goes out again only for a job found stalled: payment_failed events
   that repeat, overlap or fail half-way (service.ts:28-103), and any number of
   scheduler runs, never repeat one. *)
THEOREM NoMessageRepeated == Spec => []MessagesNotRepeated
<1>1. IInv => MessagesNotRepeated
  <2> SUFFICES ASSUME IInv, NEW j \in JobIds PROVE sent[j] <= 1 + job[j].stalls
    BY DEF MessagesNotRepeated
  <2>1. JobOK(j) /\ job[j] \in Job /\ sent[j] \in Nat
    BY DEF IInv, TypeOK
  <2>2. job[j].stalls \in Nat
    BY <2>1, DunningAssumption DEF Job
  <2> QED
    BY <2>1, <2>2 DEF JobOK
<1> QED
  BY <1>1, Invariance, PTL

(* RecoveryAttempt rows are the history of the messages, up to the one message a
   dying or failing run may leave without its row. *)
THEOREM AttemptsAreHistory == Spec => []AttemptsMatchMessages
<1>1. IInv => AttemptsMatchMessages
  BY DEF IInv, JobOK, AttemptsMatchMessages
<1> QED
  BY <1>1, Invariance, PTL

(* A due time is only ever on a payment whose first step is queued, so the
   scheduler never chases a payment nobody planned for. *)
THEOREM DueIsPlanned == Spec => []RetryHasJob
<1>1. IInv => RetryHasJob
  BY DEF IInv, RetryOK, RetryHasJob
<1> QED
  BY <1>1, Invariance, PTL

(* A handler of payment_failed that has ended has queued the whole sequence it
   read, or an earlier event had. *)
THEOREM WholeSequenceQueued == Spec => []DoneIsScheduled
<1>1. IInv => DoneIsScheduled
  BY DEF IInv, FailureOK, DoneIsScheduled
<1> QED
  BY <1>1, Invariance, PTL
-----------------------------------------------------------------------------
\* Whose text an e-mail carries.

\* dunningQueue.add makes jobs without a text.
LEMMA AddText ==
  ASSUME TypeOK, NEW j, NEW c, NEW d, job' = Add(j, c, d)
  PROVE  \A x \in JobIds : job'[x].text \in {job[x].text, "none"}
<1> DEFINE new == [NewJob EXCEPT !.state = IF d = 0 THEN "waiting" ELSE "delayed",
                                 !.due = Later(now, d), !.channel = c]
<1>1. new.text = "none"
  BY DEF NewJob
<1>2. job' = job \/ job' = [job EXCEPT ![j] = new]
  BY DEF Add
<1>3. job \in [JobIds -> Job]
  BY DEF TypeOK
<1> HIDE DEF new
<1> QED
  BY <1>1, <1>2, <1>3

\* A step of a job leaves all texts alone, but for the one that renders it.
LEMMA JobStepText ==
  ASSUME TypeOK, NEW j \in JobIds, JobStep(j) \/ JobFails(j)
  PROVE  \A x \in JobIds :
           job'[x].text = job[x].text \/ (x = j /\ job'[x].text \in Texts(j) \cup {"none"})
<1>1. job \in [JobIds -> Job]
  BY DEF TypeOK
<1>2. CASE Render(j)
  <2>1. PICK text : /\ text \in IF IsEmail(j) THEN Texts(j) ELSE {"none"}
                    /\ job' = [job EXCEPT ![j].pc = "send", ![j].text = text]
    BY <1>2 DEF Render
  <2>2. text \in Texts(j) \cup {"none"}
    BY <2>1
  <2>3. job'[j].text = text /\ \A x \in JobIds \ {j} : job'[x] = job[x]
    BY <1>1, <2>1 DEF Job
  <2> QED
    BY <2>2, <2>3
<1>3. CASE ~ Render(j)
  BY <1>1, <1>3 DEF JobStep, JobFails, PromoteDelayed, StartJob, SendMessage, RecordAttempt,
     FinishJob, RequeueStalled, FailStalled, Leave, Job
<1> QED
  BY <1>2, <1>3

\* An e-mail is rendered from a sequence of the customer's merchant or a notice.
LEMMA TextsAreOwn ==
  ASSUME NEW j \in JobIds, NEW text \in Texts(j), text \in SeqIds
  PROVE  TenantOf[text] = TenantOf[j.invoice]
<1>1. \A k : Notice(k) \in Notices
  BY DEF Notice, Notices
<1>2. text \notin Notices
  BY TextAssumption
<1> QED
  BY <1>1, <1>2 DEF Texts, EmailContent, Defaults

LEMMA TextStep ==
  ASSUME TypeOK, OwnTenantsText, [Next]_vars PROVE OwnTenantsText'
<1>1. ASSUME \A x \in JobIds : job'[x].text \in {job[x].text, "none"} PROVE OwnTenantsText'
  BY <1>1, TextAssumption DEF OwnTenantsText
<1>2. CASE \E f \in Failures : UpsertPayment(f) \/ FailureStep(f) \/ AddStepFails(f)
  <2>1. job' = job \/ \E j, c, d : job' = Add(j, c, d)
    BY <1>2 DEF UpsertPayment, FailureStep, ReadSequence, AddStep, StampRetry, AddStepFails
  <2> QED
    BY <1>1, <2>1, AddText
<1>3. CASE \E r \in Ticks : TickStep(r) \/ FireRetryFails(r)
  <2>1. job' = job \/ \E j, c, d : job' = Add(j, c, d)
    BY <1>3 DEF TickStep, StartTick, QueryOverdue, FireRetry, ClearRetry, FireRetryFails
  <2> QED
    BY <1>1, <2>1, AddText
<1>4. ASSUME NEW j \in JobIds, JobStep(j) \/ JobFails(j) PROVE OwnTenantsText'
  <2> SUFFICES ASSUME NEW x \in JobIds, job'[x].text \in SeqIds
               PROVE  TenantOf[job'[x].text] = TenantOf[x.invoice]
    BY DEF OwnTenantsText
  <2>1. job'[x].text # "none"
    BY TextAssumption
  <2>2. job'[x].text = job[x].text \/ (x = j /\ job'[x].text \in Texts(j))
    BY <1>4, <2>1, JobStepText
  <2> QED
    BY <2>2, TextsAreOwn DEF OwnTenantsText
<1>5. ASSUME NEW p \in Procs, Crash(p) PROVE OwnTenantsText'
  <2>1. job \in [JobIds -> Job]
    BY DEF TypeOK
  <2>2. \A x \in JobIds : job'[x].text = job[x].text
    BY <1>5, <2>1 DEF Crash, Job
  <2> QED
    BY <1>1, <2>2
<1>6. CASE \/ AdvanceClock
           \/ \E s \in Successes : FindPaid(s) \/ MarkRecovered(s)
           \/ \E e \in Edits : BeginEdit(e) \/ WriteSequence(e)
           \/ UNCHANGED vars
  <2>1. job' = job
    BY <1>6 DEF AdvanceClock, FindPaid, MarkRecovered, BeginEdit, WriteSequence, vars
  <2> QED
    BY <1>1, <2>1
<1> QED
  BY <1>2, <1>3, <1>4, <1>5, <1>6 DEF Next

(* No customer reads the text of another merchant: the sequence an e-mail is
   rendered from (service.ts:190) is looked up by the tenant of the payment,
   whatever edits happen between the planning of a job and its run. *)
THEOREM TextIsOwn == Spec => []OwnTenantsText
<1>1. Init => OwnTenantsText
  BY TextAssumption DEF Init, NewJob, OwnTenantsText
<1>2. IInv /\ OwnTenantsText /\ [Next]_vars => OwnTenantsText'
  BY TextStep DEF IInv
<1> QED
  BY <1>1, <1>2, Invariance, PTL DEF Spec

-----------------------------------------------------------------------------
\* The default sequence of a tenant.

\* An edit that excuses a tenant from having a default.
Excused(e) ==
  \/ Dto[e].isDefault = "yes" /\ edit[e] \in {"write", "lost"}
  \/ Dto[e].isDefault = "no" /\ edit[e] # "idle"

HasDefault(t) ==
  Defaults(t) # {} \/ \E e \in Edits : TenantOf[Dto[e].id] = t /\ Excused(e)

LEMMA DefaultIsExcused ==
  DefaultKept <=> \A s \in SeqIds : InitialSequences[s].exists /\ InitialSequences[s].isDefault
                                      => HasDefault(TenantOf[s])
BY DEF DefaultKept, HasDefault, Excused

\* The rows are only written by the two writes of an edit.
LEMMA SequenceWriters ==
  ASSUME [Next]_vars
  PROVE  \/ \E e \in Edits : BeginEdit(e) \/ WriteSequence(e)
         \/ /\ sequence' = sequence
            /\ \A e \in Edits : Excused(e) => Excused(e)'
<1>1. CASE \E p \in Procs : Crash(p)
  <2>1. \A e \in Edits : edit'[e] = IF edit[e] = "write" /\ edit'[e] # "write" THEN "lost" ELSE edit[e]
    BY <1>1 DEF Crash
  <2> QED
    BY <1>1, <2>1 DEF Crash, Excused
<1>2. CASE \/ AdvanceClock
           \/ \E f \in Failures : UpsertPayment(f) \/ FailureStep(f) \/ AddStepFails(f)
           \/ \E s \in Successes : FindPaid(s) \/ MarkRecovered(s)
           \/ \E j \in JobIds : JobStep(j) \/ JobFails(j)
           \/ \E r \in Ticks : TickStep(r) \/ FireRetryFails(r)
           \/ UNCHANGED vars
  <2>1. UNCHANGED <<sequence, edit>>
    <3>1. CASE \E j \in JobIds : JobStep(j) \/ JobFails(j)
      BY <3>1 DEF JobStep, JobFails, PromoteDelayed, StartJob, Render, SendMessage,
         RecordAttempt, FinishJob, RequeueStalled, FailStalled
    <3>2. CASE \E r \in Ticks : TickStep(r) \/ FireRetryFails(r)
      BY <3>2 DEF TickStep, StartTick, QueryOverdue, FireRetry, ClearRetry, FireRetryFails
    <3>3. CASE \E f \in Failures : UpsertPayment(f) \/ FailureStep(f) \/ AddStepFails(f)
      BY <3>3 DEF UpsertPayment, FailureStep, ReadSequence, AddStep, StampRetry, AddStepFails
    <3> QED
      BY <1>2, <3>1, <3>2, <3>3 DEF AdvanceClock, FindPaid, MarkRecovered, vars
  <2> QED
    BY <2>1 DEF Excused
<1> QED
  BY <1>1, <1>2 DEF Next

LEMMA DefaultStep ==
  ASSUME TypeOK, NEW t, HasDefault(t), [Next]_vars PROVE HasDefault(t)'
<1>0. /\ sequence \in [SeqIds -> SequenceRow]
      /\ edit \in [Edits -> {"idle", "write", "done", "lost"}]
      /\ \A e \in Edits : Dto[e].id \in SeqIds /\ Dto[e].isDefault \in {"yes", "no", "keep"}
  BY DunningAssumption DEF TypeOK, EditDto
<1>1. ASSUME sequence' = sequence, \A e \in Edits : Excused(e) => Excused(e)'
      PROVE  HasDefault(t)'
  BY <1>1 DEF HasDefault, Defaults
<1>2. ASSUME NEW e \in Edits, BeginEdit(e) PROVE HasDefault(t)'
  <2>1. edit[e] = "idle" /\ edit'[e] = "write" /\ \A x \in Edits \ {e} : edit'[x] = edit[x]
    BY <1>0, <1>2 DEF BeginEdit
  <2>2. \A x \in Edits : Excused(x) => Excused(x)'
    BY <1>0, <2>1 DEF Excused
  <2>3. CASE TenantOf[Dto[e].id] = t /\ Dto[e].isDefault = "yes"
    <3>1. Excused(e)'
      BY <2>1, <2>3 DEF Excused
    <3> QED
      BY <2>3, <3>1 DEF HasDefault
  <2>4. CASE ~ (TenantOf[Dto[e].id] = t /\ Dto[e].isDefault = "yes")
    <3>1. \A s \in SeqIds : TenantOf[s] = t => sequence'[s] = sequence[s]
      BY <1>2, <2>4 DEF BeginEdit, UnsetDefaults, Defaults
    <3>2. Defaults(t)' = Defaults(t)
      BY <3>1 DEF Defaults
    <3> QED
      BY <2>2, <3>2 DEF HasDefault
  <2> QED
    BY <2>3, <2>4
<1>3. ASSUME NEW e \in Edits, WriteSequence(e) PROVE HasDefault(t)'
  <2>1. edit[e] = "write" /\ edit'[e] = "done" /\ \A x \in Edits \ {e} : edit'[x] = edit[x]
    BY <1>0, <1>3 DEF WriteSequence
  <2>2. \A s \in SeqIds \ {Dto[e].id} : sequence'[s] = sequence[s]
    BY <1>0, <1>3 DEF WriteSequence
  <2>3. /\ sequence'[Dto[e].id].exists
        /\ sequence'[Dto[e].id].isDefault <=>
             \/ Dto[e].isDefault = "yes"
             \/ Dto[e].isDefault = "keep" /\ sequence[Dto[e].id].isDefault
    BY <1>0, <1>3 DEF WriteSequence
  <2>4. CASE Dto[e].isDefault = "no"
    <3>1. \A x \in Edits : Excused(x) => Excused(x)'
      BY <1>0, <2>1, <2>4 DEF Excused
    <3>2. CASE TenantOf[Dto[e].id] = t
      BY <2>1, <2>4, <3>2 DEF HasDefault, Excused
    <3>3. CASE TenantOf[Dto[e].id] # t
      BY <2>2, <3>1, <3>3 DEF HasDefault, Defaults
    <3> QED
      BY <3>2, <3>3
  <2>5. CASE Dto[e].isDefault = "yes"
    <3>1. \A x \in Edits \ {e} : Excused(x) => Excused(x)'
      BY <1>0, <2>1 DEF Excused
    <3>2. CASE TenantOf[Dto[e].id] = t
      BY <1>0, <2>3, <2>5, <3>2 DEF HasDefault, Defaults
    <3>3. CASE TenantOf[Dto[e].id] # t
      BY <2>2, <3>1, <3>3 DEF HasDefault, Defaults
    <3> QED
      BY <3>2, <3>3
  <2>6. CASE Dto[e].isDefault = "keep"
    <3>1. \A x \in Edits : Excused(x) => Excused(x)'
      BY <1>0, <2>1, <2>6 DEF Excused
    <3>2. Defaults(t) \subseteq Defaults(t)'
      BY <1>0, <2>2, <2>3, <2>6 DEF Defaults
    <3> QED
      BY <3>1, <3>2 DEF HasDefault
  <2> QED
    BY <1>0, <2>4, <2>5, <2>6
<1> QED
  BY <1>1, <1>2, <1>3, SequenceWriters

(* A tenant that had a default sequence has one at every moment, but between the
   two writes of an edit of its own that makes another the default, after such a
   request died there, or once it gave its default up (service.ts:362-405):
   edits that interleave never lose it. *)
THEOREM DefaultSurvives == Spec => []DefaultKept
<1>1. Init => DefaultKept
  <2> SUFFICES ASSUME Init, NEW s \in SeqIds, InitialSequences[s].exists, InitialSequences[s].isDefault
               PROVE  HasDefault(TenantOf[s])
    BY DefaultIsExcused
  <2>1. s \in Defaults(TenantOf[s])
    BY DEF Init, Defaults
  <2> QED
    BY <2>1 DEF HasDefault
<1>2. IInv /\ DefaultKept /\ [Next]_vars => DefaultKept'
  <2> SUFFICES ASSUME IInv, DefaultKept, [Next]_vars PROVE DefaultKept'
    OBVIOUS
  <2>1. \A s \in SeqIds : InitialSequences[s].exists /\ InitialSequences[s].isDefault
          => HasDefault(TenantOf[s])
    BY DefaultIsExcused
  <2>2. \A s \in SeqIds : InitialSequences[s].exists /\ InitialSequences[s].isDefault
          => HasDefault(TenantOf[s])'
    BY <2>1, DefaultStep DEF IInv
  <2> QED
    BY <2>2 DEF DefaultKept, HasDefault, Excused
<1> QED
  BY <1>1, <1>2, Invariance, PTL DEF Spec

-----------------------------------------------------------------------------
(* How often the scheduler picks a payment up. *)

LEMMA PickUpsFinite ==
  ASSUME NEW i \in Invoices
  PROVE  /\ IsFiniteSet(PickUps(i)) /\ Cardinality(PickUps(i)) \in Nat
         /\ IsFiniteSet(Waiting(i)) /\ Cardinality(Waiting(i)) \in Nat
         /\ Due(i) \in {0, 1}
<1>1. IsFiniteSet(Time)
  BY DunningAssumption, FS_Interval DEF Time
<1>2. PickUps(i) \subseteq Time /\ Waiting(i) \subseteq Ticks
  BY DEF PickUps, Waiting, Held
<1>3. IsFiniteSet(PickUps(i)) /\ IsFiniteSet(Waiting(i))
  BY <1>1, <1>2, DunningAssumption, FS_Subset
<1> QED
  BY <1>3, FS_CardinalityType DEF Due

LEMMA PickUpsFiniteNext ==
  ASSUME NEW i \in Invoices
  PROVE  /\ IsFiniteSet(PickUps(i)') /\ Cardinality(PickUps(i)') \in Nat
         /\ IsFiniteSet(Waiting(i)') /\ Cardinality(Waiting(i)') \in Nat
         /\ Due(i)' \in {0, 1}
<1>1. IsFiniteSet(Time)
  BY DunningAssumption, FS_Interval DEF Time
<1>2. PickUps(i)' \subseteq Time /\ Waiting(i)' \subseteq Ticks
  BY DEF PickUps, Waiting, Held
<1>3. IsFiniteSet(PickUps(i)') /\ IsFiniteSet(Waiting(i)')
  BY <1>1, <1>2, DunningAssumption, FS_Subset
<1> QED
  BY <1>3, FS_CardinalityType DEF Due

\* The numbers of CountOK.
LEMMA CountNumbers ==
  ASSUME TypeOK, PickUpsInv, NEW i \in Invoices
  PROVE  /\ stamps[i] \in Nat /\ crowded[i] \in Nat /\ faults \in Nat
         /\ Cardinality(PickUps(i)) \in Nat /\ Cardinality(Waiting(i)) \in Nat
         /\ Due(i) \in {0, 1} /\ CountOK(i) /\ OwedOK(i)
<1>1. faults \in Nat
  BY DunningAssumption DEF TypeOK
<1> QED
  BY <1>1, PickUpsFinite DEF PickUpsInv

LEMMA HistoryEffect ==
  ASSUME PickUpsInv, History
  PROVE  /\ stamps' \in [Invoices -> Nat] /\ crowded' \in [Invoices -> Nat]
         /\ owed' \subseteq Invoices
         /\ \A i \in Invoices :
              /\ stamps'[i] = (IF Stamped(i) THEN stamps[i] + 1 ELSE stamps[i])
              /\ crowded'[i] = (IF Found(i) /\ Held(i) # {} THEN crowded[i] + 1 ELSE crowded[i])
              /\ i \in owed' => ~ Fired(i) /\ (i \in owed \/ (Stamped(i) /\ Held(i) = {}))
<1> DEFINE S(i) == Stamped(i)
           C(i) == Found(i) /\ Held(i) # {}
<1>1. /\ stamps' = [i \in Invoices |-> IF S(i) THEN stamps[i] + 1 ELSE stamps[i]]
      /\ crowded' = [i \in Invoices |-> IF C(i) THEN crowded[i] + 1 ELSE crowded[i]]
  BY DEF History
<1>2. \A i \in Invoices : stamps[i] \in Nat /\ crowded[i] \in Nat
  BY DEF PickUpsInv
<1>3. /\ owed' \subseteq Invoices
      /\ \A i \in Invoices :
           i \in owed' => ~ Fired(i) /\ (i \in owed \/ (Stamped(i) /\ Held(i) = {}))
  BY DEF PickUpsInv, History
<1> HIDE DEF S, C
<1>4. stamps' \in [Invoices -> Nat] /\ crowded' \in [Invoices -> Nat]
  BY <1>1, <1>2
<1>5. \A i \in Invoices :
        /\ stamps'[i] = (IF S(i) THEN stamps[i] + 1 ELSE stamps[i])
        /\ crowded'[i] = (IF C(i) THEN crowded[i] + 1 ELSE crowded[i])
  BY <1>1
<1> QED
  BY <1>3, <1>4, <1>5 DEF S, C

\* A step of something else than a run of the scheduler.
LEMMA QuietTicks ==
  ASSUME TypeOK, TypeOK', PickUpsInv, History, UNCHANGED tick, faults <= faults',
         \A i \in Invoices : PickUps(i)' = PickUps(i),
         \A i \in Invoices :
           /\ payment[i].status # "ABSENT" => payment'[i].status # "ABSENT"
           /\ Stamped(i) => payment'[i].nextRetryAt # Never /\ payment[i].status # "ABSENT"
           /\ \/ payment'[i].nextRetryAt = payment[i].nextRetryAt
              \/ payment'[i].nextRetryAt = Never /\ payment[i].status = "ABSENT"
              \/ Stamped(i),
         \A f \in Failures : RowOK(f)'
  PROVE  PickUpsInv'
<1>1. \A i \in Invoices : ~ Found(i) /\ ~ Fired(i)
  BY DEF PickUpsInv, TickOK, Found, Fired
<1>2. \A r \in Ticks : TickOK(r)'
  BY DEF PickUpsInv, TickOK
<1>3. ASSUME NEW i \in Invoices PROVE CountOK(i)'
  <2>1. Held(i)' = Held(i) /\ Waiting(i)' = Waiting(i)
    BY DEF Held, Waiting
  <2>2. Due(i)' <= Due(i) \/ Stamped(i)
    BY <2>1 DEF Due
  <2>3. /\ stamps'[i] = (IF Stamped(i) THEN stamps[i] + 1 ELSE stamps[i])
        /\ crowded'[i] = crowded[i]
    BY <1>1, HistoryEffect
  <2>4. faults' \in Nat /\ Due(i)' \in {0, 1}
    BY PickUpsFiniteNext, DunningAssumption DEF TypeOK
  <2>5. /\ stamps[i] \in Nat /\ crowded[i] \in Nat /\ faults \in Nat
        /\ Cardinality(PickUps(i)) \in Nat /\ Cardinality(Waiting(i)) \in Nat
        /\ Due(i) \in {0, 1}
        /\ Cardinality(PickUps(i)) + Cardinality(Waiting(i)) + Due(i)
             <= stamps[i] + crowded[i] + faults
    BY CountNumbers DEF CountOK
  <2>6. Cardinality(PickUps(i)) + Cardinality(Waiting(i)) + Due(i)'
          <= stamps'[i] + crowded'[i] + faults'
    BY <2>2, <2>3, <2>4, <2>5
  <2>7. PickUps(i)' = PickUps(i)
    OBVIOUS
  <2> QED
    BY <2>1, <2>6, <2>7 DEF CountOK
<1>4. ASSUME NEW i \in Invoices PROVE OwedOK(i)'
  <2>1. Clearing(i)' = Clearing(i)
    BY DEF Clearing
  <2>2. CASE Stamped(i) /\ Held(i) = {}
    <3>1. Clearing(i) = {}
      BY <2>2 DEF PickUpsInv, TickOK, Held, Clearing
    <3> QED
      BY <2>1, <2>2, <3>1 DEF OwedOK
  <2>3. CASE i \in owed
    BY <2>1, <2>3 DEF PickUpsInv, OwedOK
  <2>4. CASE i \notin owed /\ ~ (Stamped(i) /\ Held(i) = {})
    <3>1. i \notin owed'
      BY <2>4, HistoryEffect
    <3> QED
      BY <3>1 DEF OwedOK
  <2> QED
    BY <2>2, <2>3, <2>4
<1> QED
  BY <1>2, <1>3, <1>4, HistoryEffect DEF PickUpsInv

\* The scheduler's jobs are its own: the steps of handlers and of workers add none.
LEMMA SamePickUps ==
  ASSUME TypeOK,
         \/ UNCHANGED job
         \/ \E j \in JobIds : JobStep(j) \/ JobFails(j)
         \/ \E f \in Failures : FailureOK(f) /\ AddStep(f)
  PROVE  \A i \in Invoices : PickUps(i)' = PickUps(i)
<1> SUFFICES ASSUME NEW i \in Invoices, NEW t \in Time
             PROVE  job'[SchedulerJob(i, t)].state # "none" <=> job[SchedulerJob(i, t)].state # "none"
  BY DEF PickUps
<1> DEFINE x == SchedulerJob(i, t)
<1>0. x \in JobIds /\ x.kind = "scheduler"
  BY SchedulerIsJob DEF SchedulerJob
<1>1. CASE UNCHANGED job
  BY <1>1
<1>2. CASE \E j \in JobIds : JobStep(j) \/ JobFails(j)
  <2>1. PICK j \in JobIds, v \in Job :
          job' = [job EXCEPT ![j] = v] /\ v.state # "none" /\ job[j].state # "none"
    BY <1>2, JobStepEffect
  <2> QED
    BY <1>0, <2>1 DEF TypeOK
<1>3. CASE \E f \in Failures : FailureOK(f) /\ AddStep(f)
  <2>1. PICK f \in Failures : FailureOK(f) /\ AddStep(f)
    BY <1>3
  <2> DEFINE j == StepJob(FailedInvoice[f], failure[f].k)
  <2>2. j.kind = "step"
    BY DEF StepJob
  <2>3. job'[x] = job[x]
    <3> HIDE DEF x
    <3>1. x # j
      BY <1>0, <2>2
    <3> QED
      BY <1>0, <2>1, <3>1 DEF AddStep, Add, TypeOK
  <2> QED
    BY <2>3
<1> QED
  BY <1>1, <1>2, <1>3

LEMMA FailurePickUps ==
  ASSUME IInv, IInv', PickUpsInv, History, NEW f \in Failures,
         UpsertPayment(f) \/ FailureStep(f) \/ AddStepFails(f)
  PROVE  PickUpsInv'
<1> DEFINE i == FailedInvoice[f]
<1>1. TypeOK /\ TypeOK' /\ FailureOK(f) /\ i \in Invoices /\ failure[f] \in Failure
  BY DunningAssumption DEF IInv, TypeOK
<1>2. UNCHANGED tick /\ faults <= faults'
  <2>1. faults \in Nat
    BY <1>1, DunningAssumption DEF TypeOK
  <2>2. UNCHANGED tick /\ (faults' = faults \/ faults' = faults + 1)
    BY DEF UpsertPayment, FailureStep, ReadSequence, AddStep, StampRetry, AddStepFails
  <2> QED
    BY <2>1, <2>2
<1>3. UNCHANGED job \/ AddStep(f)
  BY DEF UpsertPayment, FailureStep, ReadSequence, StampRetry, AddStepFails
<1>4. \A h \in Invoices : PickUps(h)' = PickUps(h)
  BY <1>1, <1>3, SamePickUps
<1>5. \A g \in Failures : RowOK(g)
  BY DEF PickUpsInv
<1>6. ASSUME UNCHANGED payment, \A g \in Failures : ~ (failure[g].pc = "idle" /\ failure'[g].pc # "idle"),
             ~ StampRetry(f), \A g \in Failures : failure[g].pc = "stamp" => failure'[g].pc \notin {"add", "done"}
      PROVE  PickUpsInv'
  <2>1. \A h \in Invoices : ~ Stamped(h)
    BY <1>6 DEF Stamped
  <2>2. \A g \in Failures : RowOK(g)'
    BY <1>5, <1>6 DEF RowOK
  <2> QED
    BY <1>1, <1>2, <1>4, <1>6, <2>1, <2>2, QuietTicks
<1>7. CASE ReadSequence(f)
  BY <1>1, <1>6, <1>7 DEF ReadSequence, StampRetry, TypeOK, Failure
<1>8. CASE AddStep(f)
  BY <1>1, <1>6, <1>8 DEF AddStep, AfterStep, StampRetry, TypeOK, Failure
<1>9. CASE AddStepFails(f)
  BY <1>1, <1>6, <1>9 DEF AddStepFails, StampRetry, TypeOK, Failure
<1>10. CASE UpsertPayment(f)
  <2>1. \A h \in Invoices : ~ Stamped(h)
    BY <1>1, <1>10 DEF UpsertPayment, Stamped, TypeOK
  <2>2. /\ \A h \in Invoices : payment[h].status # "ABSENT" => payment'[h].status # "ABSENT"
        /\ payment'[i].status # "ABSENT"
        /\ \A h \in Invoices : \/ payment'[h].nextRetryAt = payment[h].nextRetryAt
                               \/ payment'[h].nextRetryAt = Never /\ payment[h].status = "ABSENT"
    BY <1>1, <1>10 DEF UpsertPayment, TypeOK, Payment
  <2>3. \A g \in Failures : RowOK(g)'
    <3> SUFFICES ASSUME NEW g \in Failures, failure'[g].pc # "idle"
                 PROVE  payment'[FailedInvoice[g]].status # "ABSENT"
      BY DEF RowOK
    <3>1. FailedInvoice[g] \in Invoices
      BY DunningAssumption
    <3>2. g = f \/ failure'[g] = failure[g]
      BY <1>1, <1>10 DEF UpsertPayment, TypeOK
    <3> QED
      BY <1>5, <2>2, <3>1, <3>2 DEF RowOK
  <2> QED
    BY <1>1, <1>2, <1>4, <2>1, <2>2, <2>3, QuietTicks
<1>11. CASE StampRetry(f)
  <2>1. 1 \in DOMAIN failure[f].steps
    BY <1>1, <1>11 DEF StampRetry, FailureOK
  <2> DEFINE due == Later(now, failure[f].steps[1].delay)
  <2>2. due \in Time
    BY <1>1, <2>1, StepIsJob, LaterIsTime DEF TypeOK
  <2>3. due # Never
    BY <2>2, DunningAssumption DEF Time, Never
  <2>4. /\ \A h \in Invoices \ {i} : payment'[h] = payment[h]
        /\ payment'[i].status = payment[i].status /\ payment'[i].nextRetryAt = due
    BY <1>1, <1>11 DEF StampRetry, TypeOK, Payment
  <2>5. \A h \in Invoices : Stamped(h) <=> h = i
    <3>1. /\ failure[f].pc = "stamp" /\ failure'[f].pc \in {"add", "done"}
          /\ \A g \in Failures \ {f} : failure'[g] = failure[g]
      BY <1>1, <1>11 DEF StampRetry, AfterStep, TypeOK, Failure
    <3> QED
      BY <3>1 DEF Stamped
  <2>6. payment[i].status # "ABSENT"
    BY <1>5, <1>11 DEF StampRetry, RowOK
  <2>7. \A g \in Failures : RowOK(g)'
    <3> SUFFICES ASSUME NEW g \in Failures, failure'[g].pc # "idle"
                 PROVE  payment'[FailedInvoice[g]].status # "ABSENT"
      BY DEF RowOK
    <3>1. g = f \/ failure'[g] = failure[g]
      BY <1>1, <1>11 DEF StampRetry, AfterStep, TypeOK
    <3>2. payment[FailedInvoice[g]].status # "ABSENT"
      BY <1>5, <2>6, <3>1 DEF RowOK
    <3> QED
      BY <2>4, <3>2, DunningAssumption
  <2> HIDE DEF due, i
  <2> QED
    BY <1>1, <1>2, <1>4, <2>3, <2>4, <2>5, <2>6, <2>7, QuietTicks
<1> QED
  BY <1>7, <1>8, <1>9, <1>10, <1>11 DEF FailureStep

LEMMA OtherPickUps ==
  ASSUME IInv, IInv', PickUpsInv, History,
         \/ AdvanceClock
         \/ \E s \in Successes : FindPaid(s) \/ MarkRecovered(s)
         \/ \E e \in Edits : BeginEdit(e) \/ WriteSequence(e)
         \/ \E j \in JobIds : JobStep(j) \/ JobFails(j)
  PROVE  PickUpsInv'
<1>1. TypeOK /\ TypeOK'
  BY DEF IInv
<1>2. UNCHANGED <<tick, faults, failure>>
  BY JobStepEffect, <1>1 DEF AdvanceClock, FindPaid, MarkRecovered, BeginEdit, WriteSequence
<1>3. UNCHANGED job \/ \E j \in JobIds : JobStep(j) \/ JobFails(j)
  BY DEF AdvanceClock, FindPaid, MarkRecovered, BeginEdit, WriteSequence
<1>4. \A h \in Invoices : PickUps(h)' = PickUps(h)
  BY <1>1, <1>3, SamePickUps
<1>5. \A h \in Invoices :
        /\ payment'[h].nextRetryAt = payment[h].nextRetryAt
        /\ payment[h].status # "ABSENT" => payment'[h].status # "ABSENT"
  <2>1. CASE UNCHANGED payment
    BY <2>1
  <2>2. CASE \E s \in Successes : MarkRecovered(s)
    BY <1>1, <2>2 DEF MarkRecovered, TypeOK, Payment
  <2> QED
    BY <1>1, <2>1, <2>2, JobStepEffect DEF AdvanceClock, FindPaid, BeginEdit, WriteSequence
<1>6. \A h \in Invoices : ~ Stamped(h)
  BY <1>2 DEF Stamped
<1>7. \A g \in Failures : RowOK(g)'
  BY <1>2, <1>5, DunningAssumption DEF PickUpsInv, RowOK
<1>8. faults <= faults'
  BY <1>1, <1>2, DunningAssumption DEF TypeOK
<1> QED
  BY <1>1, <1>2, <1>4, <1>5, <1>6, <1>7, <1>8, QuietTicks

\* A step of the scheduler: no due time is written.
LEMMA NotStamped == ASSUME UNCHANGED failure PROVE \A i \in Invoices : ~ Stamped(i)
BY DEF Stamped

\* The counts of one invoice, when the runs that wait for it and its due time
\* change by no more than is accounted for.
LEMMA CountStep ==
  ASSUME TypeOK, TypeOK', PickUpsInv, History, NEW i \in Invoices,
         NEW p \in Nat, NEW w \in Nat, faults <= faults',
         Cardinality(PickUps(i)') = p, Cardinality(Waiting(i)') = w,
         \/ p + w + Due(i)' <= Cardinality(PickUps(i)) + Cardinality(Waiting(i)) + Due(i)
         \/ /\ p + w + Due(i)' <= Cardinality(PickUps(i)) + Cardinality(Waiting(i)) + Due(i) + 1
            /\ faults' = faults + 1 \/ (Found(i) /\ Held(i) # {})
  PROVE  CountOK(i)'
<1>1. /\ stamps[i] \in Nat /\ crowded[i] \in Nat /\ faults \in Nat
      /\ Cardinality(PickUps(i)) \in Nat /\ Cardinality(Waiting(i)) \in Nat
      /\ Due(i) \in {0, 1}
      /\ Cardinality(PickUps(i)) + Cardinality(Waiting(i)) + Due(i)
           <= stamps[i] + crowded[i] + faults
  BY CountNumbers DEF CountOK
<1>2. faults' \in Nat /\ Due(i)' \in {0, 1}
  BY PickUpsFiniteNext, DunningAssumption DEF TypeOK
<1>3. /\ stamps'[i] \in {stamps[i], stamps[i] + 1}
      /\ crowded'[i] = (IF Found(i) /\ Held(i) # {} THEN crowded[i] + 1 ELSE crowded[i])
  BY HistoryEffect
<1>4. stamps[i] <= stamps'[i] /\ crowded[i] <= crowded'[i] /\ stamps'[i] \in Nat /\ crowded'[i] \in Nat
  BY <1>1, <1>3
<1>5. (Found(i) /\ Held(i) # {}) => crowded'[i] = crowded[i] + 1
  BY <1>3
<1>6. p + w + Due(i)' <= stamps'[i] + crowded'[i] + faults'
  BY <1>1, <1>2, <1>4, <1>5
<1> QED
  BY <1>6 DEF CountOK

\* What a run does not have to do with stays: nothing is owed anew.
LEMMA OwedStep ==
  ASSUME TypeOK, PickUpsInv, History, UNCHANGED failure, NEW i \in Invoices,
         i \in owed /\ ~ Fired(i) =>
           /\ payment'[i].nextRetryAt = payment[i].nextRetryAt
           /\ payment'[i].status = payment[i].status
           /\ Clearing(i)' = {}
  PROVE  OwedOK(i)'
<1>1. i \in owed' => i \in owed /\ ~ Fired(i)
  BY NotStamped, HistoryEffect
<1> QED
  BY <1>1 DEF OwedOK, PickUpsInv

LEMMA StartTickPickUps ==
  ASSUME IInv, IInv', PickUpsInv, History, NEW r \in Ticks, StartTick(r)
  PROVE  PickUpsInv'
<1>1. TypeOK /\ TypeOK' /\ UNCHANGED <<failure, payment, job, faults>> /\ tick \in [Ticks -> Tick]
  BY DEF IInv, TypeOK, StartTick
<1>2. /\ tick[r].pc = "idle" /\ tick'[r].pc = "query" /\ tick'[r].todo = {}
      /\ \A q \in Ticks \ {r} : tick'[q] = tick[q]
  BY <1>1 DEF StartTick, IdleTick
<1>3. ASSUME NEW i \in Invoices
      PROVE  /\ PickUps(i)' = PickUps(i) /\ Held(i)' = Held(i) /\ Waiting(i)' = Waiting(i)
             /\ Clearing(i)' = Clearing(i) /\ Due(i)' = Due(i)
  <2>1. PickUps(i)' = PickUps(i)
    BY <1>1 DEF PickUps
  <2>2. Held(i)' = Held(i) /\ Clearing(i)' = Clearing(i)
    BY <1>2 DEF Held, Clearing
  <2>3. Waiting(i)' = Waiting(i)
    BY <1>2, <2>2 DEF Waiting, Held
  <2> QED
    BY <1>1, <2>1, <2>2, <2>3 DEF Due
<1>4. ASSUME NEW i \in Invoices PROVE CountOK(i)'
  <2>1. faults <= faults'
    BY <1>1, DunningAssumption DEF TypeOK
  <2>2. /\ Cardinality(PickUps(i)) \in Nat /\ Cardinality(Waiting(i)) \in Nat /\ Due(i) \in {0, 1}
    BY PickUpsFinite
  <2> QED
    BY <1>1, <1>3, <2>1, <2>2, CountStep
<1>5. \A i \in Invoices : OwedOK(i)'
  BY <1>1, <1>3, OwedStep DEF PickUpsInv, OwedOK
<1>6. \A q \in Ticks : TickOK(q)'
  BY <1>2 DEF PickUpsInv, TickOK
<1>7. \A f \in Failures : RowOK(f)'
  BY <1>1 DEF PickUpsInv, RowOK
<1> QED
  BY <1>4, <1>5, <1>6, <1>7, HistoryEffect DEF PickUpsInv

LEMMA QueryPickUps ==
  ASSUME IInv, IInv', PickUpsInv, History, NEW r \in Ticks, QueryOverdue(r)
  PROVE  PickUpsInv'
<1> DEFINE found == Overdue(tick[r].now)
<1>1. TypeOK /\ TypeOK' /\ UNCHANGED <<failure, payment, job, faults>> /\ tick \in [Ticks -> Tick]
  BY DEF IInv, TypeOK, QueryOverdue
<1>2. /\ tick[r].pc = "query" /\ tick'[r].todo = found
      /\ tick'[r].pc = (IF found = {} THEN "idle" ELSE "add")
      /\ \A q \in Ticks \ {r} : tick'[q] = tick[q]
  BY <1>1 DEF QueryOverdue, IdleTick, Tick
<1>3. \A i \in found : payment[i].nextRetryAt # Never
  <2>1. tick[r].now \in Time
    BY <1>1 DEF Tick
  <2> QED
    BY <2>1, DunningAssumption DEF Overdue, Time, Never
<1>4. ASSUME NEW i \in Invoices
      PROVE  CountOK(i)'
  <2>0. /\ faults <= faults' /\ Cardinality(PickUps(i)) \in Nat /\ IsFiniteSet(Waiting(i))
        /\ Cardinality(Waiting(i)) \in Nat /\ Due(i) \in {0, 1} /\ Due(i)' \in {0, 1}
    BY <1>1, DunningAssumption, PickUpsFinite, PickUpsFiniteNext DEF TypeOK
  <2>1. PickUps(i)' = PickUps(i)
    BY <1>1 DEF PickUps
  <2>2. CASE i \in found
    <3>1. r \notin Held(i) /\ Held(i)' = Held(i) \cup {r}
      BY <1>2, <2>2 DEF Held
    <3>2. r \notin Waiting(i) /\ Waiting(i)' = Waiting(i) \cup {r}
      BY <1>2, <2>2, <3>1 DEF Waiting, Held
    <3>3. Cardinality(Waiting(i)') = Cardinality(Waiting(i)) + 1
      BY <2>0, <3>2, FS_AddElement
    <3>4. Due(i)' = 0 /\ (Held(i) = {} => Due(i) = 1)
      BY <1>3, <2>2, <3>1 DEF Due
    <3>5. Found(i)
      BY <1>2, <2>2 DEF Found
    <3>6. Cardinality(Waiting(i)) + 1 \in Nat
      BY <2>0
    <3> QED
      BY <1>1, <2>0, <2>1, <3>3, <3>4, <3>5, <3>6, CountStep
  <2>3. CASE i \notin found
    <3>1. Held(i)' = Held(i)
      BY <1>2, <2>3 DEF Held
    <3>2. Waiting(i)' = Waiting(i)
      BY <1>2, <2>3, <3>1 DEF Waiting, Held
    <3>3. Due(i)' = Due(i)
      BY <1>1, <3>1 DEF Due
    <3> QED
      BY <1>1, <2>0, <2>1, <3>2, <3>3, CountStep
  <2> QED
    BY <2>2, <2>3
<1>5. \A i \in Invoices : OwedOK(i)'
  <2>1. \A i \in Invoices : Clearing(i)' = Clearing(i)
    BY <1>2 DEF Clearing
  <2> QED
    BY <1>1, <2>1, OwedStep DEF PickUpsInv, OwedOK
<1>6. \A q \in Ticks : TickOK(q)'
  BY <1>2 DEF PickUpsInv, TickOK
<1>7. \A f \in Failures : RowOK(f)'
  BY <1>1 DEF PickUpsInv, RowOK
<1> QED
  BY <1>4, <1>5, <1>6, <1>7, HistoryEffect DEF PickUpsInv

LEMMA FirePickUps ==
  ASSUME IInv, IInv', PickUpsInv, History, NEW r \in Ticks, NEW h \in Invoices, FireRetry(r, h)
  PROVE  PickUpsInv'
<1> DEFINE t == tick[r].now
<1>1. /\ TypeOK /\ TypeOK' /\ UNCHANGED <<failure, payment, faults>> /\ tick \in [Ticks -> Tick]
      /\ t \in Time /\ job \in [JobIds -> Job]
  BY DEF IInv, TypeOK, FireRetry, Tick
<1>2. /\ tick[r].pc = "add" /\ h \in tick[r].todo
      /\ tick'[r].pc = "clear" /\ tick'[r].at = h /\ tick'[r].todo = tick[r].todo
      /\ \A q \in Ticks \ {r} : tick'[q] = tick[q]
  BY <1>1 DEF FireRetry, Tick
<1>3. /\ job'[SchedulerJob(h, t)].state # "none"
      /\ \A x \in JobIds \ {SchedulerJob(h, t)} : job'[x] = job[x]
  <2>1. SchedulerJob(h, t) \in JobIds /\ job' = Add(SchedulerJob(h, t), "none", 0)
    BY <1>1, SchedulerIsJob DEF FireRetry
  <2>2. job'[SchedulerJob(h, t)].state # "none"
    BY <1>1, <2>1, AddEffect
  <2>3. \A x \in JobIds \ {SchedulerJob(h, t)} : job'[x] = job[x]
    BY <1>1, <2>1 DEF Add
  <2> QED
    BY <2>2, <2>3
<1>4. PickUps(h)' = PickUps(h) \cup {t}
  <2>1. \A u \in Time : u # t => job'[SchedulerJob(h, u)] = job[SchedulerJob(h, u)]
    <3> SUFFICES ASSUME NEW u \in Time, u # t
                 PROVE  job'[SchedulerJob(h, u)] = job[SchedulerJob(h, u)]
      OBVIOUS
    <3>1. SchedulerJob(h, u) \in JobIds /\ SchedulerJob(h, u) # SchedulerJob(h, t)
      BY SchedulerIsJob DEF SchedulerJob
    <3> QED
      BY <1>3, <3>1
  <2> QED
    BY <1>1, <1>3, <2>1 DEF PickUps
<1>5. \A i \in Invoices \ {h} : PickUps(i)' = PickUps(i)
  <2> SUFFICES ASSUME NEW i \in Invoices \ {h}, NEW u \in Time
               PROVE  job'[SchedulerJob(i, u)] = job[SchedulerJob(i, u)]
    BY DEF PickUps
  <2>1. SchedulerJob(i, u) \in JobIds /\ SchedulerJob(i, u) # SchedulerJob(h, t)
    BY SchedulerIsJob DEF SchedulerJob
  <2> QED
    BY <1>3, <2>1
<1>6. \A i \in Invoices : Held(i)' = Held(i)
  BY <1>2 DEF Held
<1>7. ASSUME NEW i \in Invoices
      PROVE  CountOK(i)'
  <2>0. /\ faults <= faults' /\ IsFiniteSet(PickUps(i)) /\ Cardinality(PickUps(i)) \in Nat
        /\ IsFiniteSet(Waiting(i)) /\ Cardinality(Waiting(i)) \in Nat /\ Due(i) \in {0, 1}
    BY <1>1, DunningAssumption, PickUpsFinite DEF TypeOK
  <2>1. Due(i)' = Due(i)
    BY <1>1, <1>6 DEF Due
  <2>2. CASE i = h
    <3>1. r \in Waiting(i) /\ Waiting(i)' = Waiting(i) \ {r}
      BY <1>2, <1>6, <2>2 DEF Waiting, Held
    <3>2. Cardinality(Waiting(i)') = Cardinality(Waiting(i)) - 1
      BY <2>0, <3>1, FS_RemoveElement
    <3>3. Cardinality(PickUps(i)') \in {Cardinality(PickUps(i)), Cardinality(PickUps(i)) + 1}
      BY <1>4, <2>0, <2>2, FS_AddElement
    <3>4. Cardinality(PickUps(i)') \in Nat /\ Cardinality(Waiting(i)') \in Nat
      BY PickUpsFiniteNext
    <3> QED
      BY <1>1, <2>0, <2>1, <3>2, <3>3, <3>4, CountStep
  <2>3. CASE i # h
    <3>1. Waiting(i)' = Waiting(i)
      BY <1>2, <1>6, <2>3 DEF Waiting, Held
    <3> QED
      BY <1>1, <1>5, <2>0, <2>1, <2>3, <3>1, CountStep
  <2> QED
    BY <2>2, <2>3
<1>8. ASSUME NEW i \in Invoices PROVE OwedOK(i)'
  <2>1. Fired(h)
    BY <1>2, <1>3 DEF Fired
  <2>2. i # h => Clearing(i)' = Clearing(i)
    BY <1>2 DEF Clearing
  <2> QED
    BY <1>1, <2>1, <2>2, OwedStep DEF PickUpsInv, OwedOK
<1>9. \A q \in Ticks : TickOK(q)'
  BY <1>2 DEF PickUpsInv, TickOK
<1>10. \A f \in Failures : RowOK(f)'
  BY <1>1 DEF PickUpsInv, RowOK
<1> QED
  BY <1>7, <1>8, <1>9, <1>10, HistoryEffect DEF PickUpsInv

LEMMA ClearPickUps ==
  ASSUME IInv, IInv', PickUpsInv, History, NEW r \in Ticks, ClearRetry(r)
  PROVE  PickUpsInv'
<1> DEFINE h == tick[r].at
           left == tick[r].todo \ {h}
<1>1. /\ TypeOK /\ TypeOK' /\ UNCHANGED <<failure, job, faults>> /\ tick[r] \in Tick
      /\ tick \in [Ticks -> Tick] /\ payment \in [Invoices -> Payment]
  BY DEF IInv, TypeOK, ClearRetry
<1>2. tick[r].pc = "clear" /\ h \in tick[r].todo /\ h \in Invoices
  BY <1>1 DEF ClearRetry, PickUpsInv, TickOK, Tick
<1>3. /\ tick'[r].pc = (IF left = {} THEN "idle" ELSE "add") /\ tick'[r].todo = left
      /\ \A q \in Ticks \ {r} : tick'[q] = tick[q]
  BY <1>1 DEF ClearRetry, NextOverdue, IdleTick, Tick
<1>4. /\ \A i \in Invoices \ {h} : payment'[i] = payment[i]
      /\ payment'[h].nextRetryAt = Never /\ payment'[h].status = payment[h].status
  BY <1>1, <1>2 DEF ClearRetry, Payment
<1>5. ASSUME NEW i \in Invoices
      PROVE  PickUps(i)' = PickUps(i) /\ Waiting(i)' = Waiting(i)
  BY <1>1, <1>2, <1>3 DEF PickUps, Waiting, Held
<1>6. ASSUME NEW i \in Invoices \ {h}
      PROVE  Held(i)' = Held(i) /\ Clearing(i)' = Clearing(i)
  BY <1>2, <1>3 DEF Held, Clearing
<1>7. ASSUME NEW i \in Invoices
      PROVE  CountOK(i)'
  <2>1. /\ faults <= faults' /\ Cardinality(PickUps(i)) \in Nat
        /\ Cardinality(Waiting(i)) \in Nat /\ Due(i) \in {0, 1} /\ Due(i)' \in {0, 1}
    BY <1>1, DunningAssumption, PickUpsFinite, PickUpsFiniteNext DEF TypeOK
  <2>2. Due(i)' <= Due(i)
    <3>1. CASE i = h
      BY <1>4, <2>1, <3>1 DEF Due
    <3>2. CASE i # h
      BY <1>4, <1>6, <2>1, <3>2 DEF Due
    <3> QED
      BY <3>1, <3>2
  <2> QED
    BY <1>1, <1>5, <2>1, <2>2, CountStep
<1>8. ASSUME NEW i \in Invoices PROVE OwedOK(i)'
  <2>1. h \notin owed
    BY <1>2 DEF PickUpsInv, OwedOK, Clearing
  <2> QED
    BY <1>1, <1>4, <1>6, <2>1, OwedStep DEF PickUpsInv, OwedOK
<1>9. \A q \in Ticks : TickOK(q)'
  BY <1>3 DEF PickUpsInv, TickOK
<1>10. \A f \in Failures : RowOK(f)'
  <2>1. \A i \in Invoices : payment'[i].status = payment[i].status
    BY <1>4
  <2> QED
    BY <1>1, <2>1, DunningAssumption DEF PickUpsInv, RowOK
<1> QED
  BY <1>7, <1>8, <1>9, <1>10, HistoryEffect DEF PickUpsInv

\* A run that ends early, by an error or with its process, takes its list along:
\* a due time may have none of the runs that read it left to clear it.
LEMMA FaultPickUps ==
  ASSUME IInv, IInv', PickUpsInv, History,
         UNCHANGED payment, faults' = faults + 1,
         \A r \in Ticks : tick'[r] = tick[r] \/ tick'[r] = IdleTick,
         \A f \in Failures : \/ failure'[f] = failure[f]
                             \/ failure[f].pc # "idle" /\ failure'[f].pc = "lost",
         \A i \in Invoices : PickUps(i)' = PickUps(i)
  PROVE  PickUpsInv'
<1>1. TypeOK /\ TypeOK' /\ faults \in Nat
  BY DunningAssumption DEF IInv, TypeOK
<1>2. \A i \in Invoices : ~ Stamped(i) /\ ~ Fired(i)
  BY DEF Stamped, Fired, IdleTick
<1>3. \A i \in Invoices : Waiting(i)' \subseteq Waiting(i) /\ Clearing(i)' \subseteq Clearing(i)
  BY DEF Waiting, Held, Clearing, IdleTick
<1>4. ASSUME NEW i \in Invoices
      PROVE  CountOK(i)'
  <2>1. /\ Cardinality(PickUps(i)) \in Nat /\ IsFiniteSet(Waiting(i))
        /\ Cardinality(Waiting(i)) \in Nat /\ Cardinality(Waiting(i)') \in Nat
        /\ Due(i) \in {0, 1} /\ Due(i)' \in {0, 1}
    BY PickUpsFinite, PickUpsFiniteNext
  <2>2. Cardinality(Waiting(i)') <= Cardinality(Waiting(i))
    BY <1>3, <2>1, FS_Subset
  <2> QED
    BY <1>1, <2>1, <2>2, CountStep
<1>5. ASSUME NEW i \in Invoices PROVE OwedOK(i)'
  <2>1. i \in owed' => i \in owed
    BY <1>2, HistoryEffect
  <2> QED
    BY <1>3, <2>1 DEF PickUpsInv, OwedOK
<1>6. \A r \in Ticks : TickOK(r)'
  BY DEF PickUpsInv, TickOK, IdleTick
<1>7. \A f \in Failures : RowOK(f)'
  BY DEF PickUpsInv, RowOK
<1> QED
  BY <1>4, <1>5, <1>6, <1>7, HistoryEffect DEF PickUpsInv

LEMMA FireFailsPickUps ==
  ASSUME IInv, IInv', PickUpsInv, History, NEW r \in Ticks, FireRetryFails(r)
  PROVE  PickUpsInv'
<1>1. tick \in [Ticks -> Tick]
  BY DEF IInv, TypeOK
<1>2. UNCHANGED <<payment, failure, job>> /\ faults' = faults + 1
  BY DEF FireRetryFails
<1>3. \A q \in Ticks : tick'[q] = tick[q] \/ tick'[q] = IdleTick
  BY <1>1 DEF FireRetryFails
<1>4. \A i \in Invoices : PickUps(i)' = PickUps(i)
  BY <1>2 DEF PickUps
<1>5. UNCHANGED payment /\ faults' = faults + 1
  BY <1>2
<1>6. \A f \in Failures : failure'[f] = failure[f]
  BY <1>2
<1> QED
  BY <1>3, <1>4, <1>5, <1>6, FaultPickUps

LEMMA CrashPickUps ==
  ASSUME IInv, IInv', PickUpsInv, History, NEW p \in Procs, Crash(p)
  PROVE  PickUpsInv'
<1>1. job \in [JobIds -> Job] /\ failure \in [Failures -> Failure]
  BY DEF IInv, TypeOK
<1>2. UNCHANGED payment /\ faults' = faults + 1
  BY DEF Crash
<1>3. \A q \in Ticks : tick'[q] = tick[q] \/ tick'[q] = IdleTick
  BY DEF Crash
<1>4. \A f \in Failures : \/ failure'[f] = failure[f]
                          \/ failure[f].pc # "idle" /\ failure'[f].pc = "lost"
  <2> SUFFICES ASSUME NEW f \in Failures, failure'[f] # failure[f]
               PROVE  failure[f].pc # "idle" /\ failure'[f].pc = "lost"
    OBVIOUS
  <2>1. /\ failure[f].pc \in {"plan", "add", "stamp"}
        /\ failure'[f] = [failure[f] EXCEPT !.pc = "lost"]
    BY DEF Crash
  <2>2. failure[f] \in Failure
    BY <1>1
  <2> QED
    BY <2>1, <2>2 DEF Failure
<1>5. \A j \in JobIds : job'[j].state # "none" <=> job[j].state # "none"
  BY <1>1 DEF Crash, RunningOn, Job
<1>6. ASSUME NEW i \in Invoices PROVE PickUps(i)' = PickUps(i)
  BY <1>5, SchedulerIsJob DEF PickUps
<1> QED
  BY <1>2, <1>3, <1>4, <1>6, FaultPickUps

LEMMA PickUpsStart == PickUpsInit => PickUpsInv
<1> SUFFICES ASSUME PickUpsInit PROVE PickUpsInv
  OBVIOUS
<1>1. /\ \A r \in Ticks : tick[r] = IdleTick
      /\ \A f \in Failures : failure[f].pc = "idle"
      /\ \A i \in Invoices : payment[i].nextRetryAt = Never
      /\ \A j \in JobIds : job[j].state = "none"
      /\ faults = 0
  BY DEF PickUpsInit, Init, NewJob
<1>2. ASSUME NEW i \in Invoices PROVE CountOK(i)
  <2>1. PickUps(i) = {} /\ Waiting(i) = {} /\ Due(i) = 0
    BY <1>1, SchedulerIsJob DEF PickUps, Waiting, Held, IdleTick, Due
  <2>2. Cardinality({}) = 0
    BY FS_EmptySet
  <2>3. stamps[i] = 0 /\ crowded[i] = 0
    BY DEF PickUpsInit
  <2> QED
    BY <1>1, <2>1, <2>2, <2>3 DEF CountOK
<1>3. /\ stamps \in [Invoices -> Nat] /\ crowded \in [Invoices -> Nat] /\ owed = {}
  BY DEF PickUpsInit
<1>4. /\ \A r \in Ticks : TickOK(r)
      /\ \A f \in Failures : RowOK(f)
  BY <1>1 DEF TickOK, RowOK, IdleTick
<1> QED
  BY <1>2, <1>3, <1>4 DEF PickUpsInv, OwedOK

LEMMA PickUpsStep ==
  ASSUME IInv, IInv', PickUpsInv, [PickUpsNext]_pickUpVars
  PROVE  PickUpsInv'
<1>1. CASE UNCHANGED pickUpVars
  BY <1>1 DEF pickUpVars, vars, PickUpsInv, TickOK, RowOK, CountOK, OwedOK, PickUps, Waiting, Held,
              Due, Clearing
<1>2. CASE PickUpsNext
  <2>1. History /\ Next
    BY <1>2 DEF PickUpsNext
  <2>2. CASE \E f \in Failures : UpsertPayment(f) \/ FailureStep(f) \/ AddStepFails(f)
    BY <2>1, <2>2, FailurePickUps
  <2>3. CASE \/ AdvanceClock
             \/ \E s \in Successes : FindPaid(s) \/ MarkRecovered(s)
             \/ \E e \in Edits : BeginEdit(e) \/ WriteSequence(e)
             \/ \E j \in JobIds : JobStep(j) \/ JobFails(j)
    BY <2>1, <2>3, OtherPickUps
  <2>4. CASE \E r \in Ticks : TickStep(r) \/ FireRetryFails(r)
    BY <2>1, <2>4, StartTickPickUps, QueryPickUps, FirePickUps, ClearPickUps, FireFailsPickUps
    DEF TickStep
  <2>5. CASE \E p \in Procs : Crash(p)
    BY <2>1, <2>5, CrashPickUps
  <2> QED
    BY <2>1, <2>2, <2>3, <2>4, <2>5 DEF Next
<1> QED
  BY <1>1, <1>2

\* The history watches a run of Dunning and holds none of its steps up.
LEMMA PickUpsIsDunning == PickUpsSpec => Spec
<1>1. PickUpsInit => Init
  BY DEF PickUpsInit
<1>2. [PickUpsNext]_pickUpVars => [Next]_vars
  BY DEF PickUpsNext, pickUpVars
<1> QED
  BY <1>1, <1>2, PTL DEF PickUpsSpec, Spec

(* The scheduler's lists and its jobs agree with the due times written so far:
   the inductive invariant of the two theorems below (scheduler.ts:39-76). *)
THEOREM PickUpsInvariance == PickUpsSpec => []PickUpsInv
<1>1. PickUpsInit => PickUpsInv
  BY PickUpsStart
<1>2. IInv /\ IInv' /\ PickUpsInv /\ [PickUpsNext]_pickUpVars => PickUpsInv'
  BY PickUpsStep
<1> QED
  BY <1>1, <1>2, PickUpsIsDunning, Invariance, PTL DEF PickUpsSpec

(* Every job of the scheduler is for a due time of its own, for an overlap of two
   runs, or for a fault, with any number of processes and runs: a crash between
   the job and the UPDATE costs one more message, never more (scheduler.ts:46-66). *)
THEOREM PickUpsBounded == PickUpsSpec => []PickUpsAccounted
<1>1. IInv /\ PickUpsInv => PickUpsAccounted
  <2> SUFFICES ASSUME IInv, PickUpsInv, NEW i \in Invoices
               PROVE  Cardinality(PickUps(i)) <= stamps[i] + crowded[i] + faults
    BY DEF PickUpsAccounted
  <2> QED
    BY CountNumbers DEF IInv, CountOK
<1> QED
  BY <1>1, PickUpsInvariance, PickUpsIsDunning, Invariance, PTL

(* A due time that is written while no run has the payment on its list stays until
   a run has added the job for it, however runs overlap, fail and die
   (scheduler.ts:46-66, service.ts:106-127). *)
THEOREM DueTimesSurvive == PickUpsSpec => []DueTimeKept
<1>1. PickUpsInv => DueTimeKept
  BY DEF PickUpsInv, OwedOK, DueTimeKept
<1> QED
  BY <1>1, PickUpsInvariance, PTL

=============================================================================
