---------------------------- MODULE DunningPickUps ----------------------------
(***************************************************************************)
(* Dunning together with a history of the due times it writes: how often   *)
(* the scheduler picks a payment up, and which due times it clears.  The   *)
(* history follows every step of Dunning and holds none of them up.        *)
(***************************************************************************)
EXTENDS Dunning

VARIABLES
  stamps,   \* due times written for an invoice so far
  crowded,  \* times a run found an invoice that another run had on its list
  owed      \* invoices whose due time no run had on its list when it was written
            \* last, and for which no job has been added since

pickUpVars == <<vars, stamps, crowded, owed>>

\* The runs that have read the payment as overdue and not yet cleared its due time.
Held(i) == {r \in Ticks : tick[r].pc \in {"add", "clear"} /\ i \in tick[r].todo}

\* The jobs the scheduler has added for a payment, by the clock of their runs.
PickUps(i) == {t \in Time : job[SchedulerJob(i, t)].state # "none"}

\* What a step does: handleFailedPayment writes a due time, a run reads one as
\* overdue, a run adds the job for one.
Stamped(i) ==
  \E f \in Failures : /\ FailedInvoice[f] = i
                      /\ failure[f].pc = "stamp" /\ failure'[f].pc \in {"add", "done"}
Found(i) == \E r \in Ticks : tick[r].pc = "query" /\ i \in tick'[r].todo
Fired(i) ==
  \E r \in Ticks : /\ tick[r].pc = "add" /\ tick'[r].pc = "clear" /\ tick'[r].at = i
                   /\ job'[SchedulerJob(i, tick[r].now)].state # "none"

History ==
  /\ stamps' = [i \in Invoices |-> IF Stamped(i) THEN stamps[i] + 1 ELSE stamps[i]]
  /\ crowded' = [i \in Invoices |-> IF Found(i) /\ Held(i) # {} THEN crowded[i] + 1
                                                                ELSE crowded[i]]
  /\ owed' = (owed \cup {i \in Invoices : Stamped(i) /\ Held(i) = {}})
               \ {i \in Invoices : Fired(i)}

PickUpsInit ==
  /\ Init
  /\ stamps = [i \in Invoices |-> 0] /\ crowded = [i \in Invoices |-> 0] /\ owed = {}
PickUpsNext == Next /\ History
PickUpsSpec == PickUpsInit /\ [][PickUpsNext]_pickUpVars

-----------------------------------------------------------------------------
\* Properties.

(* Each due time brings one job of the scheduler: one more only when a run finds
   a payment that another run has on its list, or when a run fails or dies with
   its process (fireOverdueRetries adds the job before it clears the due time). *)
PickUpsAccounted ==
  \A i \in Invoices : Cardinality(PickUps(i)) <= stamps[i] + crowded[i] + faults

(* A due time is not cleared before a job was added for it, whatever else the
   runs on the way clear: only one that is written while a run has the payment
   on its list can be lost (the clearing update does not look at what it clears). *)
DueTimeKept == \A i \in owed : payment[i].nextRetryAt # Never

-----------------------------------------------------------------------------
\* What the inductive invariant of DunningProofs adds.

\* The runs that have yet to add the job for a payment on their list.
Waiting(i) == {r \in Held(i) : tick[r].pc = "clear" => tick[r].at # i}

\* A due time that no run has on its list.
Due(i) == IF payment[i].nextRetryAt # Never /\ Held(i) = {} THEN 1 ELSE 0

CountOK(i) ==
  Cardinality(PickUps(i)) + Cardinality(Waiting(i)) + Due(i) <= stamps[i] + crowded[i] + faults

Clearing(i) == {r \in Ticks : tick[r].pc = "clear" /\ tick[r].at = i}
OwedOK(i) ==
  i \in owed => /\ payment[i].nextRetryAt # Never /\ payment[i].status # "ABSENT"
                /\ Clearing(i) = {}

TickOK(r) ==
  /\ tick[r].pc = "query" => tick[r].todo = {}
  /\ tick[r].pc = "clear" => tick[r].at \in tick[r].todo

RowOK(f) == failure[f].pc # "idle" => payment[FailedInvoice[f]].status # "ABSENT"

PickUpsInv ==
  /\ stamps \in [Invoices -> Nat] /\ crowded \in [Invoices -> Nat] /\ owed \subseteq Invoices
  /\ \A r \in Ticks : TickOK(r)
  /\ \A f \in Failures : RowOK(f)
  /\ \A i \in Invoices : CountOK(i) /\ OwedOK(i)
=============================================================================
