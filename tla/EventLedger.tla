----------------------------- MODULE EventLedger -----------------------------
(***************************************************************************)
(* What the webhook monitor promises about a stored event, without queue,  *)
(* worker or handler: an event is open until somebody who has taken a duty *)
(* for it closes it, as processed or as failed.  It is opened, at first or *)
(* again, only together with a duty, so no open event is forgotten unless  *)
(* the system is lossy.                                                    *)
(***************************************************************************)
CONSTANTS
  Items,   \* stored events
  Doers,   \* whoever can owe an item its processing
  Lossy    \* duties may vanish without being discharged

VARIABLES phase, duties

vars == <<phase, duties>>

Phase == {"absent", "open", "processed", "failed"}

TypeOK ==
  /\ phase \in [Items -> Phase]
  /\ duties \in [Items -> SUBSET Doers]

Init ==
  /\ phase = [i \in Items |-> "absent"]
  /\ duties = [i \in Items |-> {}]

\* An item is accepted with exactly one duty.
Accept(i, w) ==
  /\ phase[i] = "absent"
  /\ phase' = [phase EXCEPT ![i] = "open"]
  /\ duties' = [duties EXCEPT ![i] = {w}]

\* w takes a duty for i, or has one already, and may reopen the item.
Work(i, w) ==
  /\ phase[i] # "absent"
  /\ phase' \in {phase, [phase EXCEPT ![i] = "open"]}
  /\ duties' = [duties EXCEPT ![i] = @ \cup {w}]

\* w discharges its duty and closes the item; other duties may remain.
Discharge(i, w) ==
  /\ w \in duties[i]
  /\ \E outcome \in {"processed", "failed"} : phase' = [phase EXCEPT ![i] = outcome]
  /\ duties' = [duties EXCEPT ![i] = @ \ {w}]

\* A fault: duties are lost or taken over and a stored item may be reopened by
\* somebody without a duty, but no item is closed.
Disturb ==
  /\ Lossy
  /\ phase' \in [Items -> Phase]
  /\ \A i \in Items : phase'[i] # phase[i] => phase[i] # "absent" /\ phase'[i] = "open"
  /\ duties' \in [Items -> SUBSET Doers]

Next ==
  \/ \E i \in Items, w \in Doers : Accept(i, w) \/ Work(i, w) \/ Discharge(i, w)
  \/ Disturb

Spec == Init /\ [][Next]_vars

\* Without losses an open item has a duty.
OpenIsOwed == ~ Lossy => \A i \in Items : phase[i] = "open" => duties[i] # {}
=============================================================================
