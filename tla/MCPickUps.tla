------------------------------ MODULE MCPickUps ------------------------------
(* A small instance of Dunning without its scheduler, and one of              *)
(* DunningPickUps without its workers: a behaviour is one of the two.  What a *)
(* run of the scheduler reads, payments and the ids of jobs, no worker writes. *)
EXTENDS DunningPickUps, MCDunning

VARIABLE part

\* Two runs that overlap in one process.
TwoTicksOfApi == [r \in TwoTicks |-> "api"]

PartsInit == PickUpsInit /\ part \in {"workers", "schedulers"}

PartsNext ==
  /\ \/ part = "workers" /\ Next /\ UNCHANGED <<tick, stamps, crowded, owed>>
     \/ /\ part = "schedulers" /\ PickUpsNext
        /\ \A j \in JobIds : job[j].state # "none" => job'[j] = job[j]
        /\ \A e \in Edits : Dto[e].op = "update" => edit'[e] = edit[e]
  /\ UNCHANGED part

PartsSpec == PartsInit /\ [][PartsNext]_<<pickUpVars, part>>
=============================================================================
