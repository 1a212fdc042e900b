------------------------------- MODULE MCSignIn -------------------------------
(* Small instances of signing in on the server and of the session of a tab.   *)
(* The two share no state here: a behaviour is one of them.                    *)
EXTENDS Auth, Session

VARIABLE part

Init == part \in {"auth", "session"} /\ AuthInit /\ SessionInit
Next ==
  /\ UNCHANGED part
  /\ \/ part = "auth" /\ AuthNext /\ UNCHANGED sessionVars
     \/ part = "session" /\ SessionNext /\ UNCHANGED authVars
Spec == Init /\ [][Next]_<<part, authVars, sessionVars>> /\ SessionFairness

\* Every variable of the two modules holds a value of its kind.
TypeOK == AuthTypeOK /\ SessionTypeOK
=============================================================================
