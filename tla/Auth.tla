-------------------------------- MODULE Auth --------------------------------
(***************************************************************************)
(* core/auth on the server, for one e-mail address: sign-ups, log-ins with *)
(* the counter of failures and the lock, and the refresh tokens a log-out  *)
(* deletes.  A log-in reads the user, compares the password, which takes   *)
(* time, and writes what it computed from the read; the requests of        *)
(* several clients interleave.  E-mails are unique within a tenant only.   *)
(***************************************************************************)
EXTENDS Naturals, FiniteSets

CONSTANTS
  SignUps,          \* sign-up requests; an account is named by its sign-up
  LogIns,           \* log-in requests
  LogOuts,          \* log-out requests
  MaxFailedLogins,  \* MAX_FAILED_LOGINS (10)
  MaxAttempts       \* bound on wrong passwords for an account

ASSUME AuthAssumption ==
  /\ SignUps \cap LogIns = {} /\ SignUps \cap LogOuts = {} /\ LogIns \cap LogOuts = {}
  /\ IsFiniteSet(LogIns)
  /\ MaxFailedLogins \in Nat \ {0} /\ MaxAttempts \in Nat

VARIABLES
  user,     \* User rows: whether they exist, failedLogins and the lock
  signUp,   \* sign-up requests
  logIn,    \* log-in requests
  logOut,   \* log-out requests
  tokens,   \* RefreshToken rows, named by the request that created them
  wrong,    \* wrong passwords compared for an account so far
  since,    \* those since its failures were reset last
  lapsed,   \* log-ins since then that began while another of the account was in flight
  overlaps  \* sign-ups whose transactions overlapped

history == <<wrong, since, lapsed>>
authVars == <<user, signUp, logIn, logOut, tokens, history, overlaps>>

Nobody == "nobody"
NoToken == "no token"
Requests == SignUps \cup LogIns
\* lockedUntil: null, a time to come, a time gone by.
Locks == {"open", "locked", "expired"}
LogIn == [pc : {"idle", "compare", "reject", "reset", "audit", "token", "refused", "done"},
          of : SignUps \cup {Nobody}, seen : Nat]

AuthTypeOK ==
  /\ user \in [SignUps -> [exists : BOOLEAN, failed : Nat, lock : Locks]]
  /\ signUp \in [SignUps -> {"idle", "find", "create", "audit", "token", "refused", "done"}]
  /\ logIn \in [LogIns -> LogIn]
  /\ logOut \in [LogOuts -> [pc : {"idle", "delete", "refused", "done"},
                             token : Requests \cup {NoToken}]]
  /\ tokens \subseteq Requests
  /\ wrong \in [SignUps -> Nat] /\ since \in [SignUps -> Nat] /\ lapsed \subseteq LogIns
  /\ overlaps \subseteq SignUps

AuthInit ==
  /\ user = [u \in SignUps |-> [exists |-> FALSE, failed |-> 0, lock |-> "open"]]
  /\ signUp = [u \in SignUps |-> "idle"]
  /\ logIn = [l \in LogIns |-> [pc |-> "idle", of |-> Nobody, seen |-> 0]]
  /\ logOut = [x \in LogOuts |-> [pc |-> "idle", token |-> NoToken]]
  /\ tokens = {} /\ overlaps = {}
  /\ wrong = [u \in SignUps |-> 0] /\ since = [u \in SignUps |-> 0] /\ lapsed = {}

-----------------------------------------------------------------------------
\* signup.

SignUpTo(u, from, to) == signUp[u] = from /\ signUp' = [signUp EXCEPT ![u] = to]
Elsewhere == <<logIn, logOut, history>>

\* checkHibp and the hashing are done, or the password was found in a breach.
StartSignUp(u) ==
  /\ SignUpTo(u, "idle", "find") \/ SignUpTo(u, "idle", "refused")
  /\ UNCHANGED <<Elsewhere, user, tokens, overlaps>>

\* Mutated: an account is looked for in the tenant to be created.
FindUserInTenant(u) ==
  /\ SignUpTo(u, "find", "create")
  /\ UNCHANGED <<Elsewhere, user, tokens, overlaps>>

\* The transaction finds a user with the e-mail, or none.  Another transaction
\* that has found none and has not committed is not seen.
FindUser(u) ==
  LET others == {v \in SignUps : signUp[v] = "create"} IN
  /\ IF \E v \in SignUps : user[v].exists
     THEN SignUpTo(u, "find", "refused") /\ overlaps' = overlaps
     ELSE /\ SignUpTo(u, "find", "create")
          /\ overlaps' = IF others = {} THEN overlaps ELSE overlaps \cup others \cup {u}
  /\ UNCHANGED <<Elsewhere, user, tokens>>

\* It creates the tenant and the user, and commits; or it is rolled back.
CommitUser(u) ==
  /\ \/ SignUpTo(u, "create", "audit") /\ user' = [user EXCEPT ![u].exists = TRUE]
     \/ SignUpTo(u, "create", "refused") /\ user' = user
  /\ UNCHANGED <<Elsewhere, tokens, overlaps>>

\* The audit entry; if it fails the account exists all the same.
AuditSignUp(u) ==
  /\ SignUpTo(u, "audit", "token") \/ SignUpTo(u, "audit", "refused")
  /\ UNCHANGED <<Elsewhere, user, tokens, overlaps>>

\* createRefreshToken.
SignUpToken(u) ==
  /\ SignUpTo(u, "token", "done")
  /\ tokens' = tokens \cup {u}
  /\ UNCHANGED <<Elsewhere, user, overlaps>>

-----------------------------------------------------------------------------
\* login.

LogInTo(l, from, to) == logIn[l].pc = from /\ logIn' = [logIn EXCEPT ![l].pc = to]
Others == <<signUp, logOut, overlaps>>

\* The log-ins of an account between the read of its row and the write to it.
InFlight(u) ==
  {l \in LogIns : logIn[l].of = u /\ logIn[l].pc \in {"compare", "reject", "reset"}}

\* findFirst by e-mail, any of the accounts that have it; a locked one is refused.
FindAccount(l) ==
  /\ logIn[l].pc = "idle"
  /\ \/ \E u \in SignUps :
          /\ user[u].exists
          /\ logIn' = [logIn EXCEPT ![l] =
               [pc |-> IF user[u].lock = "locked" THEN "refused" ELSE "compare",
                of |-> u, seen |-> user[u].failed]]
          /\ lapsed' = IF user[u].lock # "locked" /\ InFlight(u) # {} THEN lapsed \cup {l}
                                                                      ELSE lapsed
     \/ /\ \A u \in SignUps : ~ user[u].exists
        /\ logIn' = [logIn EXCEPT ![l].pc = "refused"]
        /\ lapsed' = lapsed
  /\ UNCHANGED <<Others, user, tokens, wrong, since>>

\* bcrypt.compare.
ComparePassword(l) ==
  LET u == logIn[l].of IN
  /\ \/ LogInTo(l, "compare", "reset") /\ wrong' = wrong /\ since' = since
     \/ /\ LogInTo(l, "compare", "reject")
        /\ wrong[u] < MaxAttempts /\ wrong' = [wrong EXCEPT ![u] = wrong[u] + 1]
        /\ since' = [since EXCEPT ![u] = since[u] + 1]
  /\ UNCHANGED <<Others, user, tokens, lapsed>>

\* Mutated: the number that was read decides about the lock, one too early.
RejectPasswordEarly(l) ==
  LET n == logIn[l].seen + 1 IN
  /\ LogInTo(l, "reject", "refused")
  /\ user' = [user EXCEPT ![logIn[l].of].failed = n,
       ![logIn[l].of].lock = IF n + 1 >= MaxFailedLogins THEN "locked" ELSE "open"]
  /\ UNCHANGED <<Others, tokens, history>>

\* Mutated: the lock comes one too late.
RejectPasswordLate(l) ==
  LET n == logIn[l].seen + 1 IN
  /\ LogInTo(l, "reject", "refused")
  /\ user' = [user EXCEPT ![logIn[l].of].failed = n,
       ![logIn[l].of].lock = IF n > MaxFailedLogins THEN "locked" ELSE "open"]
  /\ UNCHANGED <<Others, tokens, history>>

\* failedLogins: the number read, plus one; lockedUntil: from now, or null.
RejectPassword(l) ==
  LET n == logIn[l].seen + 1 IN
  /\ LogInTo(l, "reject", "refused")
  /\ user' = [user EXCEPT ![logIn[l].of].failed = n,
       ![logIn[l].of].lock = IF n >= MaxFailedLogins THEN "locked" ELSE "open"]
  /\ UNCHANGED <<Others, tokens, history>>

\* The lock is a time in the future for LOCKOUT_MINUTES; the number stays.
LockExpires(u) ==
  /\ user[u].lock = "locked"
  /\ user' = [user EXCEPT ![u].lock = "expired"]
  /\ UNCHANGED <<Others, logIn, tokens, history>>

\* failedLogins: 0, lockedUntil: null; the history of the account starts anew.
ResetFailures(l) ==
  LET u == logIn[l].of IN
  /\ LogInTo(l, "reset", "audit")
  /\ user' = [user EXCEPT ![u].failed = 0, ![u].lock = "open"]
  /\ since' = [since EXCEPT ![u] = 0]
  /\ lapsed' = {k \in lapsed : logIn[k].of = u => k \in InFlight(u) \ {l}}
  /\ UNCHANGED <<Others, tokens, wrong>>

AuditLogIn(l) ==
  /\ LogInTo(l, "audit", "token") \/ LogInTo(l, "audit", "refused")
  /\ UNCHANGED <<Others, user, tokens, history>>

LogInToken(l) ==
  /\ LogInTo(l, "token", "done")
  /\ tokens' = tokens \cup {l}
  /\ UNCHANGED <<Others, user, history>>

-----------------------------------------------------------------------------
\* logout: the row whose hash matches, then delete by id, an error if it is gone.

FindToken(x) ==
  /\ logOut[x].pc = "idle"
  /\ \/ \E k \in tokens : logOut' = [logOut EXCEPT ![x] = [pc |-> "delete", token |-> k]]
     \/ logOut' = [logOut EXCEPT ![x].pc = "refused"]
  /\ UNCHANGED <<user, signUp, logIn, tokens, history, overlaps>>

DeleteToken(x) ==
  /\ logOut[x].pc = "delete"
  /\ tokens' = tokens \ {logOut[x].token}
  /\ logOut' = [logOut EXCEPT ![x].pc = IF logOut[x].token \in tokens THEN "done" ELSE "refused"]
  /\ UNCHANGED <<user, signUp, logIn, history, overlaps>>

AuthNext ==
  \/ \E u \in SignUps :
       \/ StartSignUp(u) \/ FindUser(u) \/ CommitUser(u) \/ AuditSignUp(u) \/ SignUpToken(u)
       \/ LockExpires(u)
  \/ \E l \in LogIns :
       \/ FindAccount(l) \/ ComparePassword(l) \/ RejectPassword(l) \/ ResetFailures(l)
       \/ AuditLogIn(l) \/ LogInToken(l)
  \/ \E x \in LogOuts : FindToken(x) \/ DeleteToken(x)

AuthSpec == AuthInit /\ [][AuthNext]_authVars

-----------------------------------------------------------------------------
(* Properties.                                                             *)

\* Whatever log-ins overlap, an account is locked only after MaxFailedLogins
\* wrong passwords, and its counter never runs ahead of them (login).
LockNeedsFailures ==
  \A u \in SignUps : /\ user[u].failed <= wrong[u]
                     /\ user[u].lock = "locked" => wrong[u] >= MaxFailedLogins

\* The log-ins whose wrong password the counter may not show: one in flight, and
\* one that overlapped another of the account.
Lapsed(u) == {l \in lapsed : logIn[l].of = u}
Uncounted(u) == Lapsed(u) \cup InFlight(u)

\* Of the wrong passwords since the last reset the counter misses at most one for
\* each log-in that overlapped another, so that only these can delay the lock:
\* MaxFailedLogins and as many more, and lockedUntil is set (login).
FailuresAreCounted ==
  \A u \in SignUps :
    LET missed == Cardinality(Uncounted(u)) IN
    /\ since[u] <= user[u].failed + missed
    /\ since[u] >= MaxFailedLogins + missed => user[u].lock # "open"

\* Two accounts have one e-mail only if their sign-ups overlapped between the
\* lookup and the commit (signup: the unique key is per tenant).
DuplicateNeedsOverlap ==
  \A u, v \in SignUps : user[u].exists /\ user[v].exists /\ u # v => {u, v} \subseteq overlaps

-----------------------------------------------------------------------------
(* What the inductive invariants of AuthProofs add.                        *)

\* A log-in that is about to count has read a number that the wrong passwords
\* before it account for.
SeenIsAccounted ==
  \A l \in LogIns :
    /\ logIn[l].pc = "compare" => logIn[l].of \in SignUps /\ logIn[l].seen <= wrong[logIn[l].of]
    /\ logIn[l].pc = "reject" => logIn[l].of \in SignUps /\ logIn[l].seen < wrong[logIn[l].of]
    /\ logIn[l].pc = "reset" => logIn[l].of \in SignUps

\* The sign-up has found no account, or has one.
PastLookup(u) == signUp[u] = "create" \/ user[u].exists
TwoPastLookup ==
  \A u, v \in SignUps : u # v /\ PastLookup(u) /\ PastLookup(v) => {u, v} \subseteq overlaps

SignInInv == AuthTypeOK /\ SeenIsAccounted /\ LockNeedsFailures /\ TwoPastLookup

\* A wrong password that may yet come is allowed for, in the counter and in what
\* a log-in is about to write to it; of the log-ins in flight one has not lapsed.
Comparing(u) == {l \in LogIns : logIn[l].of = u /\ logIn[l].pc = "compare"}
CountedAt(u) ==
  LET ahead == since[u] + Cardinality(Comparing(u)) IN
  /\ ahead <= user[u].failed + Cardinality(Uncounted(u))
  /\ \A l \in InFlight(u) :
       logIn[l].pc # "reset" => ahead <= logIn[l].seen + 1 + Cardinality(Lapsed(u))
  /\ \A l, m \in InFlight(u) \ Lapsed(u) : l = m
  /\ user[u].failed >= MaxFailedLogins => user[u].lock # "open"
CountInv ==
  /\ \A u \in SignUps : CountedAt(u)
  /\ \A l \in lapsed : logIn[l].pc # "idle"

AuthInv == SignInInv /\ CountInv
=============================================================================
