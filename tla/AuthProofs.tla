------------------------------ MODULE AuthProofs ------------------------------
(***************************************************************************)
(* Signing in: the counter of failures and the lock, and accounts with one *)
(* e-mail address, for every number of requests and every threshold.       *)
(***************************************************************************)
EXTENDS Auth, FiniteSetTheorems, TLAPS

LEMMA InitInv == AuthInit => SignInInv
  <1> SUFFICES ASSUME AuthInit PROVE SignInInv
    OBVIOUS
  <1>1. AuthTypeOK
    BY DEF AuthInit, AuthTypeOK, LogIn, Locks
  <1>2. SeenIsAccounted /\ TwoPastLookup
    BY DEF AuthInit, SeenIsAccounted, TwoPastLookup, PastLookup
  <1>3. LockNeedsFailures
    BY AuthAssumption DEF AuthInit, LockNeedsFailures
  <1> QED
    BY <1>1, <1>2, <1>3 DEF SignInInv

-----------------------------------------------------------------------------
\* Steps of a sign-up leave log-ins, counters and locks as they are.

LEMMA SignUpKeeps ==
  ASSUME NEW u \in SignUps, SignInInv,
         StartSignUp(u) \/ FindUser(u) \/ CommitUser(u) \/ AuditSignUp(u) \/ SignUpToken(u)
  PROVE SignInInv'
  <1> USE DEF SignInInv
  <1>1. \A w \in SignUps : user'[w].failed = user[w].failed /\ user'[w].lock = user[w].lock
    BY DEF AuthTypeOK, StartSignUp, FindUser, CommitUser, AuditSignUp, SignUpToken, SignUpTo
  <1>2. UNCHANGED <<logIn, logOut, wrong, since, lapsed>>
    BY DEF StartSignUp, FindUser, CommitUser, AuditSignUp, SignUpToken, Elsewhere, history
  <1>3. AuthTypeOK'
    <2>1. user' \in [SignUps -> [exists : BOOLEAN, failed : Nat, lock : Locks]]
      BY DEF AuthTypeOK, StartSignUp, FindUser, CommitUser, AuditSignUp, SignUpToken
    <2>2. signUp' \in [SignUps -> {"idle", "find", "create", "audit", "token", "refused", "done"}]
      BY DEF AuthTypeOK, StartSignUp, FindUser, CommitUser, AuditSignUp, SignUpToken, SignUpTo
    <2>3. tokens' \subseteq Requests /\ overlaps' \subseteq SignUps
      BY DEF AuthTypeOK, StartSignUp, FindUser, CommitUser, AuditSignUp, SignUpToken, Requests
    <2> QED
      BY <1>2, <2>1, <2>2, <2>3 DEF AuthTypeOK
  <1>4. SeenIsAccounted'
    BY <1>2 DEF SeenIsAccounted
  <1>5. LockNeedsFailures'
    BY <1>1, <1>2 DEF LockNeedsFailures
  <1>6. TwoPastLookup'
    <2> SUFFICES ASSUME NEW v \in SignUps, NEW w \in SignUps, v # w,
                        PastLookup(v)', PastLookup(w)'
                 PROVE {v, w} \subseteq overlaps'
      BY DEF TwoPastLookup
    <2>1. overlaps \subseteq overlaps'
      BY DEF StartSignUp, FindUser, CommitUser, AuditSignUp, SignUpToken
    <2>2. CASE FindUser(u) /\ ~ \E x \in SignUps : user[x].exists
      <3>1. \A x \in SignUps : PastLookup(x)' => x = u \/ signUp[x] = "create"
        BY <2>2 DEF FindUser, SignUpTo, PastLookup, AuthTypeOK
      <3>2. CASE v # u /\ w # u
        BY <2>1, <3>1, <3>2 DEF TwoPastLookup, PastLookup
      <3>3. CASE v = u \/ w = u
        BY <2>2, <3>1, <3>3 DEF FindUser
      <3> QED
        BY <3>2, <3>3
    <2>3. CASE ~ (FindUser(u) /\ ~ \E x \in SignUps : user[x].exists)
      <3>1. \A x \in SignUps : PastLookup(x)' => PastLookup(x)
        BY <2>3 DEF PastLookup, StartSignUp, FindUser, CommitUser, AuditSignUp, SignUpToken,
                    SignUpTo, AuthTypeOK
      <3> QED
        BY <2>1, <3>1 DEF TwoPastLookup
    <2> QED
      BY <2>2, <2>3
  <1> QED
    BY <1>3, <1>4, <1>5, <1>6

-----------------------------------------------------------------------------
\* Steps of a log-in, and the end of a lock, leave the sign-ups as they are.

LookupSame ==
  UNCHANGED <<signUp, overlaps>> /\ \A u \in SignUps : user'[u].exists = user[u].exists

LEMMA LookupKept ==
  ASSUME TwoPastLookup, LookupSame
  PROVE TwoPastLookup'
  BY DEF LookupSame, TwoPastLookup, PastLookup

LEMMA FindAccountKeeps ==
  ASSUME NEW l \in LogIns, SignInInv, FindAccount(l)
  PROVE SignInInv'
  <1> USE DEF SignInInv
  <1>1. UNCHANGED <<signUp, logOut, overlaps, user, tokens, wrong, since>>
    BY DEF FindAccount, Others
  <1>2. PICK v \in LogIn : /\ logIn' = [logIn EXCEPT ![l] = v]
                           /\ v.pc = "refused" \/ (v.pc = "compare" /\ v.of \in SignUps
                                                   /\ v.seen = user[v.of].failed)
    <2>1. CASE \A u \in SignUps : ~ user[u].exists
      <3>1. logIn' = [logIn EXCEPT ![l] = [logIn[l] EXCEPT !.pc = "refused"]]
        BY <2>1 DEF FindAccount, AuthTypeOK
      <3>2. [logIn[l] EXCEPT !.pc = "refused"] \in LogIn
        BY DEF AuthTypeOK, LogIn
      <3>3. [logIn[l] EXCEPT !.pc = "refused"].pc = "refused"
        BY DEF AuthTypeOK, LogIn
      <3> QED
        BY <3>1, <3>2, <3>3
    <2>2. CASE \E u \in SignUps : user[u].exists
      <3>1. PICK u \in SignUps : logIn' = [logIn EXCEPT ![l] =
               [pc |-> IF user[u].lock = "locked" THEN "refused" ELSE "compare",
                of |-> u, seen |-> user[u].failed]]
        BY <2>2 DEF FindAccount
      <3>2. [pc |-> IF user[u].lock = "locked" THEN "refused" ELSE "compare",
             of |-> u, seen |-> user[u].failed] \in LogIn
        BY DEF AuthTypeOK, LogIn
      <3> QED
        BY <3>1, <3>2
    <2> QED
      BY <2>1, <2>2
  <1>3. AuthTypeOK'
    <2>1. lapsed' \subseteq LogIns
      BY DEF FindAccount, AuthTypeOK
    <2> QED
      BY <1>1, <1>2, <2>1 DEF AuthTypeOK
  <1>4. SeenIsAccounted'
    BY <1>1, <1>2 DEF SeenIsAccounted, LockNeedsFailures, AuthTypeOK
  <1>5. LockNeedsFailures' /\ LookupSame
    BY <1>1 DEF LockNeedsFailures, LookupSame
  <1> QED
    BY <1>3, <1>4, <1>5, LookupKept

LEMMA ComparePasswordKeeps ==
  ASSUME NEW l \in LogIns, SignInInv, ComparePassword(l)
  PROVE SignInInv'
  <1> USE DEF SignInInv
  <1> DEFINE u == logIn[l].of
  <1>1. u \in SignUps /\ logIn[l].pc = "compare" /\ logIn[l].seen <= wrong[u]
    BY DEF ComparePassword, LogInTo, SeenIsAccounted
  <1>2. UNCHANGED <<signUp, logOut, overlaps, user, tokens>>
    BY DEF ComparePassword, Others
  <1>9. since' \in [SignUps -> Nat] /\ UNCHANGED lapsed
    BY <1>1 DEF ComparePassword, AuthTypeOK
  <1>3. PICK pc \in {"reset", "reject"} :
          /\ logIn' = [logIn EXCEPT ![l].pc = pc]
          /\ wrong' = IF pc = "reject" THEN [wrong EXCEPT ![u] = wrong[u] + 1] ELSE wrong
    BY DEF ComparePassword, LogInTo
  <1>4. wrong' \in [SignUps -> Nat] /\ \A w \in SignUps : wrong[w] <= wrong'[w]
    BY <1>1, <1>3 DEF AuthTypeOK
  <1>5. AuthTypeOK'
    <2>1. [logIn[l] EXCEPT !.pc = pc] \in LogIn
      BY DEF AuthTypeOK, LogIn
    <2> QED
      BY <1>2, <1>3, <1>4, <1>9, <2>1 DEF AuthTypeOK
  <1>6. SeenIsAccounted'
    <2> SUFFICES ASSUME NEW k \in LogIns
                 PROVE /\ logIn'[k].pc = "compare" => logIn'[k].of \in SignUps
                                                      /\ logIn'[k].seen <= wrong'[logIn'[k].of]
                       /\ logIn'[k].pc = "reject" => logIn'[k].of \in SignUps
                                                     /\ logIn'[k].seen < wrong'[logIn'[k].of]
                       /\ logIn'[k].pc = "reset" => logIn'[k].of \in SignUps
      BY DEF SeenIsAccounted
    <2>1. CASE k = l
      BY <1>1, <1>3, <2>1 DEF AuthTypeOK, LogIn
    <2>2. CASE k # l
      <3>1. logIn'[k] = logIn[k] /\ logIn[k].seen \in Nat
        BY <1>3, <2>2 DEF AuthTypeOK, LogIn
      <3> QED
        BY <1>4, <3>1 DEF SeenIsAccounted, AuthTypeOK
    <2> QED
      BY <2>1, <2>2
  <1>7. LockNeedsFailures'
    BY <1>2, <1>4, AuthAssumption DEF LockNeedsFailures, AuthTypeOK
  <1>8. LookupSame
    BY <1>2 DEF LookupSame
  <1> QED
    BY <1>5, <1>6, <1>7, <1>8, LookupKept

\* The write of a log-in to the row of its account, and the end of a lock.
LEMMA AccountWriteKeeps ==
  ASSUME SignInInv,
         NEW u \in SignUps, NEW n \in Nat, NEW lock \in Locks,
         UNCHANGED <<signUp, logOut, overlaps, tokens, wrong>>,
         user' = [user EXCEPT ![u].failed = n, ![u].lock = lock],
         n <= wrong[u], lock = "locked" => wrong[u] >= MaxFailedLogins,
         since' \in [SignUps -> Nat], lapsed' \subseteq LogIns,
         logIn' \in [LogIns -> LogIn],
         \A k \in LogIns : logIn'[k] = logIn[k] \/ logIn'[k].pc \in {"refused", "audit"}
  PROVE SignInInv'
  <1> USE DEF SignInInv
  <1>1. AuthTypeOK'
    <2> DEFINE Account == [exists : BOOLEAN, failed : Nat, lock : Locks]
               v == [user[u] EXCEPT !.failed = n, !.lock = lock]
    <2>0. user \in [SignUps -> Account]
      BY DEF AuthTypeOK
    <2>1. user' \in [SignUps -> Account]
      <3>1. user[u] \in Account
        BY <2>0
      <3>2. v \in Account
        BY <3>1, Zenon
      <3>3. user' = [user EXCEPT ![u] = v]
        BY <2>0
      <3> HIDE DEF v, Account
      <3> QED
        BY <2>0, <3>2, <3>3
    <2> QED
      BY <2>1 DEF AuthTypeOK
  <1>2. SeenIsAccounted'
    BY DEF SeenIsAccounted
  <1>3. LockNeedsFailures'
    BY DEF LockNeedsFailures, AuthTypeOK
  <1>4. LookupSame
    BY DEF LookupSame, AuthTypeOK
  <1> QED
    BY <1>1, <1>2, <1>3, <1>4, LookupKept

LEMMA RejectPasswordKeeps ==
  ASSUME NEW l \in LogIns, SignInInv, RejectPassword(l)
  PROVE SignInInv'
  <1> DEFINE u == logIn[l].of
             n == logIn[l].seen + 1
             lock == IF n >= MaxFailedLogins THEN "locked" ELSE "open"
  <1>1. u \in SignUps /\ logIn[l].seen < wrong[u]
    BY DEF SignInInv, RejectPassword, LogInTo, SeenIsAccounted
  <1>2. logIn[l] \in LogIn /\ wrong[u] \in Nat
    BY <1>1 DEF SignInInv, AuthTypeOK
  <1>3. n \in Nat /\ n <= wrong[u]
    BY <1>1, <1>2 DEF LogIn
  <1>4. lock \in Locks /\ (lock = "locked" => wrong[u] >= MaxFailedLogins)
    BY <1>2, <1>3, AuthAssumption DEF Locks
  <1>5. UNCHANGED <<signUp, logOut, overlaps, tokens, wrong>>
    BY DEF RejectPassword, Others, history
  <1>8. since' \in [SignUps -> Nat] /\ lapsed' \subseteq LogIns
    BY DEF RejectPassword, history, SignInInv, AuthTypeOK
  <1>6. user' = [user EXCEPT ![u].failed = n, ![u].lock = lock]
    BY DEF RejectPassword
  <1>7. /\ logIn' \in [LogIns -> LogIn]
        /\ \A k \in LogIns : logIn'[k] = logIn[k] \/ logIn'[k].pc \in {"refused", "audit"}
    BY <1>2 DEF RejectPassword, LogInTo, SignInInv, AuthTypeOK, LogIn
  <1> HIDE DEF u, n, lock
  <1> QED
    BY <1>1, <1>3, <1>4, <1>5, <1>6, <1>7, <1>8, AccountWriteKeeps

LEMMA ResetFailuresKeeps ==
  ASSUME NEW l \in LogIns, SignInInv, ResetFailures(l)
  PROVE SignInInv'
  <1> DEFINE u == logIn[l].of
  <1>1. u \in SignUps
    BY DEF SignInInv, ResetFailures, LogInTo, SeenIsAccounted
  <1>2. logIn[l] \in LogIn /\ 0 <= wrong[u]
    BY <1>1 DEF SignInInv, AuthTypeOK
  <1>3. UNCHANGED <<signUp, logOut, overlaps, tokens, wrong>>
    BY DEF ResetFailures, Others
  <1>4. user' = [user EXCEPT ![u].failed = 0, ![u].lock = "open"]
    BY DEF ResetFailures
  <1>5. /\ logIn' \in [LogIns -> LogIn]
        /\ \A k \in LogIns : logIn'[k] = logIn[k] \/ logIn'[k].pc \in {"refused", "audit"}
    BY <1>2 DEF ResetFailures, LogInTo, SignInInv, AuthTypeOK, LogIn
  <1>6. "open" \in Locks /\ "open" # "locked" /\ 0 \in Nat
    BY DEF Locks
  <1>7. since' \in [SignUps -> Nat] /\ lapsed' \subseteq LogIns
    BY <1>1 DEF ResetFailures, SignInInv, AuthTypeOK
  <1> HIDE DEF u
  <1> QED
    BY <1>1, <1>2, <1>3, <1>4, <1>5, <1>6, <1>7, AccountWriteKeeps

LEMMA LockExpiresKeeps ==
  ASSUME NEW u \in SignUps, SignInInv, LockExpires(u)
  PROVE SignInInv'
  <1>1. user[u].failed \in Nat /\ user[u].failed <= wrong[u]
    BY DEF SignInInv, AuthTypeOK, LockNeedsFailures
  <1>2. user' = [user EXCEPT ![u].failed = user[u].failed, ![u].lock = "expired"]
    BY DEF LockExpires, SignInInv, AuthTypeOK
  <1>3. UNCHANGED <<signUp, logOut, overlaps, tokens, wrong, logIn>>
    BY DEF LockExpires, Others, history
  <1>4. logIn \in [LogIns -> LogIn] /\ "expired" \in Locks /\ "expired" # "locked"
    BY DEF SignInInv, AuthTypeOK, Locks
  <1>5. since' \in [SignUps -> Nat] /\ lapsed' \subseteq LogIns
    BY DEF LockExpires, history, SignInInv, AuthTypeOK
  <1> QED
    BY <1>1, <1>2, <1>3, <1>4, <1>5, AccountWriteKeeps

\* The rest of a log-in, and a log-out, touch neither accounts nor counters.
LEMMA TokenStepKeeps ==
  ASSUME SignInInv,
         \/ \E l \in LogIns : AuditLogIn(l) \/ LogInToken(l)
         \/ \E x \in LogOuts : FindToken(x) \/ DeleteToken(x)
  PROVE SignInInv'
  <1> USE DEF SignInInv
  <1>1. UNCHANGED <<user, signUp, wrong, since, lapsed, overlaps>>
    BY DEF AuditLogIn, LogInToken, FindToken, DeleteToken, Others, history
  <1>2. /\ logIn' \in [LogIns -> LogIn]
        /\ \A k \in LogIns : \/ logIn'[k] = logIn[k]
                             \/ logIn'[k].pc \in {"token", "refused", "done"}
    <2>1. CASE \E l \in LogIns : AuditLogIn(l) \/ LogInToken(l)
      <3>1. PICK l \in LogIns, pc \in {"token", "refused", "done"} : logIn' = [logIn EXCEPT ![l].pc = pc]
        BY <2>1 DEF AuditLogIn, LogInToken, LogInTo
      <3>2. logIn[l] \in LogIn
        BY DEF AuthTypeOK
      <3>3. [logIn[l] EXCEPT !.pc = pc] \in LogIn /\ [logIn[l] EXCEPT !.pc = pc].pc = pc
        BY <3>1, <3>2 DEF LogIn
      <3> QED
        BY <3>1, <3>3 DEF AuthTypeOK
    <2>2. CASE \E x \in LogOuts : FindToken(x) \/ DeleteToken(x)
      BY <2>2 DEF FindToken, DeleteToken, AuthTypeOK
    <2> QED
      BY <2>1, <2>2
  <1>3. tokens' \subseteq Requests
    BY DEF AuditLogIn, LogInToken, FindToken, DeleteToken, AuthTypeOK, Requests
  <1>4. logOut' \in [LogOuts -> [pc : {"idle", "delete", "refused", "done"},
                                 token : Requests \cup {NoToken}]]
    <2>1. CASE \E l \in LogIns : AuditLogIn(l) \/ LogInToken(l)
      BY <2>1 DEF AuditLogIn, LogInToken, Others, AuthTypeOK
    <2>2. CASE \E x \in LogOuts : FindToken(x)
      BY <2>2 DEF FindToken, AuthTypeOK
    <2>3. CASE \E x \in LogOuts : DeleteToken(x)
      BY <2>3 DEF DeleteToken, AuthTypeOK
    <2> QED
      BY <2>1, <2>2, <2>3
  <1>5. AuthTypeOK'
    BY <1>1, <1>2, <1>3, <1>4 DEF AuthTypeOK
  <1>6. SeenIsAccounted'
    BY <1>1, <1>2 DEF SeenIsAccounted
  <1>7. LockNeedsFailures' /\ LookupSame
    BY <1>1 DEF LockNeedsFailures, LookupSame
  <1> QED
    BY <1>5, <1>6, <1>7, LookupKept

LEMMA NextInv == SignInInv /\ [AuthNext]_authVars => SignInInv'
  <1> SUFFICES ASSUME SignInInv, [AuthNext]_authVars PROVE SignInInv'
    OBVIOUS
  <1>1. CASE UNCHANGED authVars
    BY <1>1 DEF authVars, history, SignInInv, AuthTypeOK, SeenIsAccounted, LockNeedsFailures,
                TwoPastLookup, PastLookup
  <1>2. CASE \E u \in SignUps : StartSignUp(u) \/ FindUser(u) \/ CommitUser(u)
                                \/ AuditSignUp(u) \/ SignUpToken(u)
    BY <1>2, SignUpKeeps
  <1>3. CASE \E u \in SignUps : LockExpires(u)
    BY <1>3, LockExpiresKeeps
  <1>4. CASE \E l \in LogIns : FindAccount(l) \/ ComparePassword(l) \/ RejectPassword(l)
                               \/ ResetFailures(l)
    BY <1>4, FindAccountKeeps, ComparePasswordKeeps, RejectPasswordKeeps, ResetFailuresKeeps
  <1>5. CASE \E l \in LogIns : AuditLogIn(l) \/ LogInToken(l)
    BY <1>5, TokenStepKeeps
  <1>6. CASE \E x \in LogOuts : FindToken(x) \/ DeleteToken(x)
    BY <1>6, TokenStepKeeps
  <1> QED
    BY <1>1, <1>2, <1>3, <1>4, <1>5, <1>6 DEF AuthNext

-----------------------------------------------------------------------------
(* Counting the wrong passwords.                                           *)

\* A is in flight and B has lapsed: at most one of A that has not adds one at most.
LEMMA OneBeyond ==
  ASSUME NEW A, NEW B, IsFiniteSet(A), IsFiniteSet(B)
  PROVE  /\ Cardinality(A) \in Nat /\ Cardinality(B) \in Nat /\ Cardinality(B \cup A) \in Nat
         /\ Cardinality(A) <= Cardinality(B \cup A) /\ Cardinality(B) <= Cardinality(B \cup A)
         /\ (\A a, b \in A \ B : a = b) => Cardinality(B \cup A) <= Cardinality(B) + 1
  <1>1. IsFiniteSet(B \cup A)
    BY FS_Union
  <1>2. /\ Cardinality(A) \in Nat /\ Cardinality(B) \in Nat /\ Cardinality(B \cup A) \in Nat
        /\ Cardinality(A) <= Cardinality(B \cup A) /\ Cardinality(B) <= Cardinality(B \cup A)
    BY <1>1, FS_CardinalityType, FS_Subset
  <1>3. ASSUME \A a, b \in A \ B : a = b
        PROVE  Cardinality(B \cup A) <= Cardinality(B) + 1
    <2>1. CASE A \ B = {}
      <3>1. B \cup A = B
        BY <2>1
      <3> QED
        BY <1>2, <3>1
    <2>2. CASE A \ B # {}
      <3>1. PICK a \in A \ B : A \ B = {a}
        BY <1>3, <2>2
      <3>2. B \cup A = B \cup {a} /\ a \notin B
        BY <3>1
      <3>3. Cardinality(B \cup {a}) = Cardinality(B) + 1
        BY <3>2, FS_AddElement
      <3>4. Cardinality(B \cup A) = Cardinality(B) + 1
        BY <3>2, <3>3, Zenon
      <3> QED
        BY <1>2, <3>4
    <2> QED
      BY <2>1, <2>2
  <1> QED
    BY <1>2, <1>3

LEMMA LogInsFinite ==
  ASSUME NEW u \in SignUps
  PROVE  /\ IsFiniteSet(InFlight(u)) /\ IsFiniteSet(Comparing(u))
         /\ lapsed \subseteq LogIns => IsFiniteSet(Lapsed(u))
  BY AuthAssumption, FS_Subset DEF InFlight, Comparing, Lapsed

LEMMA LogInsFiniteNext ==
  ASSUME NEW u \in SignUps
  PROVE  /\ IsFiniteSet(InFlight(u)') /\ IsFiniteSet(Comparing(u)')
         /\ lapsed' \subseteq LogIns => IsFiniteSet(Lapsed(u)')
  BY AuthAssumption, FS_Subset DEF InFlight, Comparing, Lapsed

\* What CountedAt counts, in numbers.
LEMMA InNumbers ==
  ASSUME AuthTypeOK, NEW u \in SignUps, CountedAt(u)
  PROVE  /\ since[u] \in Nat /\ user[u].failed \in Nat
         /\ Cardinality(Comparing(u)) \in Nat
         /\ Cardinality(Lapsed(u)) \in Nat /\ Cardinality(Uncounted(u)) \in Nat
         /\ Cardinality(Lapsed(u)) <= Cardinality(Uncounted(u))
         /\ Cardinality(Uncounted(u)) <= Cardinality(Lapsed(u)) + 1
         /\ since[u] + Cardinality(Comparing(u)) <= user[u].failed + Cardinality(Uncounted(u))
  <1>1. IsFiniteSet(InFlight(u)) /\ IsFiniteSet(Comparing(u)) /\ IsFiniteSet(Lapsed(u))
    BY LogInsFinite DEF AuthTypeOK
  <1>2. \A l, m \in InFlight(u) \ Lapsed(u) : l = m
    BY DEF CountedAt
  <1>3. since[u] \in Nat /\ user[u].failed \in Nat
    BY DEF AuthTypeOK
  <1> QED
    BY <1>1, <1>2, <1>3, OneBeyond, FS_CardinalityType DEF Uncounted, CountedAt

\* A step that is not about account w.
LEMMA CountElsewhere ==
  ASSUME NEW w \in SignUps, CountedAt(w),
         since'[w] = since[w], user'[w].failed = user[w].failed, user'[w].lock = user[w].lock,
         InFlight(w)' = InFlight(w), Comparing(w)' = Comparing(w), Lapsed(w)' = Lapsed(w),
         \A k \in InFlight(w) : logIn'[k] = logIn[k]
  PROVE  CountedAt(w)'
  <1>1. Uncounted(w)' = Uncounted(w)
    BY DEF Uncounted
  <1> QED
    BY <1>1 DEF CountedAt

LEMMA LogInToEffect ==
  ASSUME AuthTypeOK, NEW l \in LogIns, NEW from, NEW to, LogInTo(l, from, to)
  PROVE  /\ logIn[l].pc = from /\ logIn'[l].pc = to
         /\ logIn'[l].of = logIn[l].of /\ logIn'[l].seen = logIn[l].seen
         /\ \A k \in LogIns \ {l} : logIn'[k] = logIn[k]
  BY DEF AuthTypeOK, LogIn, LogInTo

\* A step of log-in l is not about the accounts it is not for.
LEMMA OtherAccounts ==
  ASSUME CountInv, NEW l \in LogIns, NEW u \in SignUps, NEW w \in SignUps \ {u},
         logIn'[l].of = u, logIn[l].of = u \/ logIn[l].pc = "idle",
         \A k \in LogIns \ {l} : logIn'[k] = logIn[k],
         \A k \in LogIns \ {l} : logIn[k].of = w => (k \in lapsed' <=> k \in lapsed),
         lapsed \subseteq LogIns, lapsed' \subseteq LogIns,
         since'[w] = since[w], user'[w] = user[w]
  PROVE  CountedAt(w)'
  <1>1. l \notin InFlight(w) /\ l \notin InFlight(w)' /\ l \notin Lapsed(w) /\ l \notin Lapsed(w)'
    BY DEF CountInv, InFlight, Lapsed
  <1>2. InFlight(w)' = InFlight(w) /\ Comparing(w)' = Comparing(w)
    BY <1>1 DEF InFlight, Comparing
  <1>3. Lapsed(w)' = Lapsed(w)
    BY <1>1 DEF Lapsed
  <1> QED
    BY <1>1, <1>2, <1>3, CountElsewhere DEF CountInv, InFlight

\* A sign-up, a log-in past its write, a log-out: nothing that is counted changes.
LEMMA CountQuiet ==
  ASSUME AuthTypeOK, CountInv, UNCHANGED <<since, lapsed>>,
         \A u \in SignUps : user'[u].failed = user[u].failed
                            /\ (user'[u].lock = user[u].lock \/ user'[u].lock # "open"),
         \A k \in LogIns : \/ logIn'[k] = logIn[k]
                           \/ /\ logIn[k].pc \notin {"compare", "reject", "reset"}
                              /\ logIn'[k].pc \notin {"idle", "compare", "reject", "reset"}
                              /\ logIn'[k].of = logIn[k].of
  PROVE  CountInv'
  <1>1. ASSUME NEW u \in SignUps PROVE CountedAt(u)'
    <2>1. InFlight(u)' = InFlight(u) /\ Comparing(u)' = Comparing(u)
      BY DEF InFlight, Comparing
    <2>2. Lapsed(u)' = Lapsed(u)
      BY DEF Lapsed, AuthTypeOK
    <2>3. \A k \in InFlight(u) : logIn'[k] = logIn[k]
      BY DEF InFlight
    <2>4. Uncounted(u)' = Uncounted(u)
      BY <2>1, <2>2 DEF Uncounted
    <2> QED
      BY <2>1, <2>2, <2>3, <2>4 DEF CountInv, CountedAt
  <1>2. \A l \in lapsed' : logIn'[l].pc # "idle"
    BY DEF CountInv, AuthTypeOK
  <1> QED
    BY <1>1, <1>2 DEF CountInv

LEMMA FindAccountCounts ==
  ASSUME AuthInv, NEW l \in LogIns, FindAccount(l)
  PROVE  CountInv'
  <1>1. AuthTypeOK /\ CountInv /\ lapsed \subseteq LogIns /\ UNCHANGED <<user, since>>
    BY DEF AuthInv, SignInInv, AuthTypeOK, FindAccount
  <1>2. logIn[l].pc = "idle" /\ l \notin lapsed
    BY <1>1 DEF FindAccount, CountInv
  <1>3. CASE UNCHANGED lapsed /\ logIn'[l].pc = "refused"
             /\ \A k \in LogIns \ {l} : logIn'[k] = logIn[k]
    <2>1. ASSUME NEW u \in SignUps PROVE CountedAt(u)'
      <3>1. InFlight(u)' = InFlight(u) /\ Comparing(u)' = Comparing(u) /\ l \notin InFlight(u)
        BY <1>2, <1>3 DEF InFlight, Comparing
      <3>2. Lapsed(u)' = Lapsed(u)
        BY <1>1, <1>2, <1>3 DEF Lapsed
      <3> QED
        BY <1>1, <1>3, <3>1, <3>2, CountElsewhere DEF CountInv, InFlight
    <2>2. \A k \in lapsed' : logIn'[k].pc # "idle"
      BY <1>1, <1>2, <1>3 DEF CountInv
    <2> QED
      BY <2>1, <2>2 DEF CountInv
  <1>4. CASE \E u \in SignUps :
               /\ logIn'[l] = [pc |-> "compare", of |-> u, seen |-> user[u].failed]
               /\ \A k \in LogIns \ {l} : logIn'[k] = logIn[k]
               /\ lapsed' = IF InFlight(u) # {} THEN lapsed \cup {l} ELSE lapsed
    <2>1. PICK u \in SignUps :
               /\ logIn'[l] = [pc |-> "compare", of |-> u, seen |-> user[u].failed]
               /\ \A k \in LogIns \ {l} : logIn'[k] = logIn[k]
               /\ lapsed' = IF InFlight(u) # {} THEN lapsed \cup {l} ELSE lapsed
      BY <1>4
    <2>2. lapsed' \subseteq LogIns /\ \A k \in LogIns \ {l} : k \in lapsed' <=> k \in lapsed
      BY <1>1, <2>1
    <2>3. ASSUME NEW w \in SignUps \ {u} PROVE CountedAt(w)'
      BY <1>1, <1>2, <2>1, <2>2, OtherAccounts
    <2>4. /\ l \notin InFlight(u) /\ l \notin Comparing(u) /\ l \notin Lapsed(u)
          /\ InFlight(u)' = InFlight(u) \cup {l} /\ Comparing(u)' = Comparing(u) \cup {l}
          /\ Lapsed(u)' = IF InFlight(u) # {} THEN Lapsed(u) \cup {l} ELSE Lapsed(u)
      BY <1>1, <1>2, <2>1 DEF InFlight, Comparing, Lapsed
    <2>5. CountedAt(u)
      BY <1>1 DEF CountInv
    <2>6. Uncounted(u)' = Uncounted(u) \cup {l} /\ l \notin Uncounted(u)
      BY <2>4 DEF Uncounted
    <2> DEFINE c == Cardinality(Comparing(u))
               m == Cardinality(Uncounted(u))
               n == Cardinality(Lapsed(u))
    <2>7. IsFiniteSet(Comparing(u)) /\ IsFiniteSet(Lapsed(u)) /\ IsFiniteSet(Uncounted(u))
      BY <1>1, LogInsFinite, FS_Union DEF Uncounted
    <2>8. Cardinality(Comparing(u)') = c + 1 /\ Cardinality(Uncounted(u)') = m + 1
      BY <2>4, <2>6, <2>7, FS_AddElement
    <2>9. Cardinality(Lapsed(u)') = IF InFlight(u) # {} THEN n + 1 ELSE n
      BY <2>4, <2>7, FS_AddElement
    <2>10. /\ since[u] \in Nat /\ user[u].failed \in Nat /\ c \in Nat /\ n \in Nat /\ m \in Nat
           /\ m <= n + 1 /\ since[u] + c <= user[u].failed + m
      BY <1>1, <2>5, InNumbers
    <2>11. InFlight(u) = {} => m = n
      <3>1. InFlight(u) = {} => Uncounted(u) = Lapsed(u)
        BY DEF Uncounted
      <3> QED
        BY <3>1
    <2>12. ASSUME NEW k \in InFlight(u)', logIn'[k].pc # "reset"
           PROVE  since[u] + (c + 1) <= logIn'[k].seen + 1 + Cardinality(Lapsed(u)')
      <3>1. CASE k = l
        <4>1. logIn'[k].seen = user[u].failed
          BY <2>1, <3>1
        <4> QED
          BY <2>9, <2>10, <2>11, <4>1
      <3>2. CASE k # l
        <4>1. k \in InFlight(u) /\ logIn'[k] = logIn[k] /\ logIn[k].seen \in Nat
          BY <1>1, <2>1, <2>4, <3>2 DEF InFlight, AuthTypeOK, LogIn
        <4>2. since[u] + c <= logIn[k].seen + 1 + n
          BY <2>5, <2>12, <4>1 DEF CountedAt
        <4>3. Cardinality(Lapsed(u)') = n + 1
          BY <2>9, <4>1
        <4> QED
          BY <2>10, <4>1, <4>2, <4>3
      <3> QED
        BY <3>1, <3>2
    <2>13. \A a, b \in InFlight(u)' \ Lapsed(u)' : a = b
      BY <2>4, <2>5 DEF CountedAt
    <2>14. CountedAt(u)'
      <3>1. since'[u] = since[u] /\ user'[u] = user[u]
        BY <1>1
      <3>2. since[u] + (c + 1) <= user[u].failed + (m + 1)
        BY <2>10
      <3> QED
        BY <2>5, <2>8, <2>12, <2>13, <3>1, <3>2 DEF CountedAt
    <2>15. \A k \in lapsed' : logIn'[k].pc # "idle"
      BY <1>1, <2>1, <2>2 DEF CountInv
    <2> QED
      BY <2>3, <2>14, <2>15 DEF CountInv
  <1>5. logIn \in [LogIns -> LogIn]
    BY <1>1 DEF AuthTypeOK
  <1>6. CASE \E u \in SignUps : user[u].exists
    <2>1. PICK u \in SignUps :
            /\ logIn' = [logIn EXCEPT ![l] =
                 [pc |-> IF user[u].lock = "locked" THEN "refused" ELSE "compare",
                  of |-> u, seen |-> user[u].failed]]
            /\ lapsed' = IF user[u].lock # "locked" /\ InFlight(u) # {} THEN lapsed \cup {l}
                                                                        ELSE lapsed
      BY <1>6 DEF FindAccount
    <2> QED
      BY <1>3, <1>4, <1>5, <2>1
  <1>7. CASE \A u \in SignUps : ~ user[u].exists
    BY <1>3, <1>5, <1>7 DEF FindAccount, LogIn
  <1> QED
    BY <1>6, <1>7

LEMMA ComparePasswordCounts ==
  ASSUME AuthInv, NEW l \in LogIns, ComparePassword(l)
  PROVE  CountInv'
  <1>5. PICK u \in SignUps : logIn[l].of = u
    BY DEF AuthInv, SignInInv, ComparePassword, LogInTo, SeenIsAccounted
  <1>1. /\ AuthTypeOK /\ CountInv /\ lapsed \subseteq LogIns /\ UNCHANGED <<user, lapsed>>
        /\ logIn[l].pc = "compare"
    BY DEF AuthInv, SignInInv, AuthTypeOK, ComparePassword, LogInTo
  <1>2. PICK pc \in {"reset", "reject"} : LogInTo(l, "compare", pc)
    BY DEF ComparePassword
  <1>3. /\ logIn'[l].pc = pc /\ logIn'[l].of = u /\ logIn'[l].seen = logIn[l].seen
        /\ \A k \in LogIns \ {l} : logIn'[k] = logIn[k]
    BY <1>1, <1>2, <1>5, LogInToEffect
  <1>4. since'[u] \in Nat /\ since'[u] <= since[u] + 1 /\ \A w \in SignUps \ {u} : since'[w] = since[w]
    BY <1>1, <1>5 DEF ComparePassword, AuthTypeOK
  <1>6. ASSUME NEW w \in SignUps \ {u} PROVE CountedAt(w)'
    BY <1>1, <1>3, <1>4, <1>5, OtherAccounts
  <1>7. /\ InFlight(u)' = InFlight(u) /\ Lapsed(u)' = Lapsed(u) /\ l \in Comparing(u)
        /\ Comparing(u)' = Comparing(u) \ {l}
    BY <1>1, <1>3, <1>5 DEF InFlight, Comparing, Lapsed
  <1>8. CountedAt(u) /\ IsFiniteSet(Comparing(u))
    BY <1>1, LogInsFinite DEF CountInv
  <1>9. Cardinality(Comparing(u)') = Cardinality(Comparing(u)) - 1
    BY <1>7, <1>8, FS_RemoveElement
  <1>10. /\ since[u] \in Nat /\ Cardinality(Comparing(u)) \in Nat
         /\ user[u].failed + Cardinality(Uncounted(u)) \in Nat
         /\ Cardinality(Lapsed(u)) \in Nat
    BY <1>1, <1>8, InNumbers
  <1>11. since'[u] + Cardinality(Comparing(u)') <= since[u] + Cardinality(Comparing(u))
    BY <1>4, <1>9, <1>10
  <1>12. CountedAt(u)'
    <2>1. Uncounted(u)' = Uncounted(u)
      BY <1>7 DEF Uncounted
    <2> DEFINE old == since[u] + Cardinality(Comparing(u))
               ahead == since'[u] + Cardinality(Comparing(u)')
    <2>2. ahead \in Int /\ old \in Int /\ ahead <= old
      BY <1>4, <1>9, <1>10, <1>11
    <2>3. old <= user[u].failed + Cardinality(Uncounted(u))
      BY <1>8 DEF CountedAt
    <2>4. ASSUME NEW k \in InFlight(u), logIn'[k].pc # "reset"
          PROVE  ahead <= logIn'[k].seen + 1 + Cardinality(Lapsed(u))
      <3>1. logIn[k].pc # "reset" /\ logIn'[k].seen = logIn[k].seen /\ logIn[k].seen \in Nat
        BY <1>1, <1>3, <2>4 DEF InFlight, AuthTypeOK, LogIn
      <3>2. old <= logIn[k].seen + 1 + Cardinality(Lapsed(u))
        BY <1>8, <2>4, <3>1 DEF CountedAt
      <3> QED
        BY <1>10, <2>2, <3>1, <3>2
    <2>5. ahead <= user'[u].failed + Cardinality(Uncounted(u)')
      BY <1>1, <1>10, <2>1, <2>2, <2>3
    <2> QED
      BY <1>1, <1>7, <1>8, <2>1, <2>4, <2>5 DEF CountedAt
  <1>13. \A k \in lapsed' : logIn'[k].pc # "idle"
    BY <1>1, <1>3 DEF CountInv
  <1> QED
    BY <1>6, <1>12, <1>13 DEF CountInv

LEMMA RejectPasswordCounts ==
  ASSUME AuthInv, NEW l \in LogIns, RejectPassword(l)
  PROVE  CountInv'
  <1>5. PICK u \in SignUps : logIn[l].of = u
    BY DEF AuthInv, SignInInv, RejectPassword, LogInTo, SeenIsAccounted
  <1>0. PICK n : n = logIn[l].seen + 1
    OBVIOUS
  <1>1. /\ AuthTypeOK /\ CountInv /\ lapsed \subseteq LogIns /\ UNCHANGED <<since, lapsed>>
        /\ logIn[l].pc = "reject"
    BY DEF AuthInv, SignInInv, AuthTypeOK, RejectPassword, LogInTo, history
  <1>2. LogInTo(l, "reject", "refused")
    BY DEF RejectPassword
  <1>3. /\ logIn'[l].pc = "refused" /\ logIn'[l].of = u
        /\ \A k \in LogIns \ {l} : logIn'[k] = logIn[k]
    BY <1>1, <1>2, <1>5, LogInToEffect
  <1>4. /\ user'[u].failed = n /\ (n >= MaxFailedLogins => user'[u].lock = "locked")
        /\ n \in Nat /\ \A w \in SignUps \ {u} : user'[w] = user[w]
    BY <1>0, <1>1, <1>5 DEF RejectPassword, AuthTypeOK, LogIn
  <1>6. ASSUME NEW w \in SignUps \ {u} PROVE CountedAt(w)'
    BY <1>1, <1>3, <1>4, <1>5, OtherAccounts
  <1>7. /\ InFlight(u)' = InFlight(u) \ {l} /\ Lapsed(u)' = Lapsed(u)
        /\ Comparing(u)' = Comparing(u) /\ l \in InFlight(u)
    BY <1>1, <1>3, <1>5 DEF InFlight, Comparing, Lapsed
  <1>8. CountedAt(u)
    BY <1>1 DEF CountInv
  <1>9. IsFiniteSet(InFlight(u)') /\ IsFiniteSet(Lapsed(u))
    BY <1>1, LogInsFinite, LogInsFiniteNext
  <1>10. /\ Cardinality(Lapsed(u)) \in Nat /\ Cardinality(Uncounted(u)') \in Nat
         /\ Cardinality(Lapsed(u)) <= Cardinality(Uncounted(u)')
    BY <1>7, <1>9, OneBeyond DEF Uncounted
  <1>11. since[u] + Cardinality(Comparing(u)) <= n + Cardinality(Lapsed(u))
    BY <1>0, <1>1, <1>7, <1>8 DEF CountedAt
  <1>12. CountedAt(u)'
    <2>1. since[u] + Cardinality(Comparing(u)) \in Nat
      BY <1>1, <1>8, InNumbers
    <2>2. since[u] + Cardinality(Comparing(u)) <= n + Cardinality(Uncounted(u)')
      BY <1>4, <1>10, <1>11, <2>1
    <2>3. \A k \in InFlight(u)' : logIn'[k] = logIn[k] /\ k \in InFlight(u)
      BY <1>3, <1>7 DEF InFlight
    <2> QED
      BY <1>1, <1>4, <1>7, <1>8, <2>2, <2>3 DEF CountedAt
  <1>13. \A k \in lapsed' : logIn'[k].pc # "idle"
    BY <1>1, <1>3 DEF CountInv
  <1> QED
    BY <1>6, <1>12, <1>13 DEF CountInv

LEMMA ResetFailuresCounts ==
  ASSUME AuthInv, NEW l \in LogIns, ResetFailures(l)
  PROVE  CountInv'
  <1>5. PICK u \in SignUps : logIn[l].of = u
    BY DEF AuthInv, SignInInv, ResetFailures, LogInTo, SeenIsAccounted
  <1>1. /\ AuthTypeOK /\ CountInv /\ lapsed \subseteq LogIns
        /\ logIn[l].pc = "reset"
    BY DEF AuthInv, SignInInv, AuthTypeOK, ResetFailures, LogInTo
  <1>2. LogInTo(l, "reset", "audit")
    BY DEF ResetFailures
  <1>3. /\ logIn'[l].pc = "audit" /\ logIn'[l].of = u
        /\ \A k \in LogIns \ {l} : logIn'[k] = logIn[k]
    BY <1>1, <1>2, <1>5, LogInToEffect
  <1>4. /\ user'[u].failed = 0 /\ since'[u] = 0
        /\ \A w \in SignUps \ {u} : user'[w] = user[w] /\ since'[w] = since[w]
        /\ lapsed' = {k \in lapsed : logIn[k].of = u => k \in InFlight(u) \ {l}}
    BY <1>1, <1>5 DEF ResetFailures, AuthTypeOK
  <1>6. ASSUME NEW w \in SignUps \ {u} PROVE CountedAt(w)'
    <2>1. \A k \in LogIns \ {l} : logIn[k].of = w => (k \in lapsed' <=> k \in lapsed)
      BY <1>4
    <2> QED
      BY <1>1, <1>3, <1>4, <1>5, <2>1, OtherAccounts
  <1>7. /\ InFlight(u)' = InFlight(u) \ {l} /\ Lapsed(u)' = Lapsed(u) \cap InFlight(u)'
        /\ Comparing(u)' = Comparing(u)
    BY <1>1, <1>3, <1>4, <1>5 DEF InFlight, Comparing, Lapsed
  <1>8. CountedAt(u) /\ \A a, b \in InFlight(u)' \ Lapsed(u)' : a = b
    BY <1>1, <1>7 DEF CountInv, CountedAt
  <1>9. IsFiniteSet(InFlight(u)') /\ IsFiniteSet(Lapsed(u)') /\ IsFiniteSet(Comparing(u))
    BY <1>1, <1>4, LogInsFinite, LogInsFiniteNext
  <1>10. Comparing(u)' \subseteq InFlight(u)'
    BY DEF Comparing, InFlight
  <1>11. /\ Cardinality(Lapsed(u)') \in Nat /\ Cardinality(Uncounted(u)') \in Nat
         /\ Cardinality(Uncounted(u)') <= Cardinality(Lapsed(u)') + 1
         /\ Cardinality(InFlight(u)') <= Cardinality(Uncounted(u)')
         /\ Cardinality(InFlight(u)') \in Nat
    BY <1>8, <1>9, OneBeyond DEF Uncounted
  <1>12. /\ Cardinality(Comparing(u)') \in Nat
         /\ Cardinality(Comparing(u)') <= Cardinality(InFlight(u)')
    BY <1>9, <1>10, FS_Subset, FS_CardinalityType
  <1>13. CountedAt(u)'
    <2>1. 0 + Cardinality(Comparing(u)') <= 0 + Cardinality(Uncounted(u)')
      BY <1>11, <1>12
    <2>2. ASSUME NEW k \in InFlight(u)'
          PROVE  0 + Cardinality(Comparing(u)') <= logIn'[k].seen + 1 + Cardinality(Lapsed(u)')
      <3>1. logIn'[k].seen \in Nat
        BY <1>1, <1>3, <1>7, <2>2 DEF InFlight, AuthTypeOK, LogIn
      <3> QED
        BY <1>11, <1>12, <3>1
    <2>3. ~ (0 >= MaxFailedLogins)
      BY AuthAssumption
    <2> QED
      BY <1>4, <1>8, <2>1, <2>2, <2>3 DEF CountedAt
  <1>14. \A k \in lapsed' : logIn'[k].pc # "idle"
    BY <1>1, <1>3, <1>4 DEF CountInv
  <1> QED
    BY <1>6, <1>13, <1>14 DEF CountInv

LEMMA CountInit == AuthInit => CountInv
  <1> SUFFICES ASSUME AuthInit PROVE CountInv
    OBVIOUS
  <1>1. ASSUME NEW u \in SignUps PROVE CountedAt(u)
    <2>1. InFlight(u) = {} /\ Comparing(u) = {} /\ Lapsed(u) = {}
      BY DEF AuthInit, InFlight, Comparing, Lapsed
    <2>2. Cardinality(Comparing(u)) = 0 /\ Cardinality(Uncounted(u)) = 0
      BY <2>1, FS_EmptySet DEF Uncounted
    <2>3. since[u] = 0 /\ user[u].failed = 0
      BY DEF AuthInit
    <2> QED
      BY <2>1, <2>2, <2>3, AuthAssumption DEF CountedAt
  <1> QED
    BY <1>1 DEF AuthInit, CountInv

LEMMA CountNext == AuthInv /\ [AuthNext]_authVars => CountInv'
  <1> SUFFICES ASSUME AuthInv, [AuthNext]_authVars PROVE CountInv'
    OBVIOUS
  <1>1. AuthTypeOK /\ CountInv
    BY DEF AuthInv, SignInInv
  <1>2. CASE UNCHANGED authVars
    BY <1>1, <1>2, CountQuiet DEF authVars, history
  <1>3. CASE \E u \in SignUps : StartSignUp(u) \/ FindUser(u) \/ CommitUser(u)
                                \/ AuditSignUp(u) \/ SignUpToken(u)
    <2>1. \A w \in SignUps : user'[w].failed = user[w].failed /\ user'[w].lock = user[w].lock
      BY <1>1, <1>3 DEF AuthTypeOK, StartSignUp, FindUser, CommitUser, AuditSignUp, SignUpToken
    <2>2. UNCHANGED <<logIn, since, lapsed>>
      BY <1>3 DEF StartSignUp, FindUser, CommitUser, AuditSignUp, SignUpToken, Elsewhere, history
    <2> QED
      BY <1>1, <2>1, <2>2, CountQuiet
  <1>4. CASE \E u \in SignUps : LockExpires(u)
    <2>1. \A w \in SignUps : user'[w].failed = user[w].failed
                             /\ (user'[w].lock = user[w].lock \/ user'[w].lock # "open")
      BY <1>1, <1>4 DEF AuthTypeOK, LockExpires
    <2>2. UNCHANGED <<logIn, since, lapsed>>
      BY <1>4 DEF LockExpires, history
    <2> QED
      BY <1>1, <2>1, <2>2, CountQuiet
  <1>5. CASE \E l \in LogIns : FindAccount(l) \/ ComparePassword(l) \/ RejectPassword(l)
                               \/ ResetFailures(l)
    BY <1>5, FindAccountCounts, ComparePasswordCounts, RejectPasswordCounts, ResetFailuresCounts
  <1>6. CASE \E l \in LogIns : AuditLogIn(l) \/ LogInToken(l)
    <2>1. PICK l \in LogIns, from \in {"audit", "token"}, to \in {"token", "refused", "done"} :
            LogInTo(l, from, to)
      BY <1>6 DEF AuditLogIn, LogInToken
    <2>2. UNCHANGED <<user, since, lapsed>>
      BY <1>6 DEF AuditLogIn, LogInToken, history
    <2>3. /\ logIn[l].pc = from /\ logIn'[l].pc = to /\ logIn'[l].of = logIn[l].of
          /\ \A k \in LogIns \ {l} : logIn'[k] = logIn[k]
      BY <1>1, <2>1, LogInToEffect
    <2> QED
      BY <1>1, <2>2, <2>3, CountQuiet
  <1>7. CASE \E x \in LogOuts : FindToken(x) \/ DeleteToken(x)
    BY <1>1, <1>7, CountQuiet DEF FindToken, DeleteToken, history
  <1> QED
    BY <1>2, <1>3, <1>4, <1>5, <1>6, <1>7 DEF AuthNext

-----------------------------------------------------------------------------
\* The inductive invariant holds in every behaviour of sign-ups, log-ins and
\* log-outs (auth.service.ts).
THEOREM AuthInvariance == AuthSpec => []AuthInv
  <1>1. AuthInit => AuthInv
    BY InitInv, CountInit DEF AuthInv
  <1>2. AuthInv /\ [AuthNext]_authVars => AuthInv'
    BY NextInv, CountNext DEF AuthInv
  <1> QED
    BY <1>1, <1>2, PTL DEF AuthSpec

\* Every variable holds a value of its kind.
THEOREM AuthTypeCorrect == AuthSpec => []AuthTypeOK
  <1>1. AuthInv => AuthTypeOK
    BY DEF AuthInv, SignInInv
  <1> QED
    BY <1>1, AuthInvariance, PTL

\* However log-ins overlap, an account is locked only after as many wrong
\* passwords as the threshold says, and its counter never runs ahead of them.
THEOREM LockIsDeserved == AuthSpec => []LockNeedsFailures
  <1>1. AuthInv => LockNeedsFailures
    BY DEF AuthInv, SignInInv
  <1> QED
    BY <1>1, AuthInvariance, PTL

\* Two accounts share an e-mail address only if their sign-ups overlapped
\* between the lookup and the commit.
THEOREM DuplicatesOverlapped == AuthSpec => []DuplicateNeedsOverlap
  <1>1. AuthInv => DuplicateNeedsOverlap
    BY DEF AuthInv, SignInInv, TwoPastLookup, PastLookup, DuplicateNeedsOverlap
  <1> QED
    BY <1>1, AuthInvariance, PTL

\* Of the wrong passwords since the last reset the counter misses at most one for
\* each log-in that overlapped another: whatever attempts come at once, after
\* MAX_FAILED_LOGINS and as many more the account has been locked (login).
THEOREM FailuresCounted == AuthSpec => []FailuresAreCounted
  <1>1. AuthInv => FailuresAreCounted
    <2> SUFFICES ASSUME AuthInv, NEW u \in SignUps
                 PROVE /\ since[u] <= user[u].failed + Cardinality(Uncounted(u))
                       /\ since[u] >= MaxFailedLogins + Cardinality(Uncounted(u))
                            => user[u].lock # "open"
      BY DEF FailuresAreCounted
    <2>1. AuthTypeOK /\ CountedAt(u)
      BY DEF AuthInv, SignInInv, CountInv
    <2>2. since[u] <= user[u].failed + Cardinality(Uncounted(u))
      BY <2>1, InNumbers
    <2>3. since[u] >= MaxFailedLogins + Cardinality(Uncounted(u)) => user[u].failed >= MaxFailedLogins
      BY <2>1, InNumbers, AuthAssumption
    <2> QED
      BY <2>1, <2>2, <2>3 DEF CountedAt
  <1> QED
    BY <1>1, AuthInvariance, PTL
=============================================================================
