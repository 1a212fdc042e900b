---------------------------- MODULE SessionProofs ----------------------------
(* Theorems of Session, for every value of its constants, and of the session next
   to signing in on the server. *)
EXTENDS MCSignIn, AuthProofs, TLAPS

\* Who may be in flight with whom.
Pending(r) == call[r].pc # "idle"

\* One request waits for the refresh in flight, the queued ones behind it.
OneRefresh ==
  /\ refresh.by # NoCall => call[refresh.by].pc = "refreshing"
  /\ \A r \in AllCalls :
       /\ call[r].pc = "refreshing" => r = refresh.by
       /\ call[r].pc = "queued" => refresh.by # NoCall

\* A tab that hydrates does nothing else; one that logs in shows no user, one
\* that logs out shows one.
OneAtATime ==
  /\ Pending("hydrate") =>
       /\ tab = [user |-> NoUser, page |-> "loading"] /\ store.access # 0
       /\ \A r \in AllCalls \ {"hydrate"} : ~ Pending(r)
  /\ Pending("login") => tab.user = NoUser /\ ~ Pending("me")
  /\ Pending("me") => tab.user = NoUser
  /\ Pending("logout") => tab.user # NoUser

\* After a log-out nothing is left that could sign the tab in: no token, no
\* request of AuthContext, and no refresh but one that has no token to send.
NothingLeft ==
  signedOut /\ ~ raced =>
    /\ store = Empty /\ tab.user = NoUser
    /\ \A r \in Own : ~ Pending(r)
    /\ refresh.by # NoCall => refresh.token = 0

SessionInv == SessionTypeOK /\ OneRefresh /\ OneAtATime /\ NothingLeft

Request == [pc : {"idle", "wire", "queued", "refreshing"}, token : Tokens, retried : BOOLEAN]
Store == [access : Tokens, refresh : Tokens, userId : People \cup {NoUser}]
Tab == [user : People \cup {NoUser}, page : {"loading", "ready", "leaving"}]
Refresh == [by : AllCalls \cup {NoCall}, userId : People \cup {NoUser}, token : Tokens]

-----------------------------------------------------------------------------
\* Facts about the values.

LEMMA TypeParts ==
  SessionTypeOK <=>
    /\ store \in Store /\ tab \in Tab /\ call \in [AllCalls -> Request] /\ refresh \in Refresh
    /\ holder \in Seq(People) /\ Len(holder) <= MaxIssued
    /\ void \subseteq Tokens
    /\ signedOut \in BOOLEAN /\ raced \in BOOLEAN
BY DEF SessionTypeOK, Request, Store, Tab, Refresh

LEMMA Values ==
  /\ 0 \in Tokens /\ Empty \in Store /\ NoRefresh \in Refresh /\ Idle \in Request
  /\ \A n \in Tokens, b \in BOOLEAN : Wire(n, b) \in Request
  /\ Own \subseteq AllCalls /\ NoCall \notin AllCalls
<1>1. 0 \in Tokens
  BY SessionAssumption DEF Tokens
<1>2. NoCall \notin AllCalls
  <2>1. NoCall \notin Own
    BY DEF NoCall, Own
  <2> QED
    BY <2>1, SessionAssumption DEF AllCalls
<1>3. Empty \in Store /\ NoRefresh \in Refresh /\ Idle \in Request
  BY <1>1 DEF Empty, Store, NoRefresh, Refresh, Idle, Request
<1>4. \A n \in Tokens, b \in BOOLEAN : Wire(n, b) \in Request
  BY DEF Wire, Request
<1> QED
  BY <1>1, <1>2, <1>3, <1>4 DEF AllCalls

\* A good token was issued, to a person.
LEMMA GoodToken ==
  ASSUME SessionTypeOK, NEW n, Good(n) PROVE n # 0 /\ holder[n] \in People
BY DEF SessionTypeOK, Good

\* The numbers of the tokens issued next.
LEMMA NextToken ==
  ASSUME SessionTypeOK, NEW k \in {1, 2}, Len(holder) + k <= MaxIssued
  PROVE  Len(holder) + k \in Tokens /\ Len(holder) + k # 0
<1>1. Len(holder) \in Nat
  BY DEF SessionTypeOK
<1> QED
  BY <1>1, SessionAssumption DEF Tokens

-----------------------------------------------------------------------------
\* The types.

LEMMA FailureType ==
  ASSUME SessionTypeOK, NEW F, AfterFailure(F)
  PROVE  store' \in Store /\ tab' \in Tab /\ signedOut' \in BOOLEAN /\ raced' \in BOOLEAN
<1>1. store \in Store /\ tab \in Tab /\ signedOut \in BOOLEAN /\ raced \in BOOLEAN
  BY TypeParts
<1>2. store' \in Store
  BY <1>1, Values DEF AfterFailure, Store
<1>3. tab' \in Tab
  BY <1>1 DEF AfterFailure, Tab
<1>4. (signedOut \/ "logout" \in F) \in BOOLEAN
  OBVIOUS
<1>5. (refresh.by \notin F \cup {NoCall} \/ OnWire("demo")) \in BOOLEAN
  OBVIOUS
<1> QED
  BY <1>1, <1>2, <1>3, <1>4, <1>5 DEF AfterFailure

LEMMA CallType ==
  ASSUME SessionTypeOK
  PROVE  /\ \A r \in AllCalls : Settle(r) => call' \in [AllCalls -> Request]
         /\ \A r \in AllCalls : Send(r) => call' \in [AllCalls -> Request]
BY Values, TypeParts DEF Settle, Send, Store

LEMMA CallStepType ==
  ASSUME SessionTypeOK, NEW r \in AllCalls, CallStep(r) PROVE SessionTypeOK'
<1>0. /\ store \in Store /\ call \in [AllCalls -> Request]
      /\ NoCall \notin AllCalls
  BY TypeParts, Values
<1>1. CASE PageAnswer(r)
  BY <1>1, CallType, TypeParts DEF PageAnswer, SessionTypeOK, Request
<1>2. CASE Queue(r)
  <2>1. call' \in [AllCalls -> Request]
    BY <1>0, <1>2 DEF Queue, Request
  <2> QED
    BY <1>2, <2>1 DEF Queue, SessionTypeOK, Request
<1>3. CASE StartRefresh(r)
  <2>1. call' \in [AllCalls -> Request]
    BY <1>0, <1>3 DEF StartRefresh, Request
  <2>2. refresh' \in Refresh
    BY <1>0, <1>3 DEF StartRefresh, Refresh, Store
  <2> QED
    BY <1>3, <2>1, <2>2 DEF StartRefresh, SessionTypeOK, Request, Refresh
<1>4. CASE Fail(r)
  <2>1. call' \in [AllCalls -> Request]
    BY <1>4, CallType DEF Fail
  <2>2. store' \in Store /\ tab' \in Tab /\ signedOut' \in BOOLEAN /\ raced' \in BOOLEAN
    BY <1>4, FailureType DEF Fail
  <2> QED
    BY <1>4, <2>1, <2>2 DEF Fail, SessionTypeOK, Request, Store, Tab
<1> QED
  BY <1>1, <1>2, <1>3, <1>4 DEF CallStep

LEMMA RefreshType ==
  ASSUME SessionTypeOK, RefreshStep PROVE SessionTypeOK'
<1>0. /\ store \in Store /\ tab \in Tab /\ call \in [AllCalls -> Request]
      /\ refresh \in Refresh /\ holder \in Seq(People)
  BY TypeParts
<1>1. CASE RefreshAnswered
  <2> DEFINE n == Len(holder) + 1
  <2>1. n <= MaxIssued /\ Good(refresh.token) /\ holder[refresh.token] = refresh.userId
    BY <1>1 DEF RefreshAnswered, RefreshHeld
  <2>2. n \in Tokens
    BY <2>1, NextToken
  <2>3. call' \in [AllCalls -> Request]
    <3>1. call' = [r \in AllCalls |-> IF r \in Waiting THEN Wire(n, call[r].retried) ELSE call[r]]
      BY <1>1 DEF RefreshAnswered
    <3>2. \A r \in AllCalls : call[r] \in Request /\ call[r].retried \in BOOLEAN
      BY <1>0 DEF Request
    <3> HIDE DEF n
    <3> QED
      BY <2>2, <3>1, <3>2, Values
  <2>4. store' \in Store
    BY <1>0, <1>1, <2>2 DEF RefreshAnswered, Store
  <2>5. holder' \in Seq(People) /\ Len(holder') <= MaxIssued
    <3>1. refresh.userId \in People
      BY <2>1, GoodToken
    <3>2. holder' = Append(holder, refresh.userId)
      BY <1>1 DEF RefreshAnswered
    <3> QED
      BY <1>0, <2>1, <3>1, <3>2
  <2> QED
    BY <1>1, <2>3, <2>4, <2>5, Values DEF RefreshAnswered, SessionTypeOK, Request, Store, Refresh
<1>2. CASE RefreshFailed
  <2>1. call' \in [AllCalls -> Request]
    BY <1>0, <1>2, Values DEF RefreshFailed
  <2>2. store' \in Store
    BY <1>0, <1>2, Values DEF RefreshFailed, Store
  <2>3. tab' \in Tab
    BY <1>0, <1>2 DEF RefreshFailed, Tab
  <2>4. signedOut' \in BOOLEAN /\ raced' \in BOOLEAN
    <3>1. (signedOut \/ "logout" \in Waiting) \in BOOLEAN /\ OnWire("demo") \in BOOLEAN
      BY DEF OnWire
    <3> QED
      BY <1>2, <3>1, TypeParts DEF RefreshFailed
  <2> QED
    BY <1>2, <2>1, <2>2, <2>3, <2>4, Values
       DEF RefreshFailed, SessionTypeOK, Request, Store, Tab, Refresh
<1> QED
  BY <1>1, <1>2 DEF RefreshStep

LEMMA AuthContextType ==
  ASSUME SessionTypeOK, AuthContextStep PROVE SessionTypeOK'
<1>0. /\ store \in Store /\ tab \in Tab /\ call \in [AllCalls -> Request]
      /\ refresh \in Refresh /\ holder \in Seq(People) /\ void \subseteq Tokens
  BY TypeParts
<1>1. "hydrate" \in AllCalls /\ "login" \in AllCalls /\ "me" \in AllCalls
      /\ "logout" \in AllCalls /\ "demo" \in AllCalls
  BY DEF AllCalls, Own
<1>2. CASE Hydrated
  <2>1. tab' \in Tab
    BY <1>2, GoodToken DEF Hydrated, Tab
  <2> QED
    BY <1>1, <1>2, <2>1, CallType DEF Hydrated, SessionTypeOK, Request, Tab
<1>3. CASE MeAnswered
  <2>1. tab' \in Tab /\ store' \in Store
    BY <1>0, <1>3, GoodToken DEF MeAnswered, Tab, Store
  <2> QED
    BY <1>1, <1>3, <2>1, CallType DEF MeAnswered, SessionTypeOK, Request, Tab, Store
<1>4. CASE LogInAnswered
  <2> DEFINE n == Len(holder)
  <2>1. n + 2 <= MaxIssued /\ n \in Nat
    BY <1>0, <1>4 DEF LogInAnswered
  <2>2. n + 1 \in Tokens /\ n + 2 \in Tokens
    BY <2>1, SessionAssumption DEF Tokens
  <2>3. store' \in Store
    BY <1>0, <1>4, <2>2 DEF LogInAnswered, Store
  <2>4. Wire(n + 1, FALSE) \in Request
    BY <2>2, Values
  <2>5. call' \in [AllCalls -> Request]
    BY <1>0, <1>4, <2>4, Values DEF LogInAnswered
  <2>6. PICK p \in People : holder' = holder \o <<p, p>>
    BY <1>4 DEF LogInAnswered
  <2>7. holder' \in Seq(People) /\ Len(holder') <= MaxIssued
    BY <1>0, <2>1, <2>6
  <2> QED
    BY <1>4, <2>3, <2>5, <2>7 DEF LogInAnswered, SessionTypeOK, Request, Store
<1>5. CASE DemoAnswered
  <2> DEFINE n == Len(holder)
  <2>1. n + 2 <= MaxIssued /\ n \in Nat
    BY <1>0, <1>5 DEF DemoAnswered
  <2>2. n + 1 \in Tokens
    BY <2>1, SessionAssumption DEF Tokens
  <2>3. store' \in Store
    BY <1>0, <1>5, <2>2 DEF DemoAnswered, Store
  <2>4. holder' = holder \o <<DemoUser, DemoUser>>
    BY <1>5 DEF DemoAnswered
  <2>5. holder' \in Seq(People) /\ Len(holder') <= MaxIssued
    BY <1>0, <2>1, <2>4, SessionAssumption
  <2> QED
    BY <1>1, <1>5, <2>3, <2>5, CallType DEF DemoAnswered, SessionTypeOK, Request, Store
<1>6. CASE LogOutAnswered
  <2>1. store' \in Store /\ tab' \in Tab /\ signedOut' \in BOOLEAN /\ raced' \in BOOLEAN
    BY <1>6, FailureType DEF LogOutAnswered
  <2>2. call' \in [AllCalls -> Request]
    BY <1>1, <1>6, CallType DEF LogOutAnswered
  <2>3. void' \subseteq Tokens
    BY <1>0, <1>6 DEF LogOutAnswered, Store
  <2> QED
    BY <1>6, <2>1, <2>2, <2>3 DEF LogOutAnswered, SessionTypeOK, Request, Store, Tab
<1> QED
  BY <1>2, <1>3, <1>4, <1>5, <1>6 DEF AuthContextStep

LEMMA RestType ==
  ASSUME SessionTypeOK,
         \/ \E n \in 1..MaxIssued : TokenExpires(n)
         \/ \E r \in Calls : PageCall(r)
         \/ Reload \/ LogInStart \/ LogOutStart \/ DemoOpened
  PROVE  SessionTypeOK'
<1>0. /\ store \in Store /\ tab \in Tab /\ call \in [AllCalls -> Request]
      /\ void \subseteq Tokens
  BY TypeParts
<1>1. CASE \E n \in 1..MaxIssued : TokenExpires(n)
  <2>1. void' \subseteq Tokens
    BY <1>0, <1>1, SessionAssumption DEF TokenExpires, Tokens
  <2> QED
    BY <1>1, <2>1 DEF TokenExpires, SessionTypeOK
<1>2. CASE \E r \in Calls : PageCall(r)
  BY <1>2, CallType DEF PageCall, SessionTypeOK, Request, AllCalls
<1>3. CASE Reload
  <2>1. Wire(store.access, FALSE) \in Request
    BY <1>0, Values DEF Store
  <2>2. call' \in [AllCalls -> Request]
    BY <1>3, <2>1, Values DEF Reload
  <2>3. tab' \in Tab
    BY <1>3 DEF Reload, Tab
  <2> QED
    BY <1>3, <2>2, <2>3, Values DEF Reload, SessionTypeOK, Request, Tab, Refresh
<1>4. CASE LogInStart \/ DemoOpened
  <2>1. "login" \in AllCalls /\ "demo" \in AllCalls
    BY DEF AllCalls, Own
  <2> QED
    BY <1>4, <2>1, CallType DEF LogInStart, DemoOpened, SessionTypeOK, Request
<1>5. CASE LogOutStart
  <2>1. "logout" \in AllCalls
    BY DEF AllCalls, Own
  <2>2. call' \in [AllCalls -> Request]
    BY <1>0, <1>5, <2>1, CallType DEF LogOutStart
  <2>3. store' \in Store /\ tab' \in Tab /\ signedOut' \in BOOLEAN /\ raced' \in BOOLEAN
    BY <1>5, FailureType, TypeParts DEF LogOutStart
  <2> QED
    BY <1>5, <2>2, <2>3 DEF LogOutStart, SessionTypeOK, Request, Store, Tab
<1> QED
  BY <1>1, <1>2, <1>3, <1>4, <1>5

LEMMA SessionTypeStep ==
  ASSUME SessionTypeOK, [SessionNext]_sessionVars PROVE SessionTypeOK'
<1>1. CASE UNCHANGED sessionVars
  BY <1>1 DEF sessionVars, SessionTypeOK
<1>2. CASE SessionNext
  BY <1>2, CallStepType, RefreshType, AuthContextType, RestType DEF SessionNext
<1> QED
  BY <1>1, <1>2

LEMMA SessionTypeInit == SessionInit => SessionTypeOK
<1> SUFFICES ASSUME SessionInit PROVE SessionTypeOK
  OBVIOUS
<1>1. /\ Empty \in Store /\ NoRefresh \in Refresh /\ Idle \in Request
      /\ [user |-> NoUser, page |-> "ready"] \in Tab
  BY Values DEF Tab
<1>2. holder \in Seq(People) /\ Len(holder) <= MaxIssued
  BY SessionAssumption DEF SessionInit
<1> QED
  BY <1>1, <1>2, TypeParts DEF SessionInit-----------------------------------------------------------------------------
\* The rest of the invariant, one lemma for each kind of step.

\* The requests of AuthContext and of DemoPage.
LEMMA OwnCalls ==
  /\ "hydrate" \in AllCalls /\ "login" \in AllCalls /\ "me" \in AllCalls
  /\ "logout" \in AllCalls /\ "demo" \in AllCalls
  /\ \A r \in Calls : r \in AllCalls /\ r \notin Own
  /\ \A r \in AllCalls : r \in Calls \/ r \in Own
  /\ Own \subseteq AllCalls
BY SessionAssumption DEF AllCalls, Own

\* What one step does to one request.
LEMMA CallEffect ==
  ASSUME SessionTypeOK, NEW r \in AllCalls
  PROVE  /\ Settle(r) => /\ ~ Pending(r)' /\ call'[r].pc = "idle"
                         /\ \A q \in AllCalls \ {r} : call'[q] = call[q]
         /\ Send(r) => /\ ~ Pending(r) /\ call'[r].pc = "wire"
                       /\ \A q \in AllCalls \ {r} : call'[q] = call[q]
BY TypeParts DEF Settle, Send, Idle, Wire, Pending

\* Requests that stay as they are, or settle, leave the refresh to be one.
LEMMA OneRefreshKept ==
  ASSUME OneRefresh, refresh' = refresh,
         refresh.by # NoCall => call'[refresh.by].pc = "refreshing",
         \A r \in AllCalls : call'[r] = call[r] \/ call'[r].pc \in {"idle", "wire"}
  PROVE  OneRefresh'
BY DEF OneRefresh

LEMMA PageStepKeeps ==
  ASSUME SessionInv, NEW r \in Calls, PageCall(r) \/ PageAnswer(r)
  PROVE  OneRefresh' /\ OneAtATime' /\ NothingLeft'
<1>0. r \in AllCalls /\ r \notin Own
  BY OwnCalls
<1>1. /\ UNCHANGED <<store, tab, refresh, holder, void, signedOut, raced>>
      /\ Settle(r) \/ Send(r)
  BY DEF PageCall, PageAnswer
<1>2. /\ \A q \in AllCalls \ {r} : call'[q] = call[q]
      /\ call[r].pc \in {"idle", "wire"} /\ call'[r].pc \in {"idle", "wire"}
  BY <1>0, <1>1, CallEffect DEF PageCall, PageAnswer, OnWire, SessionInv, Pending
<1>3. \A q \in Own : Pending(q)' <=> Pending(q)
  BY <1>0, <1>2, OwnCalls DEF Pending
<1>4. OneRefresh'
  BY <1>0, <1>1, <1>2, OneRefreshKept, TypeParts DEF OneRefresh, SessionInv, Refresh
<1>5. OneAtATime'
  <2>1. Pending("hydrate") => ~ PageCall(r)
    BY DEF PageCall, SessionInv, OneAtATime
  <2>2. Pending("hydrate") => FALSE
    <3>1. ASSUME Pending("hydrate"), PageAnswer(r) PROVE FALSE
      BY <3>1, <1>0, OwnCalls DEF PageAnswer, OnWire, SessionInv, OneAtATime, Pending, Own
    <3> QED
      BY <2>1, <3>1
  <2>3. ~ Pending("hydrate")' /\ (Pending("login")' <=> Pending("login"))
        /\ (Pending("me")' <=> Pending("me")) /\ (Pending("logout")' <=> Pending("logout"))
    BY <1>3, <2>2 DEF Own
  <2> QED
    BY <1>1, <2>3 DEF SessionInv, OneAtATime
<1>6. NothingLeft'
  BY <1>1, <1>3 DEF SessionInv, NothingLeft
<1> QED
  BY <1>4, <1>5, <1>6

\* The answer 401, for the first time.
LEMMA RefusedKeeps ==
  ASSUME SessionInv, NEW r \in AllCalls, Queue(r) \/ StartRefresh(r)
  PROVE  OneRefresh' /\ OneAtATime' /\ NothingLeft'
<1>0. /\ call \in [AllCalls -> Request] /\ refresh \in Refresh /\ NoCall \notin AllCalls
      /\ Own \subseteq AllCalls
  BY TypeParts, Values DEF SessionInv
<1>1. /\ call[r].pc = "wire" /\ call'[r].pc \in {"queued", "refreshing"}
      /\ \A q \in AllCalls \ {r} : call'[q] = call[q]
      /\ UNCHANGED <<store, tab, holder, void, signedOut, raced>>
  BY <1>0 DEF Queue, StartRefresh, OnWire, Request
<1>2. \A q \in AllCalls : Pending(q)' <=> Pending(q)
  BY <1>1 DEF Pending
<1>3. OneRefresh'
  <2>1. CASE Queue(r)
    <3>1. call'[r].pc = "queued" /\ refresh.by # NoCall /\ refresh' = refresh
      BY <1>0, <2>1 DEF Queue, Request
    <3>2. refresh.by \in AllCalls /\ refresh.by # r
      BY <1>0, <1>1, <3>1 DEF SessionInv, OneRefresh, Refresh
    <3> QED
      BY <1>1, <3>1, <3>2 DEF SessionInv, OneRefresh
  <2>2. CASE StartRefresh(r)
    <3>1. call'[r].pc = "refreshing" /\ refresh.by = NoCall /\ refresh'.by = r
      BY <1>0, <2>2 DEF StartRefresh, Request
    <3>2. \A q \in AllCalls : call[q].pc \notin {"queued", "refreshing"}
      BY <1>0, <3>1 DEF SessionInv, OneRefresh
    <3> QED
      BY <1>0, <1>1, <3>1, <3>2 DEF OneRefresh
  <2> QED
    BY <2>1, <2>2
<1>4. OneAtATime'
  <2>1. /\ Pending("hydrate")' <=> Pending("hydrate")
        /\ Pending("login")' <=> Pending("login")
        /\ Pending("me")' <=> Pending("me")
        /\ Pending("logout")' <=> Pending("logout")
    BY <1>2, OwnCalls
  <2>2. (\A q \in AllCalls \ {"hydrate"} : ~ Pending(q))
          => (\A q \in AllCalls \ {"hydrate"} : ~ Pending(q))'
    BY <1>2
  <2>3. tab' = tab /\ store' = store
    BY <1>1
  <2> QED
    BY <2>1, <2>2, <2>3 DEF SessionInv, OneAtATime
<1>5. NothingLeft'
  <2>1. store = Empty => refresh' = refresh \/ refresh'.token = 0
    BY DEF Queue, StartRefresh, Empty
  <2>2. \A q \in Own : Pending(q)' <=> Pending(q)
    BY <1>0, <1>2
  <2> QED
    BY <1>1, <2>1, <2>2 DEF SessionInv, NothingLeft
<1> QED
  BY <1>3, <1>4, <1>5

\* The log-out of the tab, however its request ends.
LEMMA SignedOutLeaves ==
  ASSUME SessionInv, AfterFailure({"logout"}), refresh' = refresh, Settle("logout"),
         call["logout"].pc = "wire" \/ (tab.user # NoUser /\ call["logout"].pc = "idle")
  PROVE  OneRefresh' /\ OneAtATime' /\ NothingLeft'
<1>0. /\ "logout" \in AllCalls /\ "logout" \in Own /\ NoCall \notin AllCalls
      /\ call \in [AllCalls -> Request] /\ refresh \in Refresh
  BY OwnCalls, TypeParts, Values DEF SessionInv, Own
<1>1. /\ call'["logout"].pc = "idle" /\ ~ Pending("logout")'
      /\ \A q \in AllCalls \ {"logout"} : call'[q] = call[q]
  BY <1>0, CallEffect DEF SessionInv
<1>2. tab.user # NoUser
  BY DEF SessionInv, OneAtATime, Pending
<1>3. ~ Pending("hydrate") /\ ~ Pending("login") /\ ~ Pending("me")
  BY <1>2 DEF SessionInv, OneAtATime
<1>4. ~ Pending("hydrate")' /\ ~ Pending("login")' /\ ~ Pending("me")'
  BY <1>1, <1>3, OwnCalls DEF Pending
<1>5. /\ store' = Empty /\ tab'.user = NoUser
      /\ raced' = (refresh.by \notin {"logout"} \cup {NoCall} \/ OnWire("demo"))
  BY DEF AfterFailure
<1>6. refresh.by # "logout"
  BY <1>0 DEF SessionInv, OneRefresh, NoCall
<1>7. OneRefresh'
  <2>1. refresh.by # NoCall => call'[refresh.by].pc = "refreshing"
    BY <1>0, <1>1, <1>6 DEF SessionInv, OneRefresh, Refresh
  <2> QED
    BY <1>1, <2>1, OneRefreshKept DEF SessionInv
<1>8. OneAtATime'
  BY <1>1, <1>4 DEF OneAtATime
<1>9. NothingLeft'
  <2> SUFFICES ASSUME ~ raced'
               PROVE  /\ \A q \in Own : ~ Pending(q)'
                      /\ refresh'.by = NoCall
    BY <1>5 DEF NothingLeft
  <2>1. refresh.by = NoCall /\ ~ OnWire("demo")
    BY <1>5, <1>6
  <2>2. call["demo"].pc = "idle"
    BY <1>0, <2>1, OwnCalls DEF SessionInv, OneRefresh, OnWire, Request
  <2>3. ~ Pending("demo")'
    BY <1>1, <2>2, OwnCalls DEF Pending
  <2> QED
    BY <1>1, <1>4, <2>1, <2>3 DEF Own
<1> QED
  BY <1>7, <1>8, <1>9
\* A request fails for good.
LEMMA FailKeeps ==
  ASSUME SessionInv, NEW r \in AllCalls, Fail(r)
  PROVE  OneRefresh' /\ OneAtATime' /\ NothingLeft'
<1>0. /\ call \in [AllCalls -> Request] /\ refresh \in Refresh /\ NoCall \notin AllCalls
      /\ Own \subseteq AllCalls
  BY TypeParts, Values DEF SessionInv
<1>1. CASE r = "logout"
  <2>1. call["logout"].pc = "wire"
    BY <1>1 DEF Fail, OnWire
  <2> QED
    BY <1>1, <2>1, SignedOutLeaves DEF Fail
<1>2. CASE r # "logout"
  <2>1. /\ call[r].pc = "wire" /\ call'[r].pc = "idle" /\ ~ Pending(r)'
        /\ \A q \in AllCalls \ {r} : call'[q] = call[q]
    BY CallEffect DEF Fail, OnWire, SessionInv
  <2>2. /\ store' = IF r = "hydrate" THEN [store EXCEPT !.access = 0] ELSE store
        /\ tab'.user = tab.user /\ (r # "hydrate" => tab' = tab)
        /\ signedOut' = signedOut /\ raced' = raced /\ refresh' = refresh
    <3>1. tab \in Tab /\ signedOut \in BOOLEAN
      BY TypeParts DEF SessionInv
    <3> QED
      BY <1>2, <3>1 DEF Fail, AfterFailure, Tab
  <2>3. \A q \in AllCalls : Pending(q)' => Pending(q)
    BY <2>1 DEF Pending
  <2>4. OneRefresh'
    <3>1. refresh.by # r
      BY <1>0, <2>1 DEF SessionInv, OneRefresh
    <3>2. refresh.by # NoCall => call'[refresh.by].pc = "refreshing"
      BY <1>0, <2>1, <3>1 DEF SessionInv, OneRefresh, Refresh
    <3> QED
      BY <2>1, <2>2, <3>2, OneRefreshKept DEF SessionInv
  <2>5. OneAtATime'
    <3>1. /\ Pending("login")' => Pending("login")
          /\ Pending("me")' => Pending("me")
          /\ Pending("logout")' => Pending("logout")
      BY <2>3, OwnCalls
    <3>2. Pending("me")' => Pending("me")
      BY <2>3, OwnCalls
    <3>3. ~ Pending("hydrate")'
      <4>1. CASE r = "hydrate"
        BY <2>1, <4>1
      <4>2. CASE r # "hydrate"
        <5>1. Pending(r)
          BY <2>1 DEF Pending
        <5>2. ~ Pending("hydrate")
          BY <4>2, <5>1 DEF SessionInv, OneAtATime
        <5> QED
          BY <2>3, <5>2, OwnCalls
      <4> QED
        BY <4>1, <4>2
    <3>4. Pending("login")' => tab.user = NoUser /\ ~ Pending("me")'
      BY <3>1, <3>2 DEF SessionInv, OneAtATime
    <3>5. Pending("me")' => tab.user = NoUser
      BY <3>1 DEF SessionInv, OneAtATime
    <3>6. Pending("logout")' => tab.user # NoUser
      BY <3>1 DEF SessionInv, OneAtATime
    <3> QED
      BY <2>2, <3>3, <3>4, <3>5, <3>6 DEF OneAtATime
  <2>6. NothingLeft'
    <3>1. store = Empty => store' = Empty
      BY <2>2 DEF Empty
    <3>2. (\A q \in Own : ~ Pending(q)) => (\A q \in Own : ~ Pending(q))'
      BY <1>0, <2>3
    <3> QED
      BY <2>2, <3>1, <3>2 DEF SessionInv, NothingLeft
  <2> QED
    BY <2>4, <2>5, <2>6
<1> QED
  BY <1>1, <1>2

\* The answer to the refresh, or its failure.
LEMMA RefreshKeeps ==
  ASSUME SessionInv, RefreshStep PROVE OneRefresh' /\ OneAtATime' /\ NothingLeft'
<1>0. /\ call \in [AllCalls -> Request] /\ refresh \in Refresh /\ NoCall \notin AllCalls
      /\ Own \subseteq AllCalls /\ store \in Store /\ tab \in Tab
      /\ refresh.by # NoCall => refresh.by \in AllCalls /\ call[refresh.by].pc = "refreshing"
  BY TypeParts, Values DEF SessionInv, OneRefresh, Refresh
<1>a. refresh.by # NoCall => refresh.by \in Waiting
  BY <1>0 DEF Waiting
<1>1. CASE RefreshAnswered
  <2> DEFINE n == Len(holder) + 1
  <2>1. refresh.by # NoCall /\ refresh.token # 0 /\ n # 0
    <3>1. refresh.by # NoCall /\ Good(refresh.token) /\ n <= MaxIssued
      BY <1>1 DEF RefreshAnswered, RefreshHeld
    <3> QED
      BY <3>1, GoodToken, NextToken DEF SessionInv
  <2>2. \A q \in AllCalls : call'[q] = IF q \in Waiting THEN Wire(n, call[q].retried) ELSE call[q]
    BY <1>1 DEF RefreshAnswered
  <2>3. /\ refresh' = NoRefresh /\ tab' = tab /\ store' = [store EXCEPT !.access = n]
        /\ signedOut' = signedOut /\ raced' = raced
    BY <1>1 DEF RefreshAnswered
  <2> HIDE DEF n
  <2>4. \A q \in AllCalls : /\ q \in Waiting => call'[q].pc = "wire"
                            /\ Pending(q)' <=> Pending(q)
                            /\ call'[q].pc \in {"idle", "wire"}
    <3> SUFFICES ASSUME NEW q \in AllCalls
                 PROVE  /\ q \in Waiting => call'[q].pc = "wire" /\ call[q].pc # "idle"
                        /\ q \notin Waiting => call'[q] = call[q] /\ call[q].pc \in {"idle", "wire"}
      BY DEF Pending
    <3>1. call[q].pc \in {"idle", "wire", "queued", "refreshing"}
      BY <1>0 DEF Request
    <3>2. CASE q \in Waiting
      <4>1. call[q].pc # "idle"
        BY <3>2 DEF Waiting
      <4>2. call'[q] = Wire(n, call[q].retried)
        BY <2>2, <3>2
      <4>3. call'[q].pc = "wire"
        BY <4>2 DEF Wire
      <4> QED
        BY <3>2, <4>1, <4>3
    <3>3. CASE q \notin Waiting
      <4>1. call[q].pc \notin {"queued", "refreshing"}
        BY <3>3 DEF Waiting
      <4> QED
        BY <2>2, <3>1, <3>3, <4>1
    <3> QED
      BY <3>2, <3>3
  <2>5. OneRefresh'
    BY <2>3, <2>4 DEF OneRefresh, NoRefresh
  <2>6. OneAtATime'
    <3>1. /\ Pending("hydrate")' <=> Pending("hydrate")
          /\ Pending("login")' <=> Pending("login")
          /\ Pending("me")' <=> Pending("me")
          /\ Pending("logout")' <=> Pending("logout")
      BY <2>4, OwnCalls
    <3>2. (\A q \in AllCalls \ {"hydrate"} : ~ Pending(q))
            => (\A q \in AllCalls \ {"hydrate"} : ~ Pending(q))'
      BY <2>4
    <3>3. store'.access # 0
      BY <1>0, <2>1, <2>3 DEF Store
    <3> QED
      BY <2>3, <3>1, <3>2, <3>3 DEF SessionInv, OneAtATime
  <2>7. NothingLeft'
    BY <2>1, <2>3 DEF SessionInv, NothingLeft
  <2> QED
    BY <2>5, <2>6, <2>7
<1>2. CASE RefreshFailed
  <2>1. /\ refresh.by \in Waiting /\ refresh' = NoRefresh
        /\ \A q \in AllCalls : call'[q] = IF q \in Waiting THEN Idle ELSE call[q]
    BY <1>2, <1>a DEF RefreshFailed
  <2>2. \A q \in AllCalls : /\ Pending(q)' => Pending(q) /\ q \notin Waiting
                            /\ call'[q].pc \in {"idle", "wire"}
    BY <1>0, <2>1 DEF Waiting, Pending, Idle, Request
  <2>3. OneRefresh'
    BY <2>1, <2>2 DEF OneRefresh, NoRefresh
  <2>4. ~ Pending("hydrate")'
    <3>1. SUFFICES ASSUME Pending("hydrate")' PROVE FALSE
      OBVIOUS
    <3>2. Pending("hydrate") /\ "hydrate" \notin Waiting
      BY <2>2, <3>1, OwnCalls
    <3>3. refresh.by # "hydrate" /\ refresh.by \in AllCalls /\ call[refresh.by].pc = "refreshing"
      BY <1>0, <1>2, <2>1, <3>2 DEF RefreshFailed
    <3>4. Pending(refresh.by)
      BY <3>3 DEF Pending
    <3> QED
      BY <3>2, <3>3, <3>4 DEF SessionInv, OneAtATime
  <2>5. OneAtATime'
    <3>1. Pending("login")' => tab.user = NoUser /\ ~ Pending("me")
      BY <2>2, OwnCalls DEF SessionInv, OneAtATime
    <3>2. Pending("me")' => Pending("me") /\ tab.user = NoUser
      BY <2>2, OwnCalls DEF SessionInv, OneAtATime
    <3>3. Pending("logout")' => tab.user # NoUser /\ "logout" \notin Waiting
      BY <2>2, OwnCalls DEF SessionInv, OneAtATime
    <3>4. tab'.user = IF "logout" \in Waiting THEN NoUser ELSE tab.user
      BY <1>2 DEF RefreshFailed
    <3> QED
      BY <2>4, <3>1, <3>2, <3>3, <3>4 DEF OneAtATime
  <2>6. NothingLeft'
    <3>1. CASE "logout" \in Waiting
      <4>1. Pending("logout") /\ tab.user # NoUser
        BY <3>1 DEF Waiting, Pending, SessionInv, OneAtATime
      <4>2. ~ Pending("login") /\ ~ Pending("me")
        BY <4>1 DEF SessionInv, OneAtATime
      <4>3. ~ Pending("login")' /\ ~ Pending("me")' /\ ~ Pending("logout")'
        BY <2>2, <3>1, <4>2, OwnCalls
      <4>4. store' = Empty /\ tab'.user = NoUser /\ raced' = OnWire("demo")
        BY <1>2, <3>1 DEF RefreshFailed
      <4>5. ~ raced' => ~ Pending("demo")'
        <5>1. "demo" \in AllCalls
          BY OwnCalls
        <5>2. call["demo"].pc # "wire" => "demo" \in Waiting \/ ~ Pending("demo")
          BY <1>0, <5>1 DEF Waiting, Pending, Request
        <5> QED
          BY <2>2, <4>4, <5>1, <5>2 DEF OnWire
      <4> QED
        BY <2>1, <2>4, <4>3, <4>4, <4>5 DEF NothingLeft, NoRefresh, Own
    <3>2. CASE "logout" \notin Waiting
      <4>1. /\ store' = [store EXCEPT !.access = 0] /\ tab'.user = tab.user
            /\ signedOut' = signedOut /\ raced' = raced
        <5>1. signedOut \in BOOLEAN
          BY TypeParts DEF SessionInv
        <5> QED
          BY <1>2, <3>2, <5>1 DEF RefreshFailed
      <4>2. store = Empty => store' = Empty
        BY <4>1 DEF Empty
      <4>3. (\A q \in Own : ~ Pending(q)) => (\A q \in Own : ~ Pending(q))'
        BY <1>0, <2>2
      <4> QED
        BY <2>1, <4>1, <4>2, <4>3 DEF SessionInv, NothingLeft, NoRefresh
    <3> QED
      BY <3>1, <3>2
  <2> QED
    BY <2>3, <2>5, <2>6
<1> QED
  BY <1>1, <1>2 DEF RefreshStep
\* A request of AuthContext is answered: the tab has a user, has none, or waits for me.
LEMMA AuthContextKeeps ==
  ASSUME SessionInv, AuthContextStep PROVE OneRefresh' /\ OneAtATime' /\ NothingLeft'
<1>0. /\ call \in [AllCalls -> Request] /\ refresh \in Refresh /\ NoCall \notin AllCalls
      /\ store \in Store /\ tab \in Tab /\ SessionTypeOK
  BY TypeParts, Values DEF SessionInv
<1>a. ASSUME NEW r \in AllCalls, OnWire(r), refresh' = refresh,
             \A q \in AllCalls : call'[q] = call[q] \/ (call'[q].pc \in {"idle", "wire"}
                                                      /\ call[q].pc \in {"idle", "wire"})
      PROVE  OneRefresh'
  <2>1. refresh.by # NoCall => call'[refresh.by].pc = "refreshing"
    BY <1>0, <1>a DEF SessionInv, OneRefresh, Refresh
  <2> QED
    BY <1>a, <2>1, OneRefreshKept DEF SessionInv
<1>b. ASSUME NEW r \in AllCalls, OnWire(r), Settle(r), refresh' = refresh PROVE OneRefresh'
  <2>1. \A q \in AllCalls : call'[q] = call[q] \/ (call'[q].pc \in {"idle", "wire"}
                                                    /\ call[q].pc \in {"idle", "wire"})
    BY <1>0, <1>b, CallEffect DEF OnWire
  <2> QED
    BY <1>a, <1>b, <2>1
<1>c. ASSUME NEW r \in AllCalls, Settle(r)
      PROVE  ~ Pending(r)' /\ \A q \in AllCalls \ {r} : Pending(q)' <=> Pending(q)
  BY <1>0, <1>c, CallEffect DEF Pending
<1>1. CASE Hydrated
  <2>1. /\ OnWire("hydrate") /\ Settle("hydrate") /\ refresh' = refresh
        /\ signedOut' = signedOut /\ raced' = raced
    BY <1>1 DEF Hydrated
  <2>2. Pending("hydrate")
    BY <2>1 DEF OnWire, Pending
  <2>3. \A q \in AllCalls : ~ Pending(q)'
    BY <1>c, <2>1, <2>2, OwnCalls DEF SessionInv, OneAtATime
  <2>4. ~ (signedOut /\ ~ raced)
    BY <2>2 DEF SessionInv, NothingLeft, Own
  <2> QED
    BY <1>b, <2>1, <2>3, <2>4, OwnCalls DEF OneAtATime, NothingLeft
<1>2. CASE MeAnswered
  <2>1. /\ OnWire("me") /\ Settle("me") /\ refresh' = refresh
        /\ signedOut' = signedOut /\ raced' = raced
    BY <1>2 DEF MeAnswered
  <2>2. Pending("me")
    BY <2>1 DEF OnWire, Pending
  <2>3. ~ Pending("hydrate") /\ ~ Pending("login") /\ ~ (signedOut /\ ~ raced)
    BY <2>2, OwnCalls DEF SessionInv, OneAtATime, NothingLeft, Own
  <2>4. ~ Pending("hydrate")' /\ ~ Pending("login")' /\ ~ Pending("me")'
    BY <1>c, <2>1, <2>3, OwnCalls
  <2>5. tab'.user # NoUser
    <3>1. holder[call["me"].token] \in People /\ tab' = [tab EXCEPT !.user = holder[call["me"].token]]
      BY <1>0, <1>2, GoodToken DEF MeAnswered
    <3> QED
      BY <1>0, <3>1, SessionAssumption DEF Tab
  <2> QED
    BY <1>b, <2>1, <2>3, <2>4, <2>5, OwnCalls DEF OneAtATime, NothingLeft
<1>3. CASE LogInAnswered
  <2> DEFINE n == Len(holder)
  <2>1. /\ OnWire("login") /\ refresh' = refresh /\ tab' = tab
        /\ signedOut' = signedOut /\ raced' = raced
        /\ call' = [call EXCEPT !["login"] = Idle, !["me"] = Wire(n + 1, FALSE)]
    BY <1>3 DEF LogInAnswered
  <2>2. Pending("login")
    BY <2>1 DEF OnWire, Pending
  <2>3. ~ Pending("me") /\ ~ Pending("hydrate") /\ tab.user = NoUser /\ ~ (signedOut /\ ~ raced)
    BY <2>2, OwnCalls DEF SessionInv, OneAtATime, NothingLeft, Own
  <2> HIDE DEF n
  <2>4. /\ call'["login"].pc = "idle" /\ call'["me"].pc = "wire"
        /\ \A q \in AllCalls \ {"login", "me"} : call'[q] = call[q]
    BY <1>0, <2>1, OwnCalls DEF Idle, Wire
  <2>5. ~ Pending("login")' /\ ~ Pending("hydrate")' /\ ~ Pending("logout")'
    <3>1. ~ Pending("logout")
      BY <2>3 DEF SessionInv, OneAtATime
    <3> QED
      BY <2>3, <2>4, <3>1, OwnCalls DEF Pending
  <2>6. OneRefresh'
    <3>1. \A q \in AllCalls : call'[q] = call[q] \/ (call'[q].pc \in {"idle", "wire"}
                                                      /\ call[q].pc \in {"idle", "wire"})
      BY <2>1, <2>3, <2>4 DEF OnWire, Pending
    <3> QED
      BY <1>a, <2>1, <3>1, OwnCalls
  <2>7. OneAtATime'
    BY <2>1, <2>3, <2>5 DEF OneAtATime
  <2>8. NothingLeft'
    BY <2>1, <2>3 DEF NothingLeft
  <2> QED
    BY <2>6, <2>7, <2>8
<1>4. CASE DemoAnswered
  <2>1. /\ OnWire("demo") /\ Settle("demo") /\ refresh' = refresh /\ tab' = tab
        /\ signedOut' = signedOut /\ raced' = raced
    BY <1>4 DEF DemoAnswered
  <2>2. Pending("demo") /\ "demo" \in AllCalls
    BY <2>1, OwnCalls DEF OnWire, Pending
  <2>3. ~ Pending("hydrate") /\ ~ (signedOut /\ ~ raced)
    BY <2>2, OwnCalls DEF SessionInv, OneAtATime, NothingLeft, Own
  <2>4. /\ ~ Pending("hydrate")' /\ (Pending("login")' <=> Pending("login"))
        /\ (Pending("me")' <=> Pending("me")) /\ (Pending("logout")' <=> Pending("logout"))
    BY <1>c, <2>1, <2>3, OwnCalls
  <2>5. OneAtATime'
    BY <2>1, <2>4 DEF SessionInv, OneAtATime
  <2> QED
    BY <1>b, <2>1, <2>2, <2>3, <2>5 DEF NothingLeft
<1>5. CASE LogOutAnswered
  BY <1>5, SignedOutLeaves DEF LogOutAnswered, OnWire
<1> QED
  BY <1>1, <1>2, <1>3, <1>4, <1>5 DEF AuthContextStep

LEMMA ReloadKeeps ==
  ASSUME SessionInv, Reload PROVE OneRefresh' /\ OneAtATime' /\ NothingLeft'
<1>1. /\ \A q \in AllCalls \ {"hydrate"} : call'[q].pc = "idle"
      /\ call'["hydrate"].pc = IF store.access = 0 THEN "idle" ELSE "wire"
      /\ refresh' = NoRefresh /\ store' = store /\ signedOut' = signedOut /\ raced' = raced
      /\ tab' = [user |-> NoUser, page |-> IF store.access = 0 THEN "ready" ELSE "loading"]
  BY OwnCalls DEF Reload, Idle, Wire
<1>2. \A q \in AllCalls \ {"hydrate"} : ~ Pending(q)'
  BY <1>1 DEF Pending
<1>3. Pending("hydrate")' <=> store.access # 0
  BY <1>1 DEF Pending
<1>4. OneRefresh'
  BY <1>1 DEF OneRefresh, NoRefresh
<1>5. OneAtATime'
  BY <1>1, <1>2, <1>3, OwnCalls DEF OneAtATime
<1>6. NothingLeft'
  <2>1. signedOut /\ ~ raced => store.access = 0
    BY DEF SessionInv, NothingLeft, Empty
  <2> QED
    BY <1>1, <1>2, <1>3, <2>1, OwnCalls DEF SessionInv, NothingLeft, NoRefresh
<1> QED
  BY <1>4, <1>5, <1>6

\* A log-in begins, on its page or on DemoPage.
LEMMA StartKeeps ==
  ASSUME SessionInv, LogInStart \/ DemoOpened PROVE OneRefresh' /\ OneAtATime' /\ NothingLeft'
<1>1. PICK r \in {"login", "demo"} :
        /\ Send(r) /\ refresh' = refresh /\ tab' = tab /\ signedOut' = FALSE
        /\ r = "login" => LogInStart
        /\ r = "demo" => DemoOpened
  BY DEF LogInStart, DemoOpened
<1>2. r \in AllCalls /\ r \in Own
  BY OwnCalls DEF Own
<1>3. /\ call[r].pc = "idle" /\ call'[r].pc = "wire" /\ \A q \in AllCalls \ {r} : call'[q] = call[q]
  BY <1>1, <1>2, CallEffect DEF SessionInv, Pending
<1>4. OneRefresh'
  <2>1. refresh \in Refresh
    BY TypeParts DEF SessionInv
  <2>2. refresh.by # NoCall => call'[refresh.by].pc = "refreshing"
    BY <1>3, <2>1 DEF SessionInv, OneRefresh, Refresh
  <2> QED
    BY <1>1, <1>3, <2>2, OneRefreshKept DEF SessionInv
<1>5. NothingLeft'
  BY <1>1 DEF NothingLeft
<1>6. ~ Pending("hydrate")
  BY <1>1 DEF LogInStart, DemoOpened, SessionInv, OneAtATime
<1>7. /\ ~ Pending("hydrate")' /\ (Pending("me")' <=> Pending("me"))
      /\ (Pending("logout")' <=> Pending("logout"))
  BY <1>1, <1>3, <1>6, OwnCalls DEF Pending
<1>8. Pending("login")' => tab.user = NoUser /\ ~ Pending("me")
  <2>1. CASE r = "login"
    BY <1>1, <2>1 DEF LogInStart, Idle, Pending
  <2>2. CASE r # "login"
    BY <1>3, <2>2, OwnCalls DEF SessionInv, OneAtATime, Pending
  <2> QED
    BY <2>1, <2>2
<1>9. OneAtATime'
  BY <1>1, <1>7, <1>8 DEF SessionInv, OneAtATime
<1> QED
  BY <1>4, <1>5, <1>9

LEMMA LogOutStartKeeps ==
  ASSUME SessionInv, LogOutStart PROVE OneRefresh' /\ OneAtATime' /\ NothingLeft'
<1>0. call \in [AllCalls -> Request] /\ refresh \in Refresh /\ "logout" \in AllCalls
  BY TypeParts, OwnCalls DEF SessionInv
<1>1. call["logout"] = Idle /\ tab.user # NoUser /\ refresh' = refresh
  BY DEF LogOutStart
<1>2. ~ Pending("hydrate") /\ ~ Pending("login") /\ ~ Pending("me")
  BY <1>1 DEF SessionInv, OneAtATime
<1>3. CASE Send("logout") /\ UNCHANGED <<store, tab, signedOut, raced>>
  <2>1. call'["logout"].pc = "wire" /\ call["logout"].pc = "idle"
        /\ \A q \in AllCalls \ {"logout"} : call'[q] = call[q]
    BY <1>0, <1>3, CallEffect DEF SessionInv, Pending
  <2>2. ~ Pending("hydrate")' /\ ~ Pending("login")' /\ ~ Pending("me")'
    BY <1>2, <2>1, OwnCalls DEF Pending
  <2>3. OneAtATime'
    BY <1>1, <1>3, <2>2 DEF OneAtATime
  <2>4. refresh.by # NoCall => call'[refresh.by].pc = "refreshing"
    BY <1>0, <2>1 DEF SessionInv, OneRefresh, Refresh
  <2>5. OneRefresh'
    BY <1>1, <2>1, <2>4, OneRefreshKept DEF SessionInv
  <2>6. NothingLeft'
    BY <1>1, <1>3 DEF SessionInv, NothingLeft
  <2> QED
    BY <2>3, <2>5, <2>6
<1>4. CASE call' = call /\ AfterFailure({"logout"})
  <2>1. Settle("logout")
    BY <1>0, <1>1, <1>4 DEF Settle
  <2>2. call["logout"].pc = "idle"
    BY <1>1 DEF Idle
  <2> QED
    BY <1>1, <1>4, <2>1, <2>2, SignedOutLeaves
<1> QED
  BY <1>3, <1>4 DEF LogOutStart

LEMMA SessionInvStep == SessionInv /\ [SessionNext]_sessionVars => SessionInv'
<1> SUFFICES ASSUME SessionInv, [SessionNext]_sessionVars PROVE SessionInv'
  OBVIOUS
<1>1. SessionTypeOK'
  BY SessionTypeStep DEF SessionInv
<1>2. CASE UNCHANGED sessionVars \/ \E n \in 1..MaxIssued : TokenExpires(n)
  <2>1. UNCHANGED <<store, tab, call, refresh, signedOut, raced>>
    BY <1>2 DEF sessionVars, TokenExpires
  <2>2. OneRefresh' /\ OneAtATime' /\ NothingLeft'
    BY <2>1 DEF SessionInv, OneRefresh, OneAtATime, NothingLeft, Pending
  <2> QED
    BY <1>1, <2>2 DEF SessionInv
<1>3. CASE \E r \in AllCalls : CallStep(r)
  BY <1>1, <1>3, PageStepKeeps, RefusedKeeps, FailKeeps DEF CallStep, SessionInv
<1>4. CASE \E r \in Calls : PageCall(r)
  BY <1>1, <1>4, PageStepKeeps DEF SessionInv
<1>5. CASE AuthContextStep \/ RefreshStep \/ Reload \/ LogInStart \/ LogOutStart \/ DemoOpened
  <2>1. OneRefresh' /\ OneAtATime' /\ NothingLeft'
    BY <1>5, AuthContextKeeps, RefreshKeeps, ReloadKeeps, StartKeeps, LogOutStartKeeps
  <2> QED
    BY <1>1, <2>1 DEF SessionInv
<1> QED
  BY <1>2, <1>3, <1>4, <1>5 DEF SessionNext

-----------------------------------------------------------------------------
(* The inductive invariant of a tab's session: one request waits for the refresh
   in flight and the others behind it (client.ts), and hydration, log-in and
   log-out never overlap (AuthContext). *)
THEOREM SessionInvariance == SessionSpec => []SessionInv
<1>1. SessionInit => SessionInv
  <2> SUFFICES ASSUME SessionInit PROVE SessionInv
    OBVIOUS
  <2>1. \A r \in AllCalls : call[r].pc = "idle"
    BY DEF SessionInit, Idle
  <2>2. \A r \in AllCalls : ~ Pending(r)
    BY <2>1 DEF Pending
  <2>3. OneRefresh
    BY <2>1 DEF SessionInit, OneRefresh, NoRefresh
  <2>4. OneAtATime
    BY <2>2, OwnCalls DEF OneAtATime
  <2> QED
    BY <2>3, <2>4, SessionTypeInit DEF SessionInit, SessionInv, NothingLeft
<1> QED
  BY <1>1, SessionInvStep, PTL DEF SessionSpec

(* The storage, the tab, its requests and the tokens keep their types. *)
THEOREM SessionTypeCorrect == SessionSpec => []SessionTypeOK
<1>1. SessionInv => SessionTypeOK
  BY DEF SessionInv
<1> QED
  BY <1>1, SessionInvariance, PTL

(* Once the user has logged out, nothing that was in flight signs the tab in
   again, but a refresh or DemoPage's log-in under way at that moment: for any
   number of requests of the pages, of tokens and of users. *)
THEOREM SignedOutForGood == SessionSpec => []SignedOutStaysOut
<1>1. SessionInv => SignedOutStaysOut
  BY DEF SessionInv, NothingLeft, SignedOutStaysOut, Empty
<1> QED
  BY <1>1, SessionInvariance, PTL

-----------------------------------------------------------------------------
\* The server and the tab together.

LEMMA SidesStep ==
  [Next]_<<part, authVars, sessionVars>> => [AuthNext]_authVars /\ [SessionNext]_sessionVars
BY DEF Next

(* Signing in on the server and the session of a tab run side by side as each of
   them runs alone, and the tab's requests come to an end. *)
LEMMA SidesRunAsAlone == Spec => AuthSpec /\ SessionFairSpec
<1>1. Init => AuthInit /\ SessionInit
  BY DEF Init
<1> QED
  BY <1>1, SidesStep, PTL DEF Spec, AuthSpec, SessionSpec, SessionFairSpec

(* In the two together every variable holds a value of its kind. *)
THEOREM SidesTypeCorrect == Spec => []TypeOK
<1>1. AuthTypeOK /\ SessionTypeOK => TypeOK
  BY DEF TypeOK
<1> QED
  BY <1>1, SidesRunAsAlone, AuthTypeCorrect, SessionTypeCorrect, PTL DEF SessionFairSpec

(* What is proved of each side alone holds of it next to the other: locks are
   deserved, accounts with one address overlapped, and whoever signed out stays so. *)
THEOREM SidesKeepPromises ==
  Spec => [](LockNeedsFailures /\ DuplicateNeedsOverlap /\ SignedOutStaysOut)
BY SidesRunAsAlone, LockIsDeserved, DuplicatesOverlapped, SignedOutForGood, PTL DEF SessionFairSpec
=============================================================================
