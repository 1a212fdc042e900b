------------------------------ MODULE Session -------------------------------
(***************************************************************************)
(* The session of one browser tab: localStorage, the signed-in user of     *)
(* AuthContext, and the axios client, whose interceptor answers a 401 by   *)
(* one refresh and queues the other requests that meet a 401 meanwhile.    *)
(* The server's part is what a request is answered: a token is good until  *)
(* it expires or a log-out deletes it, and a refresh must name the token's *)
(* own user.  Access and refresh tokens are numbered in the order in which *)
(* they are issued; 0 is no token.                                         *)
(***************************************************************************)
EXTENDS Naturals, Sequences

CONSTANTS
  People,     \* users who may sign in with this browser
  DemoUser,   \* the user of the demo
  Calls,      \* requests of the pages
  MaxIssued   \* bound on the tokens issued

\* The requests AuthContext makes itself, and the log-in of DemoPage.
Own == {"login", "me", "hydrate", "logout", "demo"}
PasswordCalls == {"login", "demo"}
AllCalls == Calls \cup Own
NoUser == "no user"
NoCall == "no call"

ASSUME SessionAssumption ==
  /\ MaxIssued \in Nat
  /\ Calls \cap Own = {} /\ NoCall \notin Calls
  /\ DemoUser \in People /\ NoUser \notin People

VARIABLES
  store,      \* localStorage: accessToken, refreshToken, userId
  tab,        \* the user shown, and whether the tab is loading or leaving
  call,       \* requests
  refresh,    \* the refresh in flight
  holder,     \* the user each token was issued to
  void,       \* tokens that have expired or were deleted
  signedOut,  \* whether the last thing the user did was to log out
  raced       \* whether a refresh, or DemoPage's log-in, was in flight when it cleared the storage

sessionVars == <<store, tab, call, refresh, holder, void, signedOut, raced>>

Tokens == 0..MaxIssued
Idle == [pc |-> "idle", token |-> 0, retried |-> FALSE]
Wire(n, retried) == [pc |-> "wire", token |-> n, retried |-> retried]
NoRefresh == [by |-> NoCall, userId |-> NoUser, token |-> 0]
Empty == [access |-> 0, refresh |-> 0, userId |-> NoUser]

SessionTypeOK ==
  /\ store \in [access : Tokens, refresh : Tokens, userId : People \cup {NoUser}]
  /\ tab \in [user : People \cup {NoUser}, page : {"loading", "ready", "leaving"}]
  /\ call \in [AllCalls -> [pc : {"idle", "wire", "queued", "refreshing"}, token : Tokens,
                            retried : BOOLEAN]]
  /\ refresh \in [by : AllCalls \cup {NoCall}, userId : People \cup {NoUser}, token : Tokens]
  /\ holder \in Seq(People) /\ Len(holder) <= MaxIssued
  /\ void \subseteq Tokens
  /\ signedOut \in BOOLEAN /\ raced \in BOOLEAN

SessionInit ==
  /\ store = Empty
  /\ tab = [user |-> NoUser, page |-> "ready"]
  /\ call = [r \in AllCalls |-> Idle]
  /\ refresh = NoRefresh
  /\ holder = <<>> /\ void = {} /\ signedOut = FALSE /\ raced = FALSE

Good(n) == n \in DOMAIN holder /\ n \notin void
OnWire(r) == call[r].pc = "wire"
Settle(r) == call' = [call EXCEPT ![r] = Idle]
\* The request interceptor adds the token of the storage.
Send(r) == call[r] = Idle /\ call' = [call EXCEPT ![r] = Wire(store.access, FALSE)]

TokenExpires(n) ==
  /\ Good(n) /\ void' = void \cup {n}
  /\ UNCHANGED <<store, tab, call, refresh, holder, signedOut, raced>>

-----------------------------------------------------------------------------
\* Requests of the pages.
PageCall(r) ==
  /\ tab.user # NoUser /\ Send(r)
  /\ UNCHANGED <<store, tab, refresh, holder, void, signedOut, raced>>

\* Any answer but 401, or none.
PageAnswer(r) ==
  /\ OnWire(r) /\ Settle(r)
  /\ UNCHANGED <<store, tab, refresh, holder, void, signedOut, raced>>

\* What a request of AuthContext does when it fails: hydrate takes the access
\* token out of the storage, logout empties it, the others show an error.
AfterFailure(F) ==
  /\ store' = IF "logout" \in F THEN Empty
              ELSE IF "hydrate" \in F THEN [store EXCEPT !.access = 0] ELSE store
  /\ tab' = [user |-> IF "logout" \in F THEN NoUser ELSE tab.user,
             page |-> IF tab.page = "loading" /\ "hydrate" \in F THEN "ready" ELSE tab.page]
  /\ signedOut' = (signedOut \/ "logout" \in F)
  /\ raced' = IF "logout" \in F THEN refresh.by \notin F \cup {NoCall} \/ OnWire("demo") ELSE raced

\* The server takes the refresh token of the storage for its user's.
RefreshHeld(n, userId) == Good(n) /\ holder[n] = userId
\* Requests that may be answered 401: a wrong password, an access token that is
\* no good, a log-out whose refresh token the server does not find.
Unauthorized(r) ==
  \/ r \in PasswordCalls \/ ~ Good(call[r].token)
  \/ r = "logout" /\ ~ RefreshHeld(store.refresh, store.userId)

\* The response interceptor on a 401, for the first time and while a refresh is in flight.
Queue(r) ==
  /\ OnWire(r) /\ Unauthorized(r)
  /\ ~ call[r].retried /\ refresh.by # NoCall
  /\ call' = [call EXCEPT ![r].pc = "queued"]
  /\ UNCHANGED <<store, tab, refresh, holder, void, signedOut, raced>>

StartRefresh(r) ==
  /\ OnWire(r) /\ Unauthorized(r)
  /\ ~ call[r].retried /\ refresh.by = NoCall
  /\ call' = [call EXCEPT ![r].pc = "refreshing", ![r].retried = TRUE]
  /\ refresh' = [by |-> r, userId |-> store.userId, token |-> store.refresh]
  /\ UNCHANGED <<store, tab, holder, void, signedOut, raced>>

\* A 401 of a request that was sent again, or another error of AuthContext's requests.
Fail(r) ==
  /\ OnWire(r) /\ (r \in Own \/ call[r].retried)
  /\ Settle(r) /\ AfterFailure({r})
  /\ UNCHANGED <<refresh, holder, void>>

Waiting == {r \in AllCalls : call[r].pc \in {"queued", "refreshing"}}

\* Mutated: only the request that met the first 401 is sent again.
RefreshAnsweredAlone ==
  LET n == Len(holder) + 1 IN
  /\ refresh.by # NoCall /\ RefreshHeld(refresh.token, refresh.userId)
  /\ n <= MaxIssued
  /\ holder' = Append(holder, refresh.userId)
  /\ store' = [store EXCEPT !.access = n]
  /\ call' = [call EXCEPT ![refresh.by] = Wire(n, TRUE)]
  /\ refresh' = NoRefresh
  /\ UNCHANGED <<tab, void, signedOut, raced>>

\* The new access token is stored and every waiting request is sent again; of
\* these, only the one that began the refresh is marked as sent again.
RefreshAnswered ==
  LET n == Len(holder) + 1 IN
  /\ refresh.by # NoCall /\ RefreshHeld(refresh.token, refresh.userId)
  /\ n <= MaxIssued
  /\ holder' = Append(holder, refresh.userId)
  /\ store' = [store EXCEPT !.access = n]
  /\ call' = [r \in AllCalls |-> IF r \in Waiting THEN Wire(n, call[r].retried) ELSE call[r]]
  /\ refresh' = NoRefresh
  /\ UNCHANGED <<tab, void, signedOut, raced>>

\* The refresh is refused or gets no answer: the waiting requests fail, the
\* access token goes, and the tab leaves for /login.
RefreshFailed ==
  /\ refresh.by # NoCall
  /\ call' = [r \in AllCalls |-> IF r \in Waiting THEN Idle ELSE call[r]]
  /\ refresh' = NoRefresh
  /\ store' = IF "logout" \in Waiting THEN Empty ELSE [store EXCEPT !.access = 0]
  /\ tab' = [user |-> IF "logout" \in Waiting THEN NoUser ELSE tab.user, page |-> "leaving"]
  /\ signedOut' = (signedOut \/ "logout" \in Waiting)
  /\ raced' = IF "logout" \in Waiting THEN OnWire("demo") ELSE raced
  /\ UNCHANGED <<holder, void>>

\* The page is loaded anew: what was in flight is forgotten, and the tab
\* hydrates if there is an access token.
Reload ==
  /\ refresh' = NoRefresh
  /\ call' = [[r \in AllCalls |-> Idle] EXCEPT !["hydrate"] =
                IF store.access = 0 THEN Idle ELSE Wire(store.access, FALSE)]
  /\ tab' = [user |-> NoUser, page |-> IF store.access = 0 THEN "ready" ELSE "loading"]
  /\ UNCHANGED <<store, holder, void, signedOut, raced>>

-----------------------------------------------------------------------------
\* AuthContext.
Hydrated ==
  /\ OnWire("hydrate") /\ Good(call["hydrate"].token) /\ Settle("hydrate")
  /\ tab' = [user |-> holder[call["hydrate"].token], page |-> "ready"]
  /\ UNCHANGED <<store, refresh, holder, void, signedOut, raced>>

\* login: POST /auth/login, which also carries the token of the storage; on
\* LoginPage, or on SignupPage after the sign-up.
LogInStart ==
  /\ tab.user = NoUser /\ tab.page # "loading" /\ call["me"] = Idle /\ Send("login")
  /\ signedOut' = FALSE /\ raced' = FALSE
  /\ UNCHANGED <<store, tab, refresh, holder, void>>

\* Both tokens are stored and me is asked; userId is not stored yet.
LogInAnswered ==
  LET n == Len(holder) IN
  /\ OnWire("login") /\ n + 2 <= MaxIssued
  /\ \E p \in People : holder' = holder \o <<p, p>>
  /\ store' = [store EXCEPT !.access = n + 1, !.refresh = n + 2]
  /\ call' = [call EXCEPT !["login"] = Idle, !["me"] = Wire(n + 1, FALSE)]
  /\ UNCHANGED <<tab, refresh, void, signedOut, raced>>

MeAnswered ==
  /\ OnWire("me") /\ Good(call["me"].token) /\ Settle("me")
  /\ store' = [store EXCEPT !.userId = holder[call["me"].token]]
  /\ tab' = [tab EXCEPT !.user = holder[call["me"].token]]
  /\ UNCHANGED <<refresh, holder, void, signedOut, raced>>

\* DemoPage on mount: a log-in of the demo user, unless there is an access token
\* already.  It stores that token only and tells AuthContext nothing.
DemoOpened ==
  /\ store.access = 0 /\ Send("demo")
  /\ signedOut' = FALSE /\ raced' = FALSE
  /\ UNCHANGED <<store, tab, refresh, holder, void>>

DemoAnswered ==
  LET n == Len(holder) IN
  /\ OnWire("demo") /\ n + 2 <= MaxIssued /\ Settle("demo")
  /\ holder' = holder \o <<DemoUser, DemoUser>>
  /\ store' = [store EXCEPT !.access = n + 1]
  /\ UNCHANGED <<tab, refresh, void, signedOut, raced>>

\* logout: the server is told if the storage has both a user and a refresh token.
LogOutStart ==
  /\ tab.user # NoUser /\ tab.page # "loading" /\ call["logout"] = Idle
  /\ IF store.userId # NoUser /\ store.refresh # 0
     THEN Send("logout") /\ UNCHANGED <<store, tab, signedOut, raced>>
     ELSE call' = call /\ AfterFailure({"logout"})
  /\ UNCHANGED <<refresh, holder, void>>

\* Mutated: the refresh token stays in the storage.
LogOutAnsweredKeeps ==
  /\ OnWire("logout") /\ Good(call["logout"].token) /\ Settle("logout")
  /\ RefreshHeld(store.refresh, store.userId)
  /\ store' = [Empty EXCEPT !.refresh = store.refresh, !.userId = store.userId]
  /\ tab' = [tab EXCEPT !.user = NoUser]
  /\ signedOut' = TRUE /\ raced' = (refresh.by # NoCall \/ OnWire("demo"))
  /\ UNCHANGED <<refresh, holder, void>>

\* The server deletes the refresh token; the storage is emptied in any case.
LogOutAnswered ==
  /\ OnWire("logout") /\ Good(call["logout"].token) /\ Settle("logout")
  /\ RefreshHeld(store.refresh, store.userId)
  /\ void' = void \cup {store.refresh}
  /\ AfterFailure({"logout"})
  /\ UNCHANGED <<refresh, holder>>

CallStep(r) ==
  \/ r \in Calls /\ PageAnswer(r)
  \/ Queue(r) \/ StartRefresh(r) \/ Fail(r)
AuthContextStep ==
  Hydrated \/ LogInAnswered \/ MeAnswered \/ LogOutAnswered \/ DemoAnswered
RefreshStep == RefreshAnswered \/ RefreshFailed

SessionNext ==
  \/ \E n \in 1..MaxIssued : TokenExpires(n)
  \/ \E r \in Calls : PageCall(r)
  \/ \E r \in AllCalls : CallStep(r)
  \/ AuthContextStep \/ RefreshStep \/ Reload
  \/ LogInStart \/ LogOutStart \/ DemoOpened

SessionSpec == SessionInit /\ [][SessionNext]_sessionVars

\* The network answers or gives up: a request and a refresh come to an end.
SessionFairness ==
  /\ WF_sessionVars(RefreshStep)
  /\ \A r \in AllCalls : WF_sessionVars(CallStep(r))
SessionFairSpec == SessionSpec /\ SessionFairness

-----------------------------------------------------------------------------
(* Properties.                                                             *)

\* After a log-out the browser holds no access token and shows no user,
\* whatever requests of the user were in flight, unless one of them had begun
\* a refresh or was DemoPage's log-in (logout; the interceptor and DemoPage
\* store what they are answered).
SignedOutStaysOut ==
  signedOut /\ ~ raced => store.access = 0 /\ tab.user = NoUser

\* A request that is queued behind a refresh is answered or rejected, even when
\* the token the refresh brought expires before the request is sent again
\* (processQueue; a queued request is not marked _retry and may be queued anew).
QueuedSettles ==
  \A r \in AllCalls : call[r].pc = "queued" ~> call[r].pc = "idle"
=============================================================================
