--------------------------- MODULE AccountingSync ---------------------------
(***************************************************************************)
(* Accounting sync: a run (the 'Sync now' of a tenant, or the nightly      *)
(* scheduler, which takes the tenants one after the other) reads the       *)
(* tenant's accounting connection and Stripe connection, refreshes the     *)
(* accounting tokens if they are about to expire, and creates one entry in *)
(* the books of QuickBooks or Xero for every succeeded charge of the last  *)
(* 24 hours that is not yet SYNCED.  The entry is created first, the row   *)
(* SyncedTransaction is written afterwards.  A refresh spends the refresh  *)
(* token it presents.                                                      *)
(***************************************************************************)
EXTENDS Connections

CONSTANTS
  Runs,        \* runs of syncTransactions or of runNightlySync
  RunTenant,   \* the tenant a manual run is for, Nightly for a nightly one
  Nightly,
  Charges, ChargeTenant, NoCharge,
  Succeeded,   \* the charges whose status is 'succeeded'
  PageLimit,   \* charges.list asks for at most so many (100)
  MaxToken,    \* bound on the refresh tokens the provider issues
  SyncFaults   \* bound on crashes, lost answers and failed local writes

ASSUME AccountingAssumption ==
  /\ Nightly \notin Tenants /\ NoCharge \notin Charges
  /\ RunTenant \in [Runs -> Tenants \cup {Nightly}]
  /\ ChargeTenant \in [Charges -> Tenants]
  /\ Succeeded \subseteq Charges
  /\ IsFiniteSet(Runs)
  /\ PageLimit \in Nat \ {0} /\ MaxToken \in Nat /\ SyncFaults \in Nat

VARIABLES
  account,   \* AccountingConnection rows; id 0: no row
  accepted,  \* refresh tokens the provider still accepts
  issued,    \* refresh tokens issued so far, named 1, 2, ...
  granted,   \* tokens exchanged by a connect request and not stored yet
  lost,      \* tokens the provider has taken without their successor being stored
  charge,    \* what Stripe's list shows of a charge
  txn,       \* SyncedTransaction rows: status, and whether an entry id is held
  books,     \* entries in the accounting system for a charge
  excuse,    \* overlaps and interrupted creates a charge has met
  run,       \* runs
  syncFaults \* faults so far

syncVars == <<account, accepted, issued, granted, lost, charge, txn, books, excuse, run,
              syncFaults>>
accountingVars == <<connectionVars, syncVars>>

RunPc == {"idle", "next", "stripe", "list", "token", "save", "loop", "create", "mark",
          "markFailed", "end", "error", "died"}
Account == [id : Nat, token : Nat, fresh : BOOLEAN]
Run == [pc : RunPc, todo : SUBSET Tenants, tenant : Tenants \cup {Nightly}, seen : Account,
        new : Nat, list : SUBSET Charges, left : SUBSET Charges, cur : Charges \cup {NoCharge}]
Txn == [status : {"ABSENT", "SYNCED", "FAILED"}, entry : BOOLEAN]
NoAccount == [id |-> 0, token |-> 0, fresh |-> FALSE]

\* The locals of syncTransactions before it has read anything.
Fresh(pc, todo) ==
  [pc |-> pc, todo |-> todo, tenant |-> Nightly, seen |-> NoAccount, new |-> 0,
   list |-> {}, left |-> {}, cur |-> NoCharge]

AccountingTypeOK ==
  /\ ConnectionsTypeOK
  /\ account \in [Tenants -> Account]
  /\ accepted \subseteq Nat /\ issued \in 0..MaxToken
  /\ granted \subseteq [tenant : Tenants, token : Nat]
  /\ lost \subseteq Nat
  /\ charge \in [Charges -> {"none", "recent", "old"}]
  /\ txn \in [Charges -> Txn]
  /\ books \in [Charges -> Nat] /\ excuse \in [Charges -> Nat]
  /\ run \in [Runs -> Run]
  /\ syncFaults \in 0..SyncFaults

AccountingInit ==
  /\ ConnectionsInit
  /\ account = [t \in Tenants |-> NoAccount]
  /\ accepted = {} /\ issued = 0 /\ granted = {} /\ lost = {}
  /\ charge = [c \in Charges |-> "none"]
  /\ txn = [c \in Charges |-> [status |-> "ABSENT", entry |-> FALSE]]
  /\ books = [c \in Charges |-> 0] /\ excuse = [c \in Charges |-> 0]
  /\ run = [r \in Runs |-> Fresh("idle", {})]
  /\ syncFaults = 0

-----------------------------------------------------------------------------
\* Accounting connections.  A second connect renews the row it finds.

Issue(n) == issued < MaxToken /\ n = issued + 1 /\ issued' = n

\* exchangeCodeForTokens of connectQuickBooks and connectXero.
ExchangeGrant(t) ==
  \E n \in 1..MaxToken :
    /\ Issue(n)
    /\ accepted' = accepted \cup {n}
    /\ granted' = granted \cup {[tenant |-> t, token |-> n]}
    /\ UNCHANGED <<connectionVars, account, lost, charge, txn, books, excuse, run, syncFaults>>

\* The upsert that follows, or a request that dies before it.
StoreGrant(g) ==
  /\ granted' = granted \ {g}
  /\ account' = [account EXCEPT ![g.tenant] =
       [id |-> IF account[g.tenant].id = 0 THEN g.token ELSE account[g.tenant].id,
        token |-> g.token, fresh |-> TRUE]]
  /\ UNCHANGED <<connectionVars, accepted, issued, lost, charge, txn, books, excuse, run,
                 syncFaults>>

DropGrant(g) ==
  /\ granted' = granted \ {g}
  /\ UNCHANGED <<connectionVars, account, accepted, issued, lost, charge, txn, books, excuse,
                 run, syncFaults>>

\* disconnectProvider deletes the row; the provider is not told.
DisconnectProvider(t) ==
  /\ account[t].id # 0
  /\ account' = [account EXCEPT ![t] = NoAccount]
  /\ UNCHANGED <<connectionVars, accepted, issued, granted, lost, charge, txn, books, excuse,
                 run, syncFaults>>

\* tokenExpiresAt comes within five minutes.
TokenAges(t) ==
  /\ account[t].fresh
  /\ account' = [account EXCEPT ![t].fresh = FALSE]
  /\ UNCHANGED <<connectionVars, accepted, issued, granted, lost, charge, txn, books, excuse,
                 run, syncFaults>>

\* A charge is made; 24 hours later it leaves the list.
ChargeStep(c) ==
  /\ \/ charge[c] = "none" /\ charge' = [charge EXCEPT ![c] = "recent"]
     \/ charge[c] = "recent" /\ charge' = [charge EXCEPT ![c] = "old"]
  /\ UNCHANGED <<connectionVars, account, accepted, issued, granted, lost, txn, books, excuse,
                 run, syncFaults>>

-----------------------------------------------------------------------------
\* Runs.  booksVars: what the loop over the charges writes.

tokenVars == <<connectionVars, account, accepted, issued, granted, lost, charge>>

At(r, pc) == run[r].pc = pc
To(r, pc) == run' = [run EXCEPT ![r].pc = pc]

\* Mutated: the error of one tenant ends the nightly run.
FailedThrows(r) == run' = [run EXCEPT ![r] = Fresh("error", {})]

\* An error of syncTransactions: the scheduler goes on with the next tenant,
\* the manual request is answered with the error.
Failed(r) ==
  run' = [run EXCEPT ![r] = IF RunTenant[r] = Nightly THEN Fresh("next", run[r].todo)
                                                      ELSE Fresh("error", {})]

StartRun(r) ==
  /\ At(r, "idle")
  /\ run' = [run EXCEPT ![r].pc = "next",
       ![r].todo = IF RunTenant[r] = Nightly THEN {t \in Tenants : account[t].id # 0}
                                             ELSE {RunTenant[r]}]
  /\ UNCHANGED <<tokenVars, txn, books, excuse, syncFaults>>

\* The next tenant: accountingConnection.findFirst.
FindConnection(r) ==
  /\ At(r, "next")
  /\ \E t \in run[r].todo :
       IF account[t].id # 0
       THEN run' = [run EXCEPT ![r].pc = "stripe", ![r].todo = run[r].todo \ {t},
                               ![r].tenant = t, ![r].seen = account[t]]
       ELSE run' = [run EXCEPT ![r] =
              IF RunTenant[r] = Nightly THEN Fresh("next", run[r].todo \ {t})
                                        ELSE Fresh("error", {})]
  /\ UNCHANGED <<tokenVars, txn, books, excuse, syncFaults>>

EndRun(r) ==
  /\ At(r, "next") /\ run[r].todo = {}
  /\ To(r, "end")
  /\ UNCHANGED <<tokenVars, txn, books, excuse, syncFaults>>

\* The Stripe row, whatever its status, and the 'secretKey' in it.
FindStripe(r) ==
  /\ At(r, "stripe")
  /\ IF connection[run[r].tenant].holds = "secretKey" THEN To(r, "list") ELSE Failed(r)
  /\ UNCHANGED <<tokenVars, txn, books, excuse, syncFaults>>

\* charges.list: the newest PageLimit charges of the last 24 hours.
ListCharges(r) ==
  /\ At(r, "list")
  /\ \/ LET recent == {c \in Charges : charge[c] = "recent" /\ ChargeTenant[c] = run[r].tenant} IN
        \E page \in SUBSET recent :
          /\ Cardinality(page) <= PageLimit
          /\ page # recent => Cardinality(page) = PageLimit
          /\ run' = [run EXCEPT ![r].pc = "token", ![r].list = page, ![r].left = page]
     \/ Failed(r)
  /\ UNCHANGED <<tokenVars, txn, books, excuse, syncFaults>>

-----------------------------------------------------------------------------
\* refreshTokenIfNeeded, by the row read at the start of the run.

EnterLoop(r) == run' = [run EXCEPT ![r].pc = "loop", ![r].seen = NoAccount, ![r].new = 0]

UseStoredToken(r) ==
  /\ At(r, "token") /\ run[r].seen.fresh
  /\ EnterLoop(r)
  /\ UNCHANGED <<tokenVars, txn, books, excuse, syncFaults>>

\* refreshTokens: the provider takes the token and issues its successor.
RefreshTokens(r) ==
  /\ At(r, "token") /\ ~ run[r].seen.fresh
  /\ run[r].seen.token \in accepted
  /\ \E n \in 1..MaxToken :
       /\ Issue(n)
       /\ accepted' = (accepted \ {run[r].seen.token}) \cup {n}
       /\ run' = [run EXCEPT ![r].pc = "save", ![r].new = n]
  /\ UNCHANGED <<connectionVars, account, granted, lost, charge, txn, books, excuse, syncFaults>>

\* The provider refuses the token, or cannot be reached.
RefreshRefused(r) ==
  /\ At(r, "token") /\ ~ run[r].seen.fresh
  /\ Failed(r)
  /\ UNCHANGED <<tokenVars, txn, books, excuse, syncFaults>>

\* The successor does not reach the row: the tenant's run fails, the nightly one goes on.
NeverStored(r) ==
  /\ lost' = lost \cup {run[r].seen.token}
  /\ syncFaults < SyncFaults /\ syncFaults' = syncFaults + 1
  /\ Failed(r)
  /\ UNCHANGED <<connectionVars, account, granted, charge, txn, books, excuse>>

\* The provider takes the token, and its answer is lost or cannot be read.
RefreshAnswerLost(r) ==
  /\ At(r, "token") /\ ~ run[r].seen.fresh
  /\ run[r].seen.token \in accepted
  /\ accepted' = accepted \ {run[r].seen.token}
  /\ NeverStored(r)
  /\ UNCHANGED issued

\* The new pair cannot be encrypted, or the update fails.
SaveTokensFails(r) ==
  /\ At(r, "save")
  /\ NeverStored(r)
  /\ UNCHANGED <<accepted, issued>>

\* Mutated: the pair that was presented is stored again.
SaveTokensOld(r) ==
  LET t == run[r].tenant IN
  /\ At(r, "save")
  /\ IF account[t].id = run[r].seen.id
     THEN account' = [account EXCEPT ![t] = [run[r].seen EXCEPT !.fresh = TRUE]] /\ EnterLoop(r)
     ELSE account' = account /\ Failed(r)
  /\ UNCHANGED <<connectionVars, accepted, issued, granted, lost, charge, txn, books, excuse,
                 syncFaults>>

\* The update of the row by its id, which fails if the row is gone.
SaveTokens(r) ==
  LET t == run[r].tenant IN
  /\ At(r, "save")
  /\ IF account[t].id = run[r].seen.id
     THEN /\ account' = [account EXCEPT ![t] =
                           [id |-> run[r].seen.id, token |-> run[r].new, fresh |-> TRUE]]
          /\ EnterLoop(r)
     ELSE account' = account /\ Failed(r)
  /\ UNCHANGED <<connectionVars, accepted, issued, granted, lost, charge, txn, books, excuse,
                 syncFaults>>

-----------------------------------------------------------------------------
\* The loop over the charges.

\* Runs that have read 'not SYNCED' for c and not yet written its row.
Inside(c) == {r \in Runs : run[r].cur = c}

SkipCharge(r, c) ==
  /\ At(r, "loop") /\ c \in run[r].left
  /\ c \notin Succeeded \/ txn[c].status = "SYNCED"
  /\ run' = [run EXCEPT ![r].left = run[r].left \ {c}]
  /\ UNCHANGED <<tokenVars, txn, books, excuse, syncFaults>>

\* Mutated: the row is not looked at.
ReadTxnBlindly(r, c) ==
  /\ At(r, "loop") /\ c \in run[r].left /\ c \in Succeeded
  /\ excuse' = [excuse EXCEPT ![c] = IF Inside(c) = {} THEN excuse[c] ELSE excuse[c] + 1]
  /\ run' = [run EXCEPT ![r].pc = "create", ![r].left = run[r].left \ {c}, ![r].cur = c]
  /\ UNCHANGED <<tokenVars, txn, books, syncFaults>>

\* syncedTransaction.findUnique, not SYNCED; excuse notes an overlap.
ReadTxn(r, c) ==
  /\ At(r, "loop") /\ c \in run[r].left /\ c \in Succeeded
  /\ txn[c].status # "SYNCED"
  /\ excuse' = [excuse EXCEPT ![c] = IF Inside(c) = {} THEN excuse[c] ELSE excuse[c] + 1]
  /\ run' = [run EXCEPT ![r].pc = "create", ![r].left = run[r].left \ {c}, ![r].cur = c]
  /\ UNCHANGED <<tokenVars, txn, books, syncFaults>>

CreateEntry(r) ==
  LET c == run[r].cur IN
  /\ At(r, "create")
  /\ books' = [books EXCEPT ![c] = books[c] + 1]
  /\ To(r, "mark")
  /\ UNCHANGED <<tokenVars, txn, excuse, syncFaults>>

CreateRefused(r) ==
  /\ At(r, "create")
  /\ To(r, "markFailed")
  /\ UNCHANGED <<tokenVars, txn, books, excuse, syncFaults>>

\* The entry is made and its answer is lost.
CreateAnswerLost(r) ==
  LET c == run[r].cur IN
  /\ At(r, "create")
  /\ books' = [books EXCEPT ![c] = books[c] + 1]
  /\ excuse' = [excuse EXCEPT ![c] = excuse[c] + 1]
  /\ syncFaults < SyncFaults /\ syncFaults' = syncFaults + 1
  /\ To(r, "markFailed")
  /\ UNCHANGED <<tokenVars, txn>>

Leave(r) == run' = [run EXCEPT ![r].pc = "loop", ![r].cur = NoCharge]

MarkSynced(r) ==
  /\ At(r, "mark")
  /\ txn' = [txn EXCEPT ![run[r].cur] = [status |-> "SYNCED", entry |-> TRUE]]
  /\ Leave(r)
  /\ UNCHANGED <<tokenVars, books, excuse, syncFaults>>

\* The upsert of SYNCED is inside the try, so its failure is written as FAILED.
MarkSyncedFails(r) ==
  LET c == run[r].cur IN
  /\ At(r, "mark")
  /\ excuse' = [excuse EXCEPT ![c] = excuse[c] + 1]
  /\ syncFaults < SyncFaults /\ syncFaults' = syncFaults + 1
  /\ To(r, "markFailed")
  /\ UNCHANGED <<tokenVars, txn, books>>

\* The catch: FAILED, whatever the row says by now; an entry id in it stays.
MarkFailed(r) ==
  /\ At(r, "markFailed")
  /\ txn' = [txn EXCEPT ![run[r].cur].status = "FAILED"]
  /\ Leave(r)
  /\ UNCHANGED <<tokenVars, books, excuse, syncFaults>>

\* The upsert in the catch fails and ends the tenant's run.
MarkFailedFails(r) ==
  /\ At(r, "markFailed")
  /\ syncFaults < SyncFaults /\ syncFaults' = syncFaults + 1
  /\ Failed(r)
  /\ UNCHANGED <<tokenVars, txn, books, excuse>>

TenantDone(r) ==
  /\ At(r, "loop") /\ run[r].left = {}
  /\ run' = [run EXCEPT ![r] = Fresh("next", run[r].todo)]
  /\ UNCHANGED <<tokenVars, txn, books, excuse, syncFaults>>

\* The process ends: a new token that was not stored is lost, an entry that
\* was not marked is forgotten.
Dies(r) ==
  /\ run[r].pc \notin {"idle", "end", "error", "died"}
  /\ syncFaults < SyncFaults /\ syncFaults' = syncFaults + 1
  /\ lost' = IF At(r, "save") THEN lost \cup {run[r].seen.token} ELSE lost
  /\ excuse' = IF At(r, "mark") THEN [excuse EXCEPT ![run[r].cur] = excuse[run[r].cur] + 1]
                                ELSE excuse
  /\ run' = [run EXCEPT ![r] = Fresh("died", {})]
  /\ UNCHANGED <<connectionVars, account, accepted, issued, granted, charge, txn, books>>

CreateStep(r) == CreateEntry(r) \/ CreateRefused(r)
RunStep(r) ==
  \/ FindConnection(r) \/ EndRun(r) \/ FindStripe(r) \/ ListCharges(r)
  \/ UseStoredToken(r) \/ RefreshTokens(r) \/ RefreshRefused(r) \/ SaveTokens(r)
  \/ \E c \in Charges : SkipCharge(r, c) \/ ReadTxn(r, c)
  \/ CreateStep(r) \/ MarkSynced(r) \/ MarkFailed(r) \/ TenantDone(r)
RunFault(r) ==
  \/ RefreshAnswerLost(r) \/ SaveTokensFails(r)
  \/ CreateAnswerLost(r) \/ MarkSyncedFails(r) \/ MarkFailedFails(r) \/ Dies(r)

AccountingNext ==
  \/ ConnectionsNext /\ UNCHANGED syncVars
  \/ \E t \in Tenants : ExchangeGrant(t) \/ DisconnectProvider(t) \/ TokenAges(t)
  \/ \E g \in granted : StoreGrant(g) \/ DropGrant(g)
  \/ \E c \in Charges : ChargeStep(c)
  \/ \E r \in Runs : StartRun(r) \/ RunStep(r) \/ RunFault(r)

AccountingSpec == AccountingInit /\ [][AccountingNext]_accountingVars

\* A run that has started goes on: the Node event loop resumes it.
AccountingFairness ==
  \A r \in Runs : WF_accountingVars(RunStep(r))
AccountingFairSpec == AccountingSpec /\ AccountingFairness

-----------------------------------------------------------------------------
(* Properties.                                                             *)

\* A charge has at most one entry in the books, plus one for each named
\* occasion: another run was working on it, an answer or the row of a made
\* entry was lost; and a row that says SYNCED, or holds an entry id, is backed
\* by an entry (syncTransactions, create before upsert).
EntriesAccounted ==
  \A c \in Charges :
    /\ books[c] <= 1 + excuse[c]
    /\ txn[c].status = "SYNCED" => txn[c].entry
    /\ txn[c].entry => books[c] >= 1

\* What the table says of a made entry lasts: its id is never taken away, and
\* SYNCED gives way to FAILED only for a charge that has met such an occasion
\* (the catch of syncTransactions writes without reading the row again).
SyncedIsLasting ==
  [][\A c \in Charges :
       /\ txn[c].entry => txn'[c].entry
       /\ txn[c].status = "SYNCED" /\ txn'[c].status # "SYNCED" => excuse[c] > 0]_accountingVars

\* The refresh token stored for a tenant is one the provider accepts, unless
\* the run that has spent that very token is about to store its successor, or
\* the successor was lost on the way: its answer, its encryption, its update or
\* the process failed (refreshTokenIfNeeded; overlapping runs, a reconnect or a
\* disconnect between the refresh and the update cost no token).
StoredTokenAccepted ==
  \A t \in Tenants : account[t].id # 0 =>
    \/ account[t].token \in accepted
    \/ account[t].token \in lost
    \/ \E r \in Runs : /\ At(r, "save") /\ run[r].tenant = t
                       /\ run[r].seen.id = account[t].id
                       /\ run[r].seen.token = account[t].token

\* A nightly run comes to every tenant it set out with, whatever the tenants
\* before it met, except a tenant that disconnects first, or when the process
\* ends (the try and catch inside the loop of runNightlySync).
NightlyTakesAll ==
  \A r \in Runs, t \in Tenants :
    RunTenant[r] = Nightly /\ t \in run[r].todo
      ~> run[r].tenant = t \/ account[t].id = 0 \/ At(r, "died")

-----------------------------------------------------------------------------
(* What the inductive invariant of AccountingSyncProofs adds.              *)

Working == {"create", "mark", "markFailed"}
Creating(c) == {r \in Runs : run[r].pc = "create" /\ run[r].cur = c}
SomeAt(pc, c) == \E r \in Runs : run[r].pc = pc /\ run[r].cur = c

\* Every entry a charge may yet get is accounted for; a run that is about to
\* write FAILED has an occasion to its name; and once the first entry is made,
\* the row says SYNCED or somebody is about to write that.
BooksAt(c) ==
  LET k == Cardinality(Creating(c)) IN
  /\ books[c] + k <= excuse[c] + 1
  /\ SomeAt("markFailed", c) => books[c] + k <= excuse[c]
  /\ k = 0 /\ books[c] = excuse[c] + 1 => txn[c].status = "SYNCED" \/ SomeAt("mark", c)
  /\ SomeAt("mark", c) => books[c] >= 1
  /\ txn[c].status = "SYNCED" => txn[c].entry
  /\ txn[c].entry => books[c] >= 1
BooksInv == \A c \in Charges : BooksAt(c)

\* The row of an accounting connection, or what a run has read of it.
Known(a) == IF a.id = 0 THEN a.token = 0 ELSE a.token \in 1..issued

RunOK(r) ==
  /\ run[r].cur # NoCharge <=> run[r].pc \in Working
  /\ Known(run[r].seen)
  /\ run[r].seen.id # 0 => run[r].tenant \in Tenants
  /\ run[r].pc \in {"stripe", "list", "token", "save"} => run[r].seen.id # 0
  /\ run[r].new # 0 <=> run[r].pc = "save"

\* n is a token the provider accepts and that nothing stored or read holds.
Unused(n) ==
  /\ n \in accepted
  /\ \A t \in Tenants : account[t].token # n
  /\ \A r \in Runs : run[r].seen.token # n

TokenInv ==
  /\ accepted \subseteq 1..issued
  /\ \A t \in Tenants : Known(account[t])
  /\ \A g \in granted : Unused(g.token) /\ \A r \in Runs : run[r].new # g.token
  /\ \A g, h \in granted : g.token = h.token => g = h
  /\ \A r \in Runs : run[r].new # 0 => Unused(run[r].new)
  /\ \A q, r \in Runs : run[r].new # 0 /\ run[q].new = run[r].new => q = r
  /\ \A r \in Runs, t \in Tenants :
       run[r].seen.token # 0 /\ account[t].token = run[r].seen.token
         => t = run[r].tenant /\ account[t].id = run[r].seen.id
  /\ \A t, u \in Tenants : account[t].token # 0 /\ account[u].token = account[t].token => t = u

AccountingInv ==
  /\ AccountingTypeOK /\ (\A r \in Runs : RunOK(r))
  /\ BooksInv /\ TokenInv /\ StoredTokenAccepted /\ GrantStored
=============================================================================
