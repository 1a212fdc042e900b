------------------------- MODULE AccountingSyncProofs -------------------------
(***************************************************************************)
(* Accounting sync, for every number of tenants, runs and charges.         *)
(***************************************************************************)
EXTENDS AccountingSync, FiniteSetTheorems, TLAPS

-----------------------------------------------------------------------------
\* Connections.

LEMMA ConnectionsInitInv == ConnectionsInit => ConnectionsTypeOK /\ GrantStored
  BY ConnectionsAssumption
  DEF ConnectionsInit, ConnectionsTypeOK, GrantStored, Connection, FlowPc, DisconnectPc

LEMMA FlowToInv ==
  ASSUME ConnectionsTypeOK, NEW o \in Flows, NEW pc \in FlowPc, NEW live \in BOOLEAN,
         flow' = [flow EXCEPT ![o] = [pc |-> pc, live |-> live]]
  PROVE flow' \in [Flows -> [pc : FlowPc, live : BOOLEAN]]
  BY DEF ConnectionsTypeOK

LEMMA FlowAtInv ==
  ASSUME ConnectionsTypeOK, NEW o \in Flows, NEW from, NEW to \in FlowPc, FlowAt(o, from, to)
  PROVE /\ flow' \in [Flows -> [pc : FlowPc, live : BOOLEAN]]
        /\ flow'[o].pc = to /\ \A u \in Flows \ {o} : flow'[u] = flow[u]
  <1>1. flow[o] \in [pc : FlowPc, live : BOOLEAN]
    BY DEF ConnectionsTypeOK
  <1>2. [flow[o] EXCEPT !.pc = to] \in [pc : FlowPc, live : BOOLEAN]
    BY <1>1
  <1> QED
    BY <1>1, <1>2 DEF FlowAt, ConnectionsTypeOK

\* A step of a flow that writes no row and enters no state after the store.
LEMMA QuietFlowInv ==
  ASSUME ConnectionsTypeOK, GrantStored, NEW o \in Flows,
         UNCHANGED <<connection, disconnect>>, auditLog' \subseteq Flows \cup Disconnects,
         flow' \in [Flows -> [pc : FlowPc, live : BOOLEAN]],
         \A u \in Flows \ {o} : flow'[u] = flow[u],
         flow'[o].pc \in {"audit", "connected"} => flow[o].pc \in {"audit", "connected"}
  PROVE (ConnectionsTypeOK /\ GrantStored)'
  BY DEF ConnectionsTypeOK, GrantStored, HasGrant

LEMMA FlowStepInv ==
  ASSUME ConnectionsTypeOK, GrantStored, NEW o \in Flows,
         StripeOauthInit(o) \/ StateExpires(o) \/ FlowStep(o)
  PROVE (ConnectionsTypeOK /\ GrantStored)'
  <1>0. flow[o] \in [pc : FlowPc, live : BOOLEAN] /\ auditLog \subseteq Flows \cup Disconnects
    BY DEF ConnectionsTypeOK
  <1>1. CASE StripeOauthInit(o)
    <2>1. flow' \in [Flows -> [pc : FlowPc, live : BOOLEAN]]
      BY <1>1, FlowToInv DEF StripeOauthInit, FlowPc
    <2> QED
      BY <1>0, <1>1, <2>1, QuietFlowInv DEF StripeOauthInit, ConnectionsTypeOK
  <1>2. CASE StateExpires(o)
    <2>1. [flow[o] EXCEPT !.live = FALSE] \in [pc : FlowPc, live : BOOLEAN]
      BY <1>0
    <2>2. /\ flow' \in [Flows -> [pc : FlowPc, live : BOOLEAN]]
          /\ \A u \in Flows \ {o} : flow'[u] = flow[u]
          /\ flow'[o].pc = flow[o].pc
      BY <1>2, <2>1 DEF StateExpires, ConnectionsTypeOK
    <2> QED
      BY <1>0, <1>2, <2>2, QuietFlowInv DEF StateExpires
  <1>3. CASE StripeOauthCallback(o) \/ ExchangeCode(o)
    <2>1. PICK to \in {"denied", "exchange", "failed", "store"}, from \in FlowPc :
            FlowAt(o, from, to)
      BY <1>3 DEF StripeOauthCallback, ExchangeCode, FlowPc
    <2>2. UNCHANGED <<connection, disconnect, auditLog>>
      BY <1>3 DEF StripeOauthCallback, ExchangeCode
    <2>3. /\ flow' \in [Flows -> [pc : FlowPc, live : BOOLEAN]]
          /\ flow'[o].pc = to /\ \A u \in Flows \ {o} : flow'[u] = flow[u]
      BY <2>1, FlowAtInv DEF FlowPc
    <2> QED
      BY <1>0, <2>1, <2>2, <2>3, QuietFlowInv
  <1>4. CASE AuditCreated(o)
    <2>1. PICK to \in {"connected", "failed"} : FlowAt(o, "audit", to)
      BY <1>4 DEF AuditCreated
    <2>2. /\ UNCHANGED <<connection, disconnect>> /\ flow[o].pc = "audit"
          /\ auditLog' \subseteq Flows \cup Disconnects
      BY <1>0, <1>4, <2>1 DEF AuditCreated, FlowAt
    <2>3. /\ flow' \in [Flows -> [pc : FlowPc, live : BOOLEAN]]
          /\ flow'[o].pc = to /\ \A u \in Flows \ {o} : flow'[u] = flow[u]
      BY <2>1, FlowAtInv DEF FlowPc
    <2> QED
      BY <2>1, <2>2, <2>3, QuietFlowInv
  <1>5. CASE CreateConnection(o)
    <2> DEFINE t == ActorTenant[o]
               row == [status |-> "ACTIVE", holds |-> "accessToken", by |-> o]
    <2>1. t \in Tenants /\ row \in Connection /\ \A u \in Flows : ActorTenant[u] \in Tenants
      BY ConnectionsAssumption DEF Connection, KeyFields
    <2>2. /\ flow' \in [Flows -> [pc : FlowPc, live : BOOLEAN]]
          /\ \A u \in Flows \ {o} : flow'[u] = flow[u]
      BY <1>5, FlowAtInv DEF FlowPc, CreateConnection
    <2>3. connection' = [connection EXCEPT ![t] = row] /\ UNCHANGED <<disconnect, auditLog>>
      BY <1>5 DEF CreateConnection
    <2>4. connection' \in [Tenants -> Connection]
      BY <2>1, <2>3 DEF ConnectionsTypeOK
    <2>5. ConnectionsTypeOK'
      BY <2>2, <2>3, <2>4 DEF ConnectionsTypeOK
    <2>6. GrantStored'
      BY <2>1, <2>2, <2>3 DEF GrantStored, HasGrant, ConnectionsTypeOK
    <2> QED
      BY <2>5, <2>6
  <1> QED
    BY <1>1, <1>2, <1>3, <1>4, <1>5 DEF FlowStep

LEMMA DisconnectStepInv ==
  ASSUME ConnectionsTypeOK, GrantStored, NEW d \in Disconnects, DisconnectStep(d)
  PROVE (ConnectionsTypeOK /\ GrantStored)'
  <1>1. disconnect' \in [Disconnects -> DisconnectPc] /\ UNCHANGED flow
    BY DEF DisconnectStep, FindConnected, MarkDisconnected, AuditDisconnected, DisconnectPc,
           ConnectionsTypeOK
  <1>2. auditLog' \subseteq Flows \cup Disconnects
    BY DEF DisconnectStep, FindConnected, MarkDisconnected, AuditDisconnected, ConnectionsTypeOK
  <1>3. CASE UNCHANGED connection
    BY <1>1, <1>2, <1>3 DEF ConnectionsTypeOK, GrantStored, HasGrant
  <1>4. CASE MarkDisconnected(d)
    <2> DEFINE t == ActorTenant[d]
               row == [connection[t] EXCEPT !.status = "DISCONNECTED", !.by = d]
    <2>1. t \in Tenants /\ \A u \in Flows : ActorTenant[u] \in Tenants
      BY ConnectionsAssumption
    <2>2. connection[t] \in Connection /\ connection \in [Tenants -> Connection]
      BY <2>1 DEF ConnectionsTypeOK
    <2>3. row \in Connection /\ row.holds = connection[t].holds /\ row.by = d
      BY <2>2 DEF Connection
    <2>4. connection' = [connection EXCEPT ![t] = row]
      BY <1>4, <2>2 DEF MarkDisconnected, Connection
    <2> HIDE DEF row
    <2>5. connection' \in [Tenants -> Connection]
      BY <2>2, <2>3, <2>4
    <2>6. GrantStored'
      BY <1>1, <2>1, <2>2, <2>3, <2>4 DEF GrantStored, HasGrant
    <2> QED
      BY <1>1, <1>2, <2>5, <2>6 DEF ConnectionsTypeOK
  <1> QED
    BY <1>3, <1>4 DEF DisconnectStep, FindConnected, AuditDisconnected

LEMMA ConnectionsNextInv ==
  ASSUME ConnectionsTypeOK, GrantStored, ConnectionsNext
  PROVE (ConnectionsTypeOK /\ GrantStored)'
  BY FlowStepInv, DisconnectStepInv DEF ConnectionsNext

-----------------------------------------------------------------------------
\* What each kind of step makes of its run: Becomes(r, v) and what is in v.

Becomes(r, v) == v \in Run /\ run' = [run EXCEPT ![r] = v]

LEMMA FreshInRun ==
  ASSUME NEW pc \in RunPc, NEW todo \in SUBSET Tenants
  PROVE /\ Fresh(pc, todo) \in Run /\ Fresh(pc, todo).pc = pc
        /\ Fresh(pc, todo).seen = NoAccount /\ Fresh(pc, todo).new = 0
        /\ Fresh(pc, todo).cur = NoCharge
  BY DEF Fresh, Run, NoAccount, Account

LEMMA RunFields ==
  ASSUME AccountingTypeOK, NEW r \in Runs
  PROVE /\ run[r] \in Run /\ run[r].pc \in RunPc /\ run[r].todo \in SUBSET Tenants
        /\ run[r].tenant \in Tenants \cup {Nightly} /\ run[r].seen \in Account
        /\ run[r].new \in Nat /\ run[r].cur \in Charges \cup {NoCharge}
  BY DEF AccountingTypeOK, Run

LEMMA ToBecomes ==
  ASSUME AccountingTypeOK, NEW r \in Runs, NEW pc \in RunPc, To(r, pc)
  PROVE \E v \in Run : /\ Becomes(r, v) /\ v.pc = pc
                       /\ v.tenant = run[r].tenant /\ v.seen = run[r].seen
                       /\ v.new = run[r].new /\ v.cur = run[r].cur
  <1> DEFINE v == [run[r] EXCEPT !.pc = pc]
  <1>1. v \in Run /\ v.pc = pc /\ v.tenant = run[r].tenant /\ v.seen = run[r].seen
        /\ v.new = run[r].new /\ v.cur = run[r].cur
    BY RunFields DEF Run
  <1>2. run' = [run EXCEPT ![r] = v]
    BY DEF To
  <1> HIDE DEF v
  <1> QED
    BY <1>1, <1>2 DEF Becomes

LEMMA FailedBecomes ==
  ASSUME AccountingTypeOK, NEW r \in Runs, Failed(r)
  PROVE \E v \in Run : /\ Becomes(r, v) /\ v.pc \in {"next", "error"}
                       /\ v.seen = NoAccount /\ v.new = 0 /\ v.cur = NoCharge
  <1>1. \A todo \in SUBSET Tenants : \A pc \in {"next", "error"} :
          /\ Fresh(pc, todo) \in Run /\ Fresh(pc, todo).pc = pc
          /\ Fresh(pc, todo).seen = NoAccount /\ Fresh(pc, todo).new = 0
          /\ Fresh(pc, todo).cur = NoCharge
    BY FreshInRun DEF RunPc
  <1>2. run[r].todo \in SUBSET Tenants /\ {} \in SUBSET Tenants
    BY RunFields
  <1> DEFINE v == IF RunTenant[r] = Nightly THEN Fresh("next", run[r].todo)
                                            ELSE Fresh("error", {})
  <1>3. v \in Run /\ v.pc \in {"next", "error"} /\ v.seen = NoAccount /\ v.new = 0
        /\ v.cur = NoCharge
    BY <1>1, <1>2
  <1>4. run' = [run EXCEPT ![r] = v]
    BY DEF Failed
  <1> HIDE DEF v
  <1> QED
    BY <1>3, <1>4 DEF Becomes

LEMMA StartRunBecomes ==
  ASSUME AccountingTypeOK, NEW r \in Runs, StartRun(r)
  PROVE \E v \in Run : /\ Becomes(r, v) /\ v.pc = "next"
                       /\ v.tenant = run[r].tenant /\ v.seen = run[r].seen
                       /\ v.new = run[r].new /\ v.cur = run[r].cur
  <1> DEFINE todo == IF RunTenant[r] = Nightly THEN {t \in Tenants : account[t].id # 0}
                                               ELSE {RunTenant[r]}
             v == [run[r] EXCEPT !.pc = "next", !.todo = todo]
  <1>1. todo \in SUBSET Tenants
    BY AccountingAssumption
  <1>2. run' = [run EXCEPT ![r] = v]
    BY DEF StartRun
  <1> HIDE DEF todo
  <1>3. v \in Run /\ v.pc = "next" /\ v.tenant = run[r].tenant /\ v.seen = run[r].seen
        /\ v.new = run[r].new /\ v.cur = run[r].cur
    BY <1>1, RunFields DEF Run, RunPc
  <1> HIDE DEF v
  <1> QED
    BY <1>2, <1>3 DEF Becomes

LEMMA FindConnectionBecomes ==
  ASSUME AccountingTypeOK, NEW r \in Runs, FindConnection(r)
  PROVE \E v \in Run :
          /\ Becomes(r, v)
          /\ \/ /\ v.pc = "stripe" /\ v.tenant \in Tenants
                /\ v.seen = account[v.tenant] /\ v.seen.id # 0
                /\ v.new = run[r].new /\ v.cur = run[r].cur
             \/ /\ v.pc \in {"next", "error"} /\ v.seen = NoAccount
                /\ v.new = 0 /\ v.cur = NoCharge
  <1>1. PICK t \in run[r].todo :
          IF account[t].id # 0
          THEN run' = [run EXCEPT ![r].pc = "stripe", ![r].todo = run[r].todo \ {t},
                                  ![r].tenant = t, ![r].seen = account[t]]
          ELSE run' = [run EXCEPT ![r] =
                 IF RunTenant[r] = Nightly THEN Fresh("next", run[r].todo \ {t})
                                           ELSE Fresh("error", {})]
    BY DEF FindConnection
  <1>2. t \in Tenants /\ run[r].todo \ {t} \in SUBSET Tenants /\ {} \in SUBSET Tenants
    BY <1>1, RunFields
  <1>3. CASE account[t].id # 0
    <2> DEFINE todo == run[r].todo \ {t}
               v == [run[r] EXCEPT !.pc = "stripe", !.todo = todo, !.tenant = t,
                                   !.seen = account[t]]
    <2>1. run' = [run EXCEPT ![r] = v]
      BY <1>1, <1>3
    <2>2. account[t] \in Account /\ todo \in SUBSET Tenants
      BY <1>2 DEF AccountingTypeOK
    <2> HIDE DEF todo
    <2>3. v \in Run /\ v.pc = "stripe" /\ v.tenant = t /\ v.seen = account[t]
          /\ v.new = run[r].new /\ v.cur = run[r].cur
      BY <1>2, <2>2, RunFields DEF Run, RunPc
    <2> HIDE DEF v
    <2> QED
      BY <1>2, <1>3, <2>1, <2>3 DEF Becomes
  <1>4. CASE account[t].id = 0
    <2> DEFINE v == IF RunTenant[r] = Nightly THEN Fresh("next", run[r].todo \ {t})
                                              ELSE Fresh("error", {})
    <2>1. v \in Run /\ v.pc \in {"next", "error"} /\ v.seen = NoAccount /\ v.new = 0
          /\ v.cur = NoCharge
      BY <1>2, FreshInRun DEF RunPc
    <2>2. run' = [run EXCEPT ![r] = v]
      BY <1>1, <1>4
    <2> HIDE DEF v
    <2> QED
      BY <2>1, <2>2 DEF Becomes
  <1> QED
    BY <1>3, <1>4

LEMMA ListChargesBecomes ==
  ASSUME AccountingTypeOK, NEW r \in Runs, ListCharges(r)
  PROVE \E v \in Run :
          /\ Becomes(r, v)
          /\ \/ /\ v.pc = "token" /\ v.tenant = run[r].tenant /\ v.seen = run[r].seen
                /\ v.new = run[r].new /\ v.cur = run[r].cur
             \/ /\ v.pc \in {"next", "error"} /\ v.seen = NoAccount
                /\ v.new = 0 /\ v.cur = NoCharge
  <1>1. CASE Failed(r)
    BY <1>1, FailedBecomes
  <1>2. CASE ~ Failed(r)
    <2>1. PICK page \in SUBSET Charges :
            run' = [run EXCEPT ![r].pc = "token", ![r].list = page, ![r].left = page]
      BY <1>2 DEF ListCharges
    <2> DEFINE v == [run[r] EXCEPT !.pc = "token", !.list = page, !.left = page]
    <2>2. v \in Run /\ v.pc = "token" /\ v.tenant = run[r].tenant /\ v.seen = run[r].seen
          /\ v.new = run[r].new /\ v.cur = run[r].cur
      BY RunFields DEF Run, RunPc
    <2>3. run' = [run EXCEPT ![r] = v]
      BY <2>1
    <2> HIDE DEF v
    <2> QED
      BY <2>2, <2>3 DEF Becomes
  <1> QED
    BY <1>1, <1>2

LEMMA EnterLoopBecomes ==
  ASSUME AccountingTypeOK, NEW r \in Runs, EnterLoop(r)
  PROVE \E v \in Run : /\ Becomes(r, v) /\ v.pc = "loop" /\ v.tenant = run[r].tenant
                       /\ v.seen = NoAccount /\ v.new = 0 /\ v.cur = run[r].cur
  <1> DEFINE v == [run[r] EXCEPT !.pc = "loop", !.seen = NoAccount, !.new = 0]
  <1>1. NoAccount \in Account
    BY DEF NoAccount, Account
  <1>2. v \in Run /\ v.pc = "loop" /\ v.tenant = run[r].tenant /\ v.seen = NoAccount
        /\ v.new = 0 /\ v.cur = run[r].cur
    BY <1>1, RunFields DEF Run, RunPc
  <1>3. run' = [run EXCEPT ![r] = v]
    BY DEF EnterLoop
  <1> HIDE DEF v
  <1> QED
    BY <1>2, <1>3 DEF Becomes

LEMMA TakeChargeBecomes ==
  ASSUME AccountingTypeOK, NEW r \in Runs, NEW c \in Charges, ReadTxn(r, c) \/ SkipCharge(r, c)
  PROVE \E v \in Run : /\ Becomes(r, v) /\ v.tenant = run[r].tenant
                       /\ v.seen = run[r].seen /\ v.new = run[r].new
                       /\ ReadTxn(r, c) => v.pc = "create" /\ v.cur = c
                       /\ ~ ReadTxn(r, c) => v.pc = run[r].pc /\ v.cur = run[r].cur
  <1> DEFINE left == run[r].left \ {c}
  <1>1. left \in SUBSET Charges
    BY RunFields DEF Run
  <1>2. CASE ReadTxn(r, c)
    <2> DEFINE v == [run[r] EXCEPT !.pc = "create", !.left = left, !.cur = c]
    <2>1. run' = [run EXCEPT ![r] = v]
      BY <1>2 DEF ReadTxn
    <2> HIDE DEF left
    <2>2. v \in Run /\ v.pc = "create" /\ v.cur = c /\ v.tenant = run[r].tenant
          /\ v.seen = run[r].seen /\ v.new = run[r].new
      BY <1>1, RunFields DEF Run, RunPc
    <2> HIDE DEF v
    <2> QED
      BY <1>2, <2>1, <2>2 DEF Becomes
  <1>3. CASE ~ ReadTxn(r, c)
    <2> DEFINE v == [run[r] EXCEPT !.left = left]
    <2>1. run' = [run EXCEPT ![r] = v]
      BY <1>3 DEF SkipCharge
    <2> HIDE DEF left
    <2>2. v \in Run /\ v.pc = run[r].pc /\ v.cur = run[r].cur /\ v.tenant = run[r].tenant
          /\ v.seen = run[r].seen /\ v.new = run[r].new
      BY <1>1, RunFields DEF Run
    <2> HIDE DEF v
    <2> QED
      BY <1>3, <2>1, <2>2 DEF Becomes
  <1> QED
    BY <1>2, <1>3

LEMMA LeaveBecomes ==
  ASSUME AccountingTypeOK, NEW r \in Runs, Leave(r)
  PROVE \E v \in Run : /\ Becomes(r, v) /\ v.pc = "loop" /\ v.tenant = run[r].tenant
                       /\ v.seen = run[r].seen /\ v.new = run[r].new /\ v.cur = NoCharge
  <1> DEFINE v == [run[r] EXCEPT !.pc = "loop", !.cur = NoCharge]
  <1>1. v \in Run /\ v.pc = "loop" /\ v.tenant = run[r].tenant /\ v.seen = run[r].seen
        /\ v.new = run[r].new /\ v.cur = NoCharge
    BY RunFields DEF Run, RunPc
  <1>2. run' = [run EXCEPT ![r] = v]
    BY DEF Leave
  <1> HIDE DEF v
  <1> QED
    BY <1>1, <1>2 DEF Becomes

-----------------------------------------------------------------------------
\* The books: a step of one run changes them for its charge only.

LEMMA Counting ==
  ASSUME AccountingTypeOK, NEW r \in Runs, NEW v \in Run, Becomes(r, v), NEW c \in Charges
  PROVE LET k == Cardinality(Creating(c))
            was == run[r].pc = "create" /\ run[r].cur = c
            is == v.pc = "create" /\ v.cur = c
        IN  /\ k \in Nat /\ k' \in Nat
            /\ (was <=> is) => k' = k
            /\ was /\ ~ is => k' = k - 1
            /\ ~ was /\ is => k' = k + 1
  <1>1. IsFiniteSet(Creating(c)) /\ Cardinality(Creating(c)) \in Nat
    <2>1. Creating(c) \subseteq Runs
      BY DEF Creating
    <2> QED
      BY <2>1, AccountingAssumption, FS_Subset, FS_CardinalityType
  <1>2. run'[r] = v /\ \A q \in Runs \ {r} : run'[q] = run[q]
    BY DEF Becomes, AccountingTypeOK
  <1>3. CASE run[r].pc = "create" /\ run[r].cur = c /\ ~ (v.pc = "create" /\ v.cur = c)
    <2>1. Creating(c)' = Creating(c) \ {r} /\ r \in Creating(c)
      BY <1>2, <1>3 DEF Creating
    <2> QED
      BY <1>1, <1>3, <2>1, FS_RemoveElement, FS_CardinalityType
  <1>4. CASE ~ (run[r].pc = "create" /\ run[r].cur = c) /\ v.pc = "create" /\ v.cur = c
    <2>1. Creating(c)' = Creating(c) \cup {r} /\ r \notin Creating(c)
      BY <1>2, <1>4 DEF Creating
    <2> QED
      BY <1>1, <1>4, <2>1, FS_AddElement
  <1>5. CASE (run[r].pc = "create" /\ run[r].cur = c) <=> (v.pc = "create" /\ v.cur = c)
    <2>1. Creating(c)' = Creating(c)
      BY <1>2, <1>5 DEF Creating
    <2> QED
      BY <1>1, <1>5, <2>1
  <1> QED
    BY <1>3, <1>4, <1>5

LEMMA SomeAtStep ==
  ASSUME AccountingTypeOK, NEW r \in Runs, NEW v \in Run, Becomes(r, v), NEW c \in Charges,
         NEW pc
  PROVE /\ SomeAt(pc, c)' => SomeAt(pc, c) \/ (v.pc = pc /\ v.cur = c)
        /\ SomeAt(pc, c) => SomeAt(pc, c)' \/ (run[r].pc = pc /\ run[r].cur = c)
        /\ v.pc = pc /\ v.cur = c => SomeAt(pc, c)'
        /\ run[r].pc = pc /\ run[r].cur = c => SomeAt(pc, c)
  <1>1. run'[r] = v /\ \A q \in Runs \ {r} : run'[q] = run[q]
    BY DEF Becomes, AccountingTypeOK
  <1> QED
    BY <1>1 DEF SomeAt

LEMMA BooksElsewhere ==
  ASSUME AccountingTypeOK, NEW r \in Runs, NEW v \in Run, Becomes(r, v), NEW c \in Charges,
         \/ run[r].cur # c /\ v.cur # c
         \/ run[r].cur = v.cur /\ run[r].pc = v.pc
         \/ {run[r].pc, v.pc} \cap Working = {},
         books'[c] = books[c], excuse'[c] = excuse[c], txn'[c] = txn[c],
         BooksAt(c)
  PROVE BooksAt(c)'
  <1>1. Cardinality(Creating(c))' = Cardinality(Creating(c))
    BY Counting DEF Working
  <1>0. \A pc \in Working : run[r].pc = pc /\ run[r].cur = c <=> v.pc = pc /\ v.cur = c
    BY DEF Working
  <1>2. SomeAt("mark", c)' <=> SomeAt("mark", c)
    <2>1. run[r].pc = "mark" /\ run[r].cur = c <=> v.pc = "mark" /\ v.cur = c
      BY <1>0 DEF Working
    <2> QED
      BY <2>1, SomeAtStep
  <1>3. SomeAt("markFailed", c)' <=> SomeAt("markFailed", c)
    <2>1. run[r].pc = "markFailed" /\ run[r].cur = c <=> v.pc = "markFailed" /\ v.cur = c
      BY <1>0 DEF Working
    <2> QED
      BY <2>1, SomeAtStep
  <1> QED
    BY <1>1, <1>2, <1>3 DEF BooksAt

\* A step that is not about entries: the run has no charge, or keeps it.
LEMMA QuietBooks ==
  ASSUME AccountingTypeOK, BooksInv, NEW r \in Runs, NEW v \in Run, Becomes(r, v),
         UNCHANGED <<txn, books, excuse>>,
         \/ run[r].cur = v.cur /\ run[r].pc = v.pc
         \/ {run[r].pc, v.pc} \cap Working = {}
  PROVE BooksInv'
  <1> SUFFICES ASSUME NEW c \in Charges PROVE BooksAt(c)'
    BY DEF BooksInv
  <1> QED
    BY BooksElsewhere DEF BooksInv

\* A step about an entry for c keeps the books if it does so for c.
LEMMA ChargeBooks ==
  ASSUME AccountingTypeOK, BooksInv, NEW r \in Runs, NEW v \in Run, Becomes(r, v),
         NEW c \in Charges, run[r].cur \in {c, NoCharge}, v.cur \in {c, NoCharge},
         \A b \in Charges \ {c} : books'[b] = books[b] /\ excuse'[b] = excuse[b]
                                  /\ txn'[b] = txn[b],
         BooksAt(c)'
  PROVE BooksInv'
  <1> SUFFICES ASSUME NEW b \in Charges \ {c} PROVE BooksAt(b)'
    BY DEF BooksInv
  <1>1. b # NoCharge /\ BooksAt(b)
    BY AccountingAssumption DEF BooksInv
  <1> QED
    BY <1>1, BooksElsewhere

LEMMA ReadTxnBooks ==
  ASSUME AccountingTypeOK, BooksInv, NEW r \in Runs, RunOK(r), NEW c \in Charges, ReadTxn(r, c)
  PROVE BooksInv'
  <1>1. PICK v \in Run : Becomes(r, v) /\ v.pc = "create" /\ v.cur = c
    BY TakeChargeBecomes
  <1>2. run[r].cur = NoCharge /\ c # NoCharge /\ UNCHANGED <<txn, books>>
    BY AccountingAssumption DEF RunOK, ReadTxn, At, Working
  <1>3. /\ excuse'[c] = (IF Inside(c) = {} THEN excuse[c] ELSE excuse[c] + 1)
        /\ \A b \in Charges \ {c} : excuse'[b] = excuse[b]
    BY DEF ReadTxn, AccountingTypeOK
  <1>4. books[c] \in Nat /\ excuse[c] \in Nat /\ txn[c].status # "SYNCED" /\ BooksAt(c)
    BY DEF ReadTxn, AccountingTypeOK, BooksInv
  <1> DEFINE k == Cardinality(Creating(c))
  <1>5. k \in Nat /\ k' = k + 1
    BY <1>1, <1>2, Counting
  <1>6. /\ SomeAt("mark", c)' <=> SomeAt("mark", c)
        /\ SomeAt("markFailed", c)' <=> SomeAt("markFailed", c)
    BY <1>1, <1>2, SomeAtStep
  <1>7. BooksAt(c)'
    <2>1. CASE Inside(c) = {}
      <3>1. Creating(c) = {} /\ ~ SomeAt("mark", c) /\ ~ SomeAt("markFailed", c)
        BY <2>1 DEF Inside, Creating, SomeAt
      <3>2. k = 0
        BY <3>1, FS_EmptySet
      <3>3. books[c] <= excuse[c] /\ excuse'[c] = excuse[c]
        BY <1>3, <1>4, <2>1, <3>1, <3>2 DEF BooksAt
      <3> QED
        BY <1>2, <1>4, <1>5, <1>6, <3>1, <3>2, <3>3 DEF BooksAt
    <2>2. CASE Inside(c) # {}
      <3>1. excuse'[c] = excuse[c] + 1
        BY <1>3, <2>2
      <3> QED
        BY <1>2, <1>4, <1>5, <1>6, <3>1 DEF BooksAt
    <2> QED
      BY <2>1, <2>2
  <1> QED
    BY <1>1, <1>2, <1>3, <1>7, ChargeBooks

\* The steps of a run at 'create', 'mark' or 'markFailed'.
LEMMA CreateBooks ==
  ASSUME AccountingTypeOK, BooksInv, NEW r \in Runs, RunOK(r), NEW c \in Charges, run[r].cur = c,
         CreateEntry(r) \/ CreateRefused(r) \/ CreateAnswerLost(r)
  PROVE BooksInv'
  <1> DEFINE k == Cardinality(Creating(c))
  <1>1. run[r].pc = "create" /\ c # NoCharge
    BY RunFields, AccountingAssumption DEF RunOK, CreateEntry, CreateRefused, CreateAnswerLost,
       At, Working
  <1>2. PICK v \in Run : /\ Becomes(r, v) /\ v.cur = c
                         /\ v.pc = IF CreateEntry(r) THEN "mark" ELSE "markFailed"
    BY ToBecomes DEF CreateEntry, CreateRefused, CreateAnswerLost, RunPc
  <1>3. books[c] \in Nat /\ excuse[c] \in Nat /\ BooksAt(c) /\ txn' = txn
    BY <1>1 DEF AccountingTypeOK, BooksInv, CreateEntry, CreateRefused, CreateAnswerLost
  <1>4. \A b \in Charges \ {c} : books'[b] = books[b] /\ excuse'[b] = excuse[b]
    BY <1>1 DEF AccountingTypeOK, CreateEntry, CreateRefused, CreateAnswerLost
  <1>5. k \in Nat /\ k' = k - 1
    BY <1>1, <1>2, Counting
  <1>6. k >= 1
    <2>1. k' \in Nat
      BY <1>1, <1>2, Counting
    <2> QED
      BY <1>5, <2>1
  <1>7. /\ SomeAt("mark", c)' <=> SomeAt("mark", c) \/ v.pc = "mark"
        /\ SomeAt("markFailed", c)' <=> SomeAt("markFailed", c) \/ v.pc = "markFailed"
    BY <1>1, <1>2, SomeAtStep
  <1>8. BooksAt(c)'
    <2>1. CASE CreateEntry(r)
      <3>1. books'[c] = books[c] + 1 /\ excuse'[c] = excuse[c]
        BY <1>1, <2>1 DEF CreateEntry, AccountingTypeOK
      <3> QED
        BY <1>2, <1>3, <1>5, <1>6, <1>7, <2>1, <3>1 DEF BooksAt
    <2>2. CASE ~ CreateEntry(r) /\ CreateRefused(r)
      <3>1. books'[c] = books[c] /\ excuse'[c] = excuse[c]
        BY <2>2 DEF CreateRefused
      <3> QED
        BY <1>2, <1>3, <1>5, <1>6, <1>7, <2>2, <3>1 DEF BooksAt
    <2>3. CASE ~ CreateEntry(r) /\ CreateAnswerLost(r)
      <3>1. books'[c] = books[c] + 1 /\ excuse'[c] = excuse[c] + 1
        BY <1>1, <2>3 DEF CreateAnswerLost, AccountingTypeOK
      <3> QED
        BY <1>2, <1>3, <1>5, <1>6, <1>7, <2>3, <3>1 DEF BooksAt
    <2> QED
      BY <2>1, <2>2, <2>3
  <1> QED
    BY <1>1, <1>2, <1>3, <1>4, <1>8, ChargeBooks

LEMMA MarkBooks ==
  ASSUME AccountingTypeOK, BooksInv, NEW r \in Runs, RunOK(r), NEW c \in Charges, run[r].cur = c,
         MarkSynced(r) \/ MarkSyncedFails(r)
  PROVE BooksInv'
  <1> DEFINE k == Cardinality(Creating(c))
  <1>1. run[r].pc = "mark" /\ c # NoCharge
    BY RunFields, AccountingAssumption DEF RunOK, MarkSynced, MarkSyncedFails, At, Working
  <1>2. PICK v \in Run : /\ Becomes(r, v) /\ v.cur \in {c, NoCharge}
                         /\ MarkSynced(r) => v.pc = "loop"
                         /\ ~ MarkSynced(r) => v.pc = "markFailed" /\ v.cur = c
    BY ToBecomes, LeaveBecomes DEF MarkSynced, MarkSyncedFails, RunPc
  <1>3. books[c] \in Nat /\ excuse[c] \in Nat /\ BooksAt(c) /\ books' = books
    BY <1>1 DEF AccountingTypeOK, BooksInv, MarkSynced, MarkSyncedFails
  <1>4. \A b \in Charges \ {c} : txn'[b] = txn[b] /\ excuse'[b] = excuse[b]
    BY <1>1 DEF AccountingTypeOK, MarkSynced, MarkSyncedFails
  <1>5. k \in Nat /\ k' = k
    BY <1>1, <1>2, Counting
  <1>6. /\ SomeAt("mark", c) /\ (SomeAt("mark", c)' => SomeAt("mark", c))
        /\ SomeAt("markFailed", c)' => SomeAt("markFailed", c) \/ v.pc = "markFailed"
    BY <1>1, <1>2, SomeAtStep
  <1>7. BooksAt(c)'
    <2>1. CASE MarkSynced(r)
      <3>1. /\ txn'[c] = [status |-> "SYNCED", entry |-> TRUE] /\ excuse'[c] = excuse[c]
            /\ v.pc = "loop"
        BY <1>1, <1>2, <2>1 DEF MarkSynced, AccountingTypeOK
      <3>2. txn'[c].status = "SYNCED" /\ txn'[c].entry
        BY <3>1
      <3> QED
        BY <1>3, <1>5, <1>6, <3>1, <3>2 DEF BooksAt
    <2>2. CASE ~ MarkSynced(r)
      <3>1. txn'[c] = txn[c] /\ excuse'[c] = excuse[c] + 1
        BY <1>1, <2>2 DEF MarkSyncedFails, AccountingTypeOK
      <3> QED
        BY <1>3, <1>5, <1>6, <3>1 DEF BooksAt
    <2> QED
      BY <2>1, <2>2
  <1> QED
    BY <1>1, <1>2, <1>3, <1>4, <1>7, ChargeBooks

LEMMA MarkFailedBooks ==
  ASSUME AccountingTypeOK, BooksInv, NEW r \in Runs, RunOK(r), NEW c \in Charges, run[r].cur = c,
         MarkFailed(r) \/ MarkFailedFails(r)
  PROVE BooksInv'
  <1> DEFINE k == Cardinality(Creating(c))
  <1>1. run[r].pc = "markFailed" /\ c # NoCharge
    BY RunFields, AccountingAssumption DEF RunOK, MarkFailed, MarkFailedFails, At, Working
  <1>2. PICK v \in Run : Becomes(r, v) /\ v.cur = NoCharge /\ v.pc \in {"loop", "next", "error"}
    BY LeaveBecomes, FailedBecomes DEF MarkFailed, MarkFailedFails
  <1>3. books[c] \in Nat /\ excuse[c] \in Nat /\ BooksAt(c) /\ UNCHANGED <<books, excuse>>
    BY <1>1 DEF AccountingTypeOK, BooksInv, MarkFailed, MarkFailedFails
  <1>4. \A b \in Charges \ {c} : txn'[b] = txn[b]
    BY <1>1 DEF AccountingTypeOK, MarkFailed, MarkFailedFails
  <1>5. k \in Nat /\ k' = k
    BY <1>1, <1>2, Counting
  <1>6. /\ SomeAt("markFailed", c) /\ (SomeAt("mark", c)' => SomeAt("mark", c))
    BY <1>1, <1>2, SomeAtStep
  <1>7. (txn'[c].entry => txn[c].entry) /\ (txn'[c].status = "SYNCED" => txn[c].status = "SYNCED")
        /\ (txn'[c].status = "SYNCED" => txn'[c].entry)
    <2>1. CASE MarkFailed(r)
      <3>1. txn'[c] = [txn[c] EXCEPT !.status = "FAILED"] /\ txn[c] \in Txn
        BY <1>1, <2>1 DEF MarkFailed, AccountingTypeOK
      <3>2. txn'[c].status = "FAILED" /\ txn'[c].entry = txn[c].entry
        BY <3>1 DEF Txn
      <3> QED
        BY <3>2
    <2>2. CASE ~ MarkFailed(r)
      BY <1>3, <2>2 DEF MarkFailedFails, BooksAt
    <2> QED
      BY <2>1, <2>2
  <1>8. BooksAt(c)'
    BY <1>3, <1>5, <1>6, <1>7 DEF BooksAt
  <1> QED
    BY <1>1, <1>2, <1>3, <1>4, <1>8, ChargeBooks

LEMMA DiesBooks ==
  ASSUME AccountingTypeOK, BooksInv, NEW r \in Runs, RunOK(r), Dies(r)
  PROVE BooksInv'
  <1>0. {} \in SUBSET Tenants /\ "died" \in RunPc
    BY DEF RunPc
  <1>1. PICK v \in Run : Becomes(r, v) /\ v.cur = NoCharge /\ v.pc = "died"
    BY <1>0, FreshInRun DEF Dies, Becomes
  <1>2. UNCHANGED <<txn, books>>
    BY DEF Dies
  <1>3. CASE run[r].pc \notin Working
    <2>1. UNCHANGED excuse
      BY <1>3 DEF Dies, At, Working
    <2>2. {run[r].pc, v.pc} \cap Working = {}
      BY <1>1, <1>3 DEF Working
    <2> QED
      BY <1>1, <1>2, <2>1, <2>2, QuietBooks
  <1>4. CASE run[r].pc \in Working
    <2>1. PICK c \in Charges : run[r].cur = c /\ c # NoCharge
      BY <1>4, RunFields, AccountingAssumption DEF RunOK
    <2> DEFINE k == Cardinality(Creating(c))
    <2>2. books[c] \in Nat /\ excuse[c] \in Nat /\ BooksAt(c)
      BY <2>1 DEF AccountingTypeOK, BooksInv
    <2>3. /\ excuse'[c] = (IF run[r].pc = "mark" THEN excuse[c] + 1 ELSE excuse[c])
          /\ \A b \in Charges \ {c} : excuse'[b] = excuse[b]
      BY <2>1 DEF Dies, At, AccountingTypeOK
    <2>4. k \in Nat /\ k' \in Nat
          /\ k' = IF run[r].pc = "create" THEN k - 1 ELSE k
      BY <1>1, <2>1, Counting
    <2>5. /\ SomeAt("mark", c)' => SomeAt("mark", c)
          /\ SomeAt("markFailed", c)' => SomeAt("markFailed", c)
          /\ SomeAt("mark", c) => SomeAt("mark", c)' \/ run[r].pc = "mark"
          /\ run[r].pc = "markFailed" => SomeAt("markFailed", c)
      BY <1>1, <2>1, SomeAtStep
    <2>6. BooksAt(c)'
      <3>1. CASE run[r].pc = "create"
        BY <1>2, <2>2, <2>3, <2>4, <2>5, <3>1 DEF BooksAt
      <3>2. CASE run[r].pc = "mark"
        BY <1>2, <2>2, <2>3, <2>4, <2>5, <3>2 DEF BooksAt
      <3>3. CASE run[r].pc = "markFailed"
        BY <1>2, <2>2, <2>3, <2>4, <2>5, <3>3 DEF BooksAt
      <3> QED
        BY <1>4, <3>1, <3>2, <3>3 DEF Working
    <2> QED
      BY <1>1, <1>2, <2>1, <2>3, <2>6, ChargeBooks
  <1> QED
    BY <1>3, <1>4

-----------------------------------------------------------------------------
\* The tokens.  Shape(v): what RunOK says of a run, tokens apart.

Shape(v) ==
  /\ v.cur # NoCharge <=> v.pc \in Working
  /\ v.seen.id # 0 => v.tenant \in Tenants
  /\ v.pc \in {"stripe", "list", "token", "save"} => v.seen.id # 0
  /\ v.new # 0 <=> v.pc = "save"

\* What a step of a run that neither refreshes nor stores may read of the rows.
Reads(r, v) ==
  /\ v.new \in {0, run[r].new}
  /\ \/ v.seen = NoAccount
     \/ v.seen = run[r].seen /\ v.tenant = run[r].tenant
     \/ v.tenant \in Tenants /\ v.seen = account[v.tenant]

TokensSafe == TokenInv /\ StoredTokenAccepted /\ \A q \in Runs : RunOK(q)

LEMMA ReadingKeepsTokens ==
  ASSUME AccountingTypeOK, TokensSafe, NEW r \in Runs, NEW v \in Run, Becomes(r, v),
         Shape(v), Reads(r, v), UNCHANGED <<account, issued, granted>>,
         lost \subseteq lost', accepted' \subseteq accepted,
         \A n \in accepted \ accepted' : n = run[r].seen.token /\ n \in lost',
         run[r].pc = "save" => run[r].seen.token \in lost'
                               \/ account[run[r].tenant].id # run[r].seen.id
  PROVE TokensSafe'
  <1>1. run'[r] = v /\ \A q \in Runs \ {r} : run'[q] = run[q]
    BY DEF Becomes, AccountingTypeOK
  <1>2. NoAccount.token = 0 /\ NoAccount.id = 0
    BY DEF NoAccount
  <1>3. 0 \notin accepted
    BY DEF TokensSafe, TokenInv
  <1>4. Known(v.seen) /\ \A q \in Runs : RunOK(q)'
    <2>1. Known(v.seen)
      BY <1>2 DEF Reads, Known, TokensSafe, TokenInv, RunOK
    <2> QED
      BY <1>1, <2>1 DEF TokensSafe, RunOK, Shape, Known
  <1>5. \A n : Unused(n) => Unused(n)'
    BY <1>1, <1>2, <1>3 DEF Unused, Reads
  <1>6. \A q \in Runs : run'[q].new \in {0, run[q].new}
    BY <1>1 DEF Reads
  <1>7. ASSUME NEW t \in Tenants, v.seen.token # 0, account[t].token = v.seen.token
        PROVE t = v.tenant /\ account[t].id = v.seen.id
    BY <1>2, <1>7 DEF Reads, TokensSafe, TokenInv
  <1>8. \A q \in Runs, t \in Tenants :
          run'[q].seen.token # 0 /\ account'[t].token = run'[q].seen.token
            => t = run'[q].tenant /\ account'[t].id = run'[q].seen.id
    BY <1>1, <1>7 DEF TokensSafe, TokenInv
  <1>9. TokenInv'
    <2>1. \A q \in Runs : run'[q].new # 0 => Unused(run[q].new)' /\ run'[q].new = run[q].new
      BY <1>5, <1>6 DEF TokensSafe, TokenInv
    <2>2. \A g \in granted : Unused(g.token)' /\ (\A q \in Runs : run'[q].new # g.token)
      BY <1>3, <1>5, <1>6 DEF TokensSafe, TokenInv, Unused
    <2>3. \A q \in Runs : run'[q].new # 0 => Unused(run[q].new)'
      BY <2>1
    <2> QED
      BY <1>8, <2>1, <2>2, <2>3 DEF TokensSafe, TokenInv, Known, Unused
  <1>10. StoredTokenAccepted'
    <2> SUFFICES ASSUME NEW t \in Tenants, account[t].id # 0,
                        account[t].token \notin accepted', account[t].token \notin lost'
                 PROVE \E q \in Runs : /\ run'[q].pc = "save" /\ run'[q].tenant = t
                                       /\ run'[q].seen.id = account[t].id
                                       /\ run'[q].seen.token = account[t].token
      BY DEF StoredTokenAccepted, At
    <2>1. PICK q \in Runs : /\ run[q].pc = "save" /\ run[q].tenant = t
                            /\ run[q].seen.id = account[t].id
                            /\ run[q].seen.token = account[t].token
      BY DEF TokensSafe, StoredTokenAccepted, At
    <2>2. q # r
      BY <2>1
    <2> QED
      BY <1>1, <2>1, <2>2
  <1> QED
    BY <1>4, <1>9, <1>10 DEF TokensSafe

LEMMA UnchangedKeepsTokens ==
  ASSUME TokensSafe, UNCHANGED <<account, accepted, issued, granted, lost, run>>
  PROVE TokensSafe'
  BY DEF TokensSafe, TokenInv, StoredTokenAccepted, RunOK, Known, Unused, At

LEMMA RefreshKeepsTokens ==
  ASSUME AccountingTypeOK, TokensSafe, NEW r \in Runs, RefreshTokens(r)
  PROVE /\ TokensSafe' /\ issued' \in 0..MaxToken /\ accepted' \subseteq Nat
        /\ \E v \in Run : /\ Becomes(r, v) /\ v.cur = run[r].cur
                          /\ {run[r].pc, v.pc} \cap Working = {}
  <1>1. PICK n \in 1..MaxToken :
          /\ n = issued + 1 /\ issued' = n
          /\ accepted' = (accepted \ {run[r].seen.token}) \cup {n}
          /\ run' = [run EXCEPT ![r].pc = "save", ![r].new = n]
    BY DEF RefreshTokens, Issue
  <1> DEFINE v == [run[r] EXCEPT !.pc = "save", !.new = n]
  <1>0. n \in Nat
    BY AccountingAssumption
  <1>2. v \in Run /\ v.pc = "save" /\ v.tenant = run[r].tenant /\ v.seen = run[r].seen
        /\ v.new = n /\ v.cur = run[r].cur
    BY <1>0, RunFields DEF Run, RunPc
  <1>3. run' = [run EXCEPT ![r] = v]
    BY <1>1
  <1> HIDE DEF v
  <1>4. run'[r] = v /\ \A q \in Runs \ {r} : run'[q] = run[q]
    BY <1>3 DEF AccountingTypeOK
  <1>5. UNCHANGED <<account, granted, lost>> /\ run[r].pc = "token"
        /\ run[r].seen.token \in accepted
    BY DEF RefreshTokens, At
  <1>6. issued \in Nat /\ n \in Nat /\ MaxToken \in Nat /\ accepted \subseteq 1..issued
    BY AccountingAssumption DEF AccountingTypeOK, TokensSafe, TokenInv
  <1>7. n \notin accepted /\ n # 0 /\ (\A t \in Tenants : account[t].token # n)
        /\ (\A q \in Runs : run[q].seen.token # n /\ run[q].new # n)
        /\ (\A g \in granted : g.token # n)
    BY <1>1, <1>6 DEF TokensSafe, TokenInv, RunOK, Known, Unused
  <1>8. \A q \in Runs : RunOK(q)'
    <2>1. \A a : Known(a) => Known(a)'
      BY <1>1, <1>6 DEF Known
    <2> QED
      BY <1>2, <1>4, <1>5, <1>7, <2>1 DEF TokensSafe, RunOK, Working
  <1>9. \A m : Unused(m) /\ m # run[r].seen.token => Unused(m)'
    BY <1>1, <1>2, <1>4, <1>5 DEF Unused
  <1>10. Unused(n)'
    BY <1>1, <1>2, <1>4, <1>5, <1>7 DEF Unused
  <1>11. \A q \in Runs \ {r} : run'[q].new # 0 => Unused(run[q].new)' /\ run[q].new # n
    BY <1>4, <1>7, <1>9 DEF TokensSafe, TokenInv, Unused
  <1>12. \A g \in granted : Unused(g.token)' /\ (\A q \in Runs : run'[q].new # g.token)
    BY <1>2, <1>4, <1>7, <1>9 DEF TokensSafe, TokenInv, Unused
  <1>13. \A q \in Runs : run'[q].seen = run[q].seen /\ run'[q].tenant = run[q].tenant
    BY <1>2, <1>4
  <1>14. \A q \in Runs : run'[q].new # 0 =>
           /\ run'[q].new \in accepted'
           /\ \A t \in Tenants : account'[t].token # run'[q].new
           /\ \A p \in Runs : run'[p].seen.token # run'[q].new
    BY <1>2, <1>4, <1>10, <1>11 DEF Unused
  <1>15. TokenInv'
    <2>1. accepted' \subseteq 1..issued' /\ \A t \in Tenants : Known(account[t])'
      BY <1>1, <1>5, <1>6 DEF TokensSafe, TokenInv, Known
    <2>2. \A p, q \in Runs : run'[q].new # 0 /\ run'[p].new = run'[q].new => p = q
      BY <1>2, <1>4, <1>7 DEF TokensSafe, TokenInv
    <2> QED
      BY <1>5, <1>12, <1>13, <1>14, <2>1, <2>2 DEF TokensSafe, TokenInv, Unused
  <1>16. StoredTokenAccepted'
    <2> SUFFICES ASSUME NEW t \in Tenants, account[t].id # 0,
                        account[t].token \notin accepted', account[t].token \notin lost
                 PROVE \E q \in Runs : /\ run'[q].pc = "save" /\ run'[q].tenant = t
                                       /\ run'[q].seen.id = account[t].id
                                       /\ run'[q].seen.token = account[t].token
      BY <1>5 DEF StoredTokenAccepted, At
    <2>1. CASE account[t].token = run[r].seen.token
      <3>1. t = run[r].tenant /\ account[t].id = run[r].seen.id
        BY <1>5, <1>6, <2>1 DEF TokensSafe, TokenInv
      <3> QED
        BY <1>2, <1>4, <2>1, <3>1
    <2>2. CASE account[t].token # run[r].seen.token
      <3>1. PICK q \in Runs : /\ run[q].pc = "save" /\ run[q].tenant = t
                              /\ run[q].seen.id = account[t].id
                              /\ run[q].seen.token = account[t].token
        BY <1>1, <2>2 DEF TokensSafe, StoredTokenAccepted, At
      <3> QED
        BY <1>4, <1>5, <3>1
    <2> QED
      BY <2>1, <2>2
  <1>17. issued' \in 0..MaxToken /\ accepted' \subseteq Nat
    BY <1>1, <1>6
  <1>18. {run[r].pc, v.pc} \cap Working = {}
    BY <1>2, <1>5 DEF Working
  <1> QED
    BY <1>2, <1>3, <1>8, <1>15, <1>16, <1>17, <1>18 DEF TokensSafe, Becomes

\* A row gets a token n that nothing else holds: by SaveTokens or StoreGrant.
LEMMA NewTokenInRow ==
  ASSUME AccountingTypeOK, TokensSafe, NEW t \in Tenants, NEW n \in Nat, Unused(n),
         NEW i \in Nat \ {0},
         account' = [account EXCEPT ![t] = [id |-> i, token |-> n, fresh |-> TRUE]],
         UNCHANGED <<accepted, issued, lost>>,
         granted' \subseteq granted, \A g \in granted' : g.token # n,
         \A q \in Runs : \/ run'[q] = run[q] /\ run[q].new # n
                         \/ /\ run'[q].seen = NoAccount /\ run'[q].new = 0
                            /\ run[q].pc = "save" => run[q].tenant = t
  PROVE /\ TokenInv' /\ StoredTokenAccepted' /\ account' \in [Tenants -> Account]
        /\ \A q \in Runs : Known(run[q].seen)'
  <1>1. [id |-> i, token |-> n, fresh |-> TRUE] \in Account
    BY DEF Account
  <1>2. /\ account'[t].id = i /\ account'[t].token = n
        /\ \A u \in Tenants \ {t} : account'[u] = account[u]
        /\ account' \in [Tenants -> Account]
    BY <1>1 DEF AccountingTypeOK
  <1>3. n \in 1..issued /\ 0 \notin accepted /\ NoAccount.token = 0 /\ NoAccount.id = 0
        /\ (\A u \in Tenants : account[u].token # n) /\ (\A q \in Runs : run[q].seen.token # n)
    BY DEF TokensSafe, TokenInv, Unused, NoAccount
  <1>4. \A q \in Runs : /\ run'[q].seen.token \in {0, run[q].seen.token}
                        /\ run'[q].new \in {0, run[q].new} /\ run'[q].new # n
    BY <1>3
  <1>5. \A q \in Runs : Known(run[q].seen)'
    BY <1>3 DEF TokensSafe, RunOK, Known
  <1>6. \A u \in Tenants : Known(account[u])'
    BY <1>2, <1>3 DEF TokensSafe, TokenInv, Known
  <1>7. \A m : Unused(m) /\ m # n => Unused(m)'
    <2> SUFFICES ASSUME NEW m, Unused(m), m # n PROVE Unused(m)'
      OBVIOUS
    <2>1. m # 0
      BY <1>3 DEF Unused
    <2> QED
      BY <1>2, <1>4, <2>1 DEF Unused
  <1>8. \A g \in granted' : Unused(g.token)' /\ \A q \in Runs : run'[q].new # g.token
    BY <1>3, <1>4, <1>7 DEF TokensSafe, TokenInv, Unused
  <1>9. \A q \in Runs : run'[q].new # 0 => Unused(run[q].new)' /\ run'[q].new = run[q].new
    BY <1>4, <1>7 DEF TokensSafe, TokenInv
  <1>10. \A q \in Runs, u \in Tenants :
           run'[q].seen.token # 0 /\ account'[u].token = run'[q].seen.token
             => u = run'[q].tenant /\ account'[u].id = run'[q].seen.id
    <2> SUFFICES ASSUME NEW q \in Runs, NEW u \in Tenants, run'[q].seen.token # 0,
                        account'[u].token = run'[q].seen.token
                 PROVE u = run'[q].tenant /\ account'[u].id = run'[q].seen.id
      OBVIOUS
    <2>1. run'[q] = run[q] /\ u # t
      BY <1>2, <1>3, <1>4
    <2> QED
      BY <1>2, <2>1 DEF TokensSafe, TokenInv
  <1>11. \A u, w \in Tenants :
           account'[u].token # 0 /\ account'[w].token = account'[u].token => u = w
    BY <1>2, <1>3 DEF TokensSafe, TokenInv
  <1>12. TokenInv'
    <2>1. \A p, q \in Runs : run'[q].new # 0 /\ run'[p].new = run'[q].new => p = q
      BY <1>4 DEF TokensSafe, TokenInv
    <2>2. \A g, h \in granted' : g.token = h.token => g = h
      BY DEF TokensSafe, TokenInv
    <2>3. accepted' \subseteq 1..issued'
      BY DEF TokensSafe, TokenInv
    <2> QED
      BY <1>6, <1>8, <1>9, <1>10, <1>11, <2>1, <2>2, <2>3 DEF TokenInv, Unused
  <1>13. StoredTokenAccepted'
    <2> SUFFICES ASSUME NEW u \in Tenants, account'[u].id # 0,
                        account'[u].token \notin accepted, account'[u].token \notin lost
                 PROVE \E q \in Runs : /\ run'[q].pc = "save" /\ run'[q].tenant = u
                                       /\ run'[q].seen.id = account'[u].id
                                       /\ run'[q].seen.token = account'[u].token
      BY DEF StoredTokenAccepted, At
    <2>1. u # t
      BY <1>2 DEF Unused
    <2>2. PICK q \in Runs : /\ run[q].pc = "save" /\ run[q].tenant = u
                            /\ run[q].seen.id = account[u].id
                            /\ run[q].seen.token = account[u].token
      BY <1>2, <2>1 DEF TokensSafe, StoredTokenAccepted, At
    <2> QED
      BY <1>2, <2>1, <2>2
  <1> QED
    BY <1>2, <1>5, <1>12, <1>13

LEMMA SaveKeepsTokens ==
  ASSUME AccountingTypeOK, TokensSafe, NEW r \in Runs, SaveTokens(r)
  PROVE /\ TokensSafe' /\ account' \in [Tenants -> Account]
        /\ \E v \in Run : Becomes(r, v) /\ {run[r].pc, v.pc} \cap Working = {}
  <1>1. PICK t \in Tenants : t = run[r].tenant
    BY DEF SaveTokens, At, TokensSafe, RunOK
  <1>2. /\ run[r].pc = "save" /\ UNCHANGED <<accepted, issued, granted, lost>>
        /\ RunOK(r) /\ run[r].seen \in Account /\ run[r].new \in Nat
    BY RunFields DEF SaveTokens, At, TokensSafe, AccountingTypeOK
  <1>3. CASE account[t].id = run[r].seen.id
    <2>1. /\ account' = [account EXCEPT ![t] =
                           [id |-> run[r].seen.id, token |-> run[r].new, fresh |-> TRUE]]
          /\ EnterLoop(r)
      BY <1>1, <1>3 DEF SaveTokens
    <2>2. PICK v \in Run : Becomes(r, v) /\ v.pc = "loop" /\ v.tenant = run[r].tenant
                           /\ v.seen = NoAccount /\ v.new = 0 /\ v.cur = run[r].cur
      BY <2>1, EnterLoopBecomes
    <2>3. run'[r] = v /\ \A q \in Runs \ {r} : run'[q] = run[q]
      BY <2>2 DEF Becomes, AccountingTypeOK
    <2>4. run[r].new # 0 /\ run[r].seen.id # 0 /\ run[r].seen.id \in Nat
      BY <1>2 DEF RunOK, Account
    <2>5. PICK n \in Nat : n = run[r].new
      BY <1>2
    <2>6. PICK i \in Nat \ {0} : i = run[r].seen.id
      BY <2>4
    <2>7. Unused(n) /\ (\A g \in granted : g.token # n) /\ \A q \in Runs \ {r} : run[q].new # n
      BY <2>4, <2>5 DEF TokensSafe, TokenInv
    <2>8. \A q \in Runs : \/ run'[q] = run[q] /\ run[q].new # n
                          \/ /\ run'[q].seen = NoAccount /\ run'[q].new = 0
                             /\ run[q].pc = "save" => run[q].tenant = t
      BY <1>1, <2>2, <2>3, <2>7
    <2>9. account' = [account EXCEPT ![t] = [id |-> i, token |-> n, fresh |-> TRUE]]
      BY <2>1, <2>5, <2>6
    <2>10. /\ TokenInv' /\ StoredTokenAccepted' /\ account' \in [Tenants -> Account]
           /\ \A q \in Runs : Known(run[q].seen)'
      BY <1>2, <2>1, <2>7, <2>8, <2>9, NewTokenInRow
    <2>11. \A q \in Runs : RunOK(q)'
      BY <1>2, <2>2, <2>3, <2>10 DEF TokensSafe, RunOK, Working, NoAccount
    <2>12. {run[r].pc, v.pc} \cap Working = {}
      BY <1>2, <2>2 DEF Working
    <2> QED
      BY <1>2, <2>1, <2>2, <2>10, <2>11, <2>12 DEF TokensSafe
  <1>4. CASE account[t].id # run[r].seen.id
    <2>1. account' = account /\ Failed(r)
      BY <1>1, <1>4 DEF SaveTokens
    <2>2. PICK v \in Run : /\ Becomes(r, v) /\ v.pc \in {"next", "error"}
                           /\ v.seen = NoAccount /\ v.new = 0 /\ v.cur = NoCharge
      BY <2>1, FailedBecomes
    <2>3. Shape(v) /\ Reads(r, v)
      BY <2>2 DEF Shape, Reads, Working, NoAccount
    <2>4. TokensSafe'
      BY <1>1, <1>2, <1>4, <2>1, <2>2, <2>3, ReadingKeepsTokens
    <2>5. {run[r].pc, v.pc} \cap Working = {}
      BY <1>2, <2>2 DEF Working
    <2> QED
      BY <1>2, <2>1, <2>2, <2>4, <2>5 DEF AccountingTypeOK
  <1> QED
    BY <1>3, <1>4

\* The connect requests, disconnecting, and the clock.
LEMMA ExchangeKeepsTokens ==
  ASSUME AccountingTypeOK, TokensSafe, NEW t \in Tenants, ExchangeGrant(t)
  PROVE /\ TokensSafe' /\ issued' \in 0..MaxToken /\ accepted' \subseteq Nat
        /\ granted' \subseteq [tenant : Tenants, token : Nat]
  <1>1. PICK n \in 1..MaxToken :
          /\ n = issued + 1 /\ issued' = n /\ accepted' = accepted \cup {n}
          /\ granted' = granted \cup {[tenant |-> t, token |-> n]}
    BY DEF ExchangeGrant, Issue
  <1>2. UNCHANGED <<account, lost, run>>
    BY DEF ExchangeGrant
  <1>3. issued \in Nat /\ n \in Nat /\ MaxToken \in Nat /\ accepted \subseteq 1..issued
    BY AccountingAssumption DEF AccountingTypeOK, TokensSafe, TokenInv
  <1>4. n \notin accepted /\ n # 0 /\ (\A u \in Tenants : account[u].token # n)
        /\ (\A q \in Runs : run[q].seen.token # n /\ run[q].new # n)
        /\ (\A g \in granted : g.token # n)
    BY <1>1, <1>3 DEF TokensSafe, TokenInv, RunOK, Known, Unused
  <1>5. \A g \in granted' : g \in granted \/ (g.token = n /\ g = [tenant |-> t, token |-> n])
    BY <1>1
  <1>6. \A m : (Unused(m) => Unused(m)') /\ (m = n => Unused(m)')
    BY <1>1, <1>2, <1>4 DEF Unused
  <1>7. \A g \in granted' : Unused(g.token)' /\ \A q \in Runs : run[q].new # g.token
    BY <1>4, <1>5, <1>6 DEF TokensSafe, TokenInv
  <1>8. \A g, h \in granted' : g.token = h.token => g = h
    BY <1>4, <1>5 DEF TokensSafe, TokenInv
  <1>9. \A q \in Runs : run[q].new # 0 => Unused(run[q].new)'
    BY <1>2, <1>6 DEF TokensSafe, TokenInv, Unused
  <1>10. \A a : Known(a) => Known(a)'
    BY <1>1, <1>3 DEF Known
  <1>11. \A q \in Runs : RunOK(q)'
    BY <1>2, <1>10 DEF TokensSafe, RunOK
  <1>12. TokenInv'
    <2>1. accepted' \subseteq 1..issued' /\ \A u \in Tenants : Known(account[u])'
      BY <1>1, <1>2, <1>3, <1>10 DEF TokensSafe, TokenInv
    <2> QED
      BY <1>2, <1>7, <1>8, <1>9, <2>1 DEF TokensSafe, TokenInv, Unused
  <1>13. StoredTokenAccepted'
    BY <1>1, <1>2 DEF TokensSafe, StoredTokenAccepted, At
  <1>14. issued' \in 0..MaxToken /\ accepted' \subseteq Nat
         /\ granted' \subseteq [tenant : Tenants, token : Nat]
    BY <1>1, <1>3 DEF AccountingTypeOK
  <1> QED
    BY <1>11, <1>12, <1>13, <1>14 DEF TokensSafe

LEMMA GrantKeepsTokens ==
  ASSUME AccountingTypeOK, TokensSafe, NEW g \in granted, StoreGrant(g) \/ DropGrant(g)
  PROVE /\ TokensSafe' /\ account' \in [Tenants -> Account]
        /\ granted' \subseteq granted
  <1>1. granted' = granted \ {g} /\ UNCHANGED <<accepted, issued, lost, run>>
    BY DEF StoreGrant, DropGrant
  <1>2. CASE DropGrant(g)
    <2>1. UNCHANGED account
      BY <1>2 DEF DropGrant
    <2>2. TokensSafe'
      BY <1>1, <2>1 DEF TokensSafe, TokenInv, StoredTokenAccepted, RunOK, Known, Unused, At
    <2> QED
      BY <1>1, <2>1, <2>2 DEF AccountingTypeOK
  <1>3. CASE StoreGrant(g)
    <2>1. PICK t \in Tenants, n \in Nat : g.tenant = t /\ g.token = n
      BY DEF AccountingTypeOK
    <2>2. /\ Unused(n) /\ (\A h \in granted' : h.token # n)
          /\ \A q \in Runs : run[q].new # n
      BY <1>1, <2>1 DEF TokensSafe, TokenInv
    <2>3. n # 0 /\ account[t].id \in Nat
      BY <2>2 DEF TokensSafe, TokenInv, Unused, AccountingTypeOK, Account
    <2>4. PICK i \in Nat \ {0} : i = IF account[t].id = 0 THEN n ELSE account[t].id
      BY <2>3
    <2>5. account' = [account EXCEPT ![t] = [id |-> i, token |-> n, fresh |-> TRUE]]
      BY <1>3, <2>1, <2>4 DEF StoreGrant
    <2>6. /\ TokenInv' /\ StoredTokenAccepted' /\ account' \in [Tenants -> Account]
          /\ \A q \in Runs : Known(run[q].seen)'
      <3>1. \A q \in Runs : run'[q] = run[q] /\ run[q].new # n
        BY <1>1, <2>2
      <3> QED
        BY <1>1, <2>2, <2>5, <3>1, NewTokenInRow
    <2>7. \A q \in Runs : RunOK(q)'
      BY <1>1, <2>6 DEF TokensSafe, RunOK
    <2> QED
      BY <1>1, <2>5, <2>6, <2>7 DEF TokensSafe
  <1> QED
    BY <1>2, <1>3

LEMMA RowKeepsTokens ==
  ASSUME AccountingTypeOK, TokensSafe, NEW t \in Tenants,
         DisconnectProvider(t) \/ TokenAges(t)
  PROVE TokensSafe' /\ account' \in [Tenants -> Account]
  <1>1. UNCHANGED <<accepted, issued, granted, lost, run>>
    BY DEF DisconnectProvider, TokenAges
  <1>2. NoAccount \in Account /\ NoAccount.id = 0 /\ NoAccount.token = 0
    BY DEF NoAccount, Account
  <1>3. PICK a \in Account : /\ account' = [account EXCEPT ![t] = a]
                             /\ \/ a.id = 0 /\ a.token = 0
                                \/ a.id = account[t].id /\ a.token = account[t].token
    <2>1. CASE DisconnectProvider(t)
      BY <1>2, <2>1 DEF DisconnectProvider
    <2>2. CASE TokenAges(t)
      <3> DEFINE b == [account[t] EXCEPT !.fresh = FALSE]
      <3>1. b \in Account /\ b.id = account[t].id /\ b.token = account[t].token
        BY DEF AccountingTypeOK, Account
      <3>2. account' = [account EXCEPT ![t] = b]
        BY <2>2 DEF TokenAges
      <3> HIDE DEF b
      <3> QED
        BY <3>1, <3>2
    <2> QED
      BY <2>1, <2>2
  <1>4. /\ account' \in [Tenants -> Account] /\ account'[t] = a
        /\ \A u \in Tenants \ {t} : account'[u] = account[u]
    BY <1>3 DEF AccountingTypeOK
  <1>5. \A u \in Tenants : \/ account'[u].id = 0 /\ account'[u].token = 0
                           \/ account'[u].id = account[u].id
                              /\ account'[u].token = account[u].token
    BY <1>3, <1>4
  <1>6. 0 \notin accepted
    BY DEF TokensSafe, TokenInv
  <1>7. \A m : Unused(m) => Unused(m)'
    BY <1>1, <1>5, <1>6 DEF Unused
  <1>8. TokenInv'
    <2>1. \A u \in Tenants : Known(account[u])'
      BY <1>1, <1>5 DEF TokensSafe, TokenInv, Known
    <2>2. \A g \in granted : Unused(g.token)'
      BY <1>7 DEF TokensSafe, TokenInv
    <2>3. \A q \in Runs : run[q].new # 0 => Unused(run[q].new)'
      BY <1>1, <1>7 DEF TokensSafe, TokenInv, Unused
    <2>4. \A q \in Runs, u \in Tenants :
            run[q].seen.token # 0 /\ account'[u].token = run[q].seen.token
              => u = run[q].tenant /\ account'[u].id = run[q].seen.id
      BY <1>5 DEF TokensSafe, TokenInv
    <2>5. \A u, w \in Tenants :
            account'[u].token # 0 /\ account'[w].token = account'[u].token => u = w
      BY <1>5 DEF TokensSafe, TokenInv
    <2> QED
      BY <1>1, <2>1, <2>2, <2>3, <2>4, <2>5 DEF TokensSafe, TokenInv, Unused
  <1>9. StoredTokenAccepted'
    BY <1>1, <1>5 DEF TokensSafe, StoredTokenAccepted, At
  <1>10. \A q \in Runs : RunOK(q)'
    BY <1>1 DEF TokensSafe, RunOK, Known
  <1> QED
    BY <1>4, <1>8, <1>9, <1>10 DEF TokensSafe

-----------------------------------------------------------------------------
\* The invariant.

QuietStep(r) ==
  \/ StartRun(r) \/ FindConnection(r) \/ EndRun(r) \/ FindStripe(r) \/ ListCharges(r)
  \/ UseStoredToken(r) \/ RefreshRefused(r) \/ TenantDone(r)
  \/ \E c \in Charges : SkipCharge(r, c)
EntryStep(r) ==
  \/ CreateEntry(r) \/ CreateRefused(r) \/ CreateAnswerLost(r)
  \/ MarkSynced(r) \/ MarkSyncedFails(r) \/ MarkFailed(r) \/ MarkFailedFails(r)

LEMMA ResetReads ==
  ASSUME NEW r \in Runs, NEW v \in Run, v.pc \in {"next", "error", "died"},
         v.seen = NoAccount, v.new = 0, v.cur = NoCharge
  PROVE Shape(v) /\ Reads(r, v) /\ v.pc \notin Working
  BY DEF Shape, Reads, Working, NoAccount

LEMMA QuietBecomes ==
  ASSUME AccountingTypeOK, TokensSafe, NEW r \in Runs, QuietStep(r)
  PROVE /\ run[r].pc # "save" /\ UNCHANGED <<tokenVars, txn, books, excuse, syncFaults>>
        /\ \E v \in Run : /\ Becomes(r, v) /\ Shape(v) /\ Reads(r, v)
                          /\ \/ run[r].cur = v.cur /\ run[r].pc = v.pc
                             \/ {run[r].pc, v.pc} \cap Working = {}
  <1>0. RunOK(r)
    BY DEF TokensSafe
  <1>1. CASE StartRun(r)
    <2>1. run[r].pc = "idle"
      BY <1>1 DEF StartRun, At
    <2> QED
      BY <1>0, <1>1, <2>1, StartRunBecomes DEF StartRun, RunOK, Shape, Reads, Working
  <1>2. CASE FindConnection(r)
    <2>1. run[r].pc = "next" /\ UNCHANGED <<tokenVars, txn, books, excuse, syncFaults>>
      BY <1>2 DEF FindConnection, At
    <2>2. PICK v \in Run :
          /\ Becomes(r, v)
          /\ \/ /\ v.pc = "stripe" /\ v.tenant \in Tenants
                /\ v.seen = account[v.tenant] /\ v.seen.id # 0
                /\ v.new = run[r].new /\ v.cur = run[r].cur
             \/ /\ v.pc \in {"next", "error"} /\ v.seen = NoAccount
                /\ v.new = 0 /\ v.cur = NoCharge
      BY <1>2, FindConnectionBecomes
    <2>3. Shape(v) /\ Reads(r, v) /\ v.pc \notin Working
      BY <1>0, <2>1, <2>2, ResetReads DEF RunOK, Shape, Reads, Working
    <2> QED
      BY <2>1, <2>2, <2>3 DEF Working
  <1>3. CASE EndRun(r)
    <2>1. run[r].pc = "next"
      BY <1>3 DEF EndRun, At
    <2> QED
      BY <1>0, <1>3, <2>1, ToBecomes DEF EndRun, RunOK, Shape, Reads, Working, RunPc
  <1>4. CASE FindStripe(r)
    <2>1. run[r].pc = "stripe" /\ UNCHANGED <<tokenVars, txn, books, excuse, syncFaults>>
      BY <1>4 DEF FindStripe, At
    <2>2. CASE To(r, "list")
      BY <1>0, <2>1, <2>2, ToBecomes DEF RunOK, Shape, Reads, Working, RunPc
    <2>3. CASE Failed(r)
      BY <2>1, <2>3, FailedBecomes, ResetReads DEF Working
    <2> QED
      BY <1>4, <2>2, <2>3 DEF FindStripe
  <1>5. CASE ListCharges(r)
    <2>1. run[r].pc = "list" /\ UNCHANGED <<tokenVars, txn, books, excuse, syncFaults>>
      BY <1>5 DEF ListCharges, At
    <2>2. PICK v \in Run :
          /\ Becomes(r, v)
          /\ \/ /\ v.pc = "token" /\ v.tenant = run[r].tenant /\ v.seen = run[r].seen
                /\ v.new = run[r].new /\ v.cur = run[r].cur
             \/ /\ v.pc \in {"next", "error"} /\ v.seen = NoAccount
                /\ v.new = 0 /\ v.cur = NoCharge
      BY <1>5, ListChargesBecomes
    <2>3. Shape(v) /\ Reads(r, v) /\ v.pc \notin Working
      BY <1>0, <2>1, <2>2, ResetReads DEF RunOK, Shape, Reads, Working
    <2> QED
      BY <2>1, <2>2, <2>3 DEF Working
  <1>6. CASE UseStoredToken(r)
    <2>1. run[r].pc = "token"
      BY <1>6 DEF UseStoredToken, At
    <2> QED
      BY <1>0, <1>6, <2>1, EnterLoopBecomes
      DEF UseStoredToken, RunOK, Shape, Reads, Working, NoAccount
  <1>7. CASE RefreshRefused(r)
    <2>1. run[r].pc = "token"
      BY <1>7 DEF RefreshRefused, At
    <2> QED
      BY <1>7, <2>1, FailedBecomes, ResetReads DEF RefreshRefused, Working
  <1>8. CASE TenantDone(r)
    <2>1. run[r].pc = "loop" /\ run[r].todo \in SUBSET Tenants
      BY <1>8, RunFields DEF TenantDone, At
    <2>2. \E v \in Run : /\ v = Fresh("next", run[r].todo) /\ v.pc = "next"
                         /\ v.seen = NoAccount /\ v.new = 0 /\ v.cur = NoCharge
      BY <2>1, FreshInRun DEF RunPc
    <2> QED
      BY <1>8, <2>1, <2>2, ResetReads DEF TenantDone, Becomes, Working
  <1>9. CASE \E c \in Charges : SkipCharge(r, c)
    <2>1. PICK c \in Charges : SkipCharge(r, c)
      BY <1>9
    <2>2. run[r].pc = "loop" /\ UNCHANGED <<tokenVars, txn, books, excuse, syncFaults>>
      BY <2>1 DEF SkipCharge, At
    <2>3. ~ ReadTxn(r, c)
      BY <2>1 DEF SkipCharge, ReadTxn
    <2>4. PICK v \in Run : /\ Becomes(r, v) /\ v.tenant = run[r].tenant
                           /\ v.seen = run[r].seen /\ v.new = run[r].new
                           /\ v.pc = run[r].pc /\ v.cur = run[r].cur
      BY <2>1, <2>3, TakeChargeBecomes
    <2>5. Shape(v) /\ Reads(r, v)
      BY <1>0, <2>2, <2>4 DEF RunOK, Shape, Reads
    <2> QED
      BY <2>2, <2>4, <2>5
  <1> QED
    BY <1>1, <1>2, <1>3, <1>4, <1>5, <1>6, <1>7, <1>8, <1>9 DEF QuietStep

LEMMA EntryBecomes ==
  ASSUME AccountingTypeOK, TokensSafe, NEW r \in Runs,
         EntryStep(r) \/ \E c \in Charges : ReadTxn(r, c)
  PROVE /\ run[r].pc # "save" /\ UNCHANGED tokenVars
        /\ \E v \in Run : Becomes(r, v) /\ Shape(v) /\ Reads(r, v)
  <1>0. RunOK(r)
    BY DEF TokensSafe
  <1>1. CASE CreateEntry(r) \/ CreateRefused(r) \/ CreateAnswerLost(r) \/ MarkSyncedFails(r)
    <2>1. run[r].pc \in {"create", "mark"} /\ UNCHANGED tokenVars
      BY <1>1 DEF CreateEntry, CreateRefused, CreateAnswerLost, MarkSyncedFails, At
    <2>2. PICK pc \in {"mark", "markFailed"} : To(r, pc)
      BY <1>1 DEF CreateEntry, CreateRefused, CreateAnswerLost, MarkSyncedFails
    <2>3. PICK v \in Run : /\ Becomes(r, v) /\ v.pc = pc
                           /\ v.tenant = run[r].tenant /\ v.seen = run[r].seen
                           /\ v.new = run[r].new /\ v.cur = run[r].cur
      BY <2>2, ToBecomes DEF RunPc
    <2>4. Shape(v) /\ Reads(r, v)
      BY <1>0, <2>1, <2>3 DEF RunOK, Shape, Reads, Working
    <2> QED
      BY <2>1, <2>3, <2>4
  <1>2. CASE MarkSynced(r) \/ MarkFailed(r)
    <2>1. run[r].pc \in {"mark", "markFailed"} /\ UNCHANGED tokenVars /\ Leave(r)
      BY <1>2 DEF MarkSynced, MarkFailed, At
    <2>2. PICK v \in Run : /\ Becomes(r, v) /\ v.pc = "loop" /\ v.tenant = run[r].tenant
                           /\ v.seen = run[r].seen /\ v.new = run[r].new /\ v.cur = NoCharge
      BY <2>1, LeaveBecomes
    <2>3. Shape(v) /\ Reads(r, v)
      BY <1>0, <2>1, <2>2 DEF RunOK, Shape, Reads, Working
    <2> QED
      BY <2>1, <2>2, <2>3
  <1>3. CASE MarkFailedFails(r)
    <2>1. run[r].pc = "markFailed"
      BY <1>3 DEF MarkFailedFails, At
    <2> QED
      BY <1>3, <2>1, FailedBecomes, ResetReads DEF MarkFailedFails
  <1>4. CASE \E c \in Charges : ReadTxn(r, c)
    <2>1. PICK c \in Charges : ReadTxn(r, c)
      BY <1>4
    <2>2. run[r].pc = "loop" /\ UNCHANGED tokenVars /\ c # NoCharge
      BY <2>1, AccountingAssumption DEF ReadTxn, At
    <2>3. PICK v \in Run : /\ Becomes(r, v) /\ v.tenant = run[r].tenant
                           /\ v.seen = run[r].seen /\ v.new = run[r].new
                           /\ v.pc = "create" /\ v.cur = c
      BY <2>1, TakeChargeBecomes
    <2>4. Shape(v) /\ Reads(r, v)
      BY <1>0, <2>2, <2>3 DEF RunOK, Shape, Reads, Working
    <2> QED
      BY <2>2, <2>3, <2>4
  <1> QED
    BY <1>1, <1>2, <1>3, <1>4 DEF EntryStep

LEMMA EntryTypes ==
  ASSUME AccountingTypeOK, NEW r \in Runs, RunOK(r),
         EntryStep(r) \/ \E c \in Charges : ReadTxn(r, c)
  PROVE /\ txn' \in [Charges -> Txn] /\ books' \in [Charges -> Nat]
        /\ excuse' \in [Charges -> Nat] /\ syncFaults' \in 0..SyncFaults
  <1>1. run[r].pc \in Working => run[r].cur \in Charges
    BY RunFields DEF RunOK
  <1>2. /\ txn \in [Charges -> Txn] /\ books \in [Charges -> Nat]
        /\ excuse \in [Charges -> Nat] /\ syncFaults \in 0..SyncFaults
    BY DEF AccountingTypeOK
  <1>3. syncFaults' \in 0..SyncFaults
    <2>1. \/ syncFaults' = syncFaults
          \/ syncFaults < SyncFaults /\ syncFaults' = syncFaults + 1
      BY DEF EntryStep, ReadTxn, CreateEntry, CreateRefused, CreateAnswerLost, MarkSynced,
         MarkSyncedFails, MarkFailed, MarkFailedFails
    <2> QED
      BY <1>2, <2>1, AccountingAssumption
  <1>4. books' \in [Charges -> Nat] /\ excuse' \in [Charges -> Nat]
    <2>1. CASE \E c \in Charges : ReadTxn(r, c)
      <3>1. PICK c \in Charges : ReadTxn(r, c)
        BY <2>1
      <3> DEFINE n == IF Inside(c) = {} THEN excuse[c] ELSE excuse[c] + 1
      <3>2. excuse' = [excuse EXCEPT ![c] = n]
        BY <3>1 DEF ReadTxn
      <3>3. n \in Nat
        BY <1>2
      <3> HIDE DEF n
      <3>4. books' = books
        BY <3>1 DEF ReadTxn
      <3> QED
        BY <1>2, <3>2, <3>3, <3>4
    <2>2. CASE CreateEntry(r) \/ CreateAnswerLost(r)
      <3>1. run[r].cur \in Charges
        BY <1>1, <2>2 DEF CreateEntry, CreateAnswerLost, At, Working
      <3> QED
        BY <1>2, <2>2, <3>1 DEF CreateEntry, CreateAnswerLost
    <2>3. CASE MarkSyncedFails(r)
      <3>1. run[r].cur \in Charges
        BY <1>1, <2>3 DEF MarkSyncedFails, At, Working
      <3> QED
        BY <1>2, <2>3, <3>1 DEF MarkSyncedFails
    <2>4. CASE UNCHANGED <<books, excuse>>
      BY <1>2, <2>4
    <2> QED
      BY <2>1, <2>2, <2>3, <2>4
      DEF EntryStep, CreateRefused, MarkSynced, MarkFailed, MarkFailedFails
  <1>5. txn' \in [Charges -> Txn]
    <2>1. CASE MarkSynced(r)
      <3>1. [status |-> "SYNCED", entry |-> TRUE] \in Txn
        BY DEF Txn
      <3> QED
        BY <1>2, <2>1, <3>1 DEF MarkSynced
    <2>2. CASE MarkFailed(r)
      <3>1. PICK c \in Charges : run[r].cur = c
        BY <1>1, <2>2 DEF MarkFailed, At, Working
      <3>2. txn[c] \in Txn
        BY <1>2
      <3> DEFINE row == [txn[c] EXCEPT !.status = "FAILED"]
      <3>3. row \in Txn
        BY <3>2 DEF Txn
      <3>4. txn' = [txn EXCEPT ![c] = row]
        BY <2>2, <3>1 DEF MarkFailed
      <3> HIDE DEF row
      <3> QED
        BY <1>2, <3>3, <3>4
    <2>3. CASE UNCHANGED txn
      BY <1>2, <2>3
    <2> QED
      BY <2>1, <2>2, <2>3
      DEF EntryStep, ReadTxn, CreateEntry, CreateRefused, CreateAnswerLost, MarkSyncedFails,
          MarkFailedFails
  <1> QED
    BY <1>3, <1>4, <1>5

LEMMA RunStepInv ==
  ASSUME AccountingTypeOK, TokensSafe, BooksInv, GrantStored, NEW r \in Runs,
         StartRun(r) \/ RunStep(r) \/ RunFault(r)
  PROVE (AccountingTypeOK /\ TokensSafe /\ BooksInv /\ GrantStored)'
  <1>0. RunOK(r) /\ \A v \in Run : Becomes(r, v) => run' \in [Runs -> Run]
    BY DEF TokensSafe, Becomes, AccountingTypeOK
  <1>1. GrantStored' /\ ConnectionsTypeOK' /\ UNCHANGED connectionVars
    <2>1. UNCHANGED connectionVars
      BY DEF StartRun, RunStep, RunFault, CreateStep, FindConnection, EndRun, FindStripe,
         ListCharges, UseStoredToken, RefreshTokens, RefreshRefused, SaveTokens, SkipCharge,
         ReadTxn, CreateEntry, CreateRefused, CreateAnswerLost, MarkSynced, MarkSyncedFails,
         MarkFailed, MarkFailedFails, TenantDone, Dies, RefreshAnswerLost, SaveTokensFails,
         NeverStored, tokenVars
    <2> QED
      BY <2>1 DEF connectionVars, GrantStored, HasGrant, ConnectionsTypeOK, AccountingTypeOK
  <1>2. CASE QuietStep(r)
    <2>1. /\ run[r].pc # "save" /\ UNCHANGED <<tokenVars, txn, books, excuse, syncFaults>>
          /\ \E v \in Run : /\ Becomes(r, v) /\ Shape(v) /\ Reads(r, v)
                            /\ \/ run[r].cur = v.cur /\ run[r].pc = v.pc
                               \/ {run[r].pc, v.pc} \cap Working = {}
      BY <1>2, QuietBecomes
    <2>2. TokensSafe'
      BY <2>1, ReadingKeepsTokens DEF tokenVars
    <2>3. BooksInv'
      BY <2>1, QuietBooks
    <2>4. AccountingTypeOK'
      BY <1>0, <1>1, <2>1 DEF AccountingTypeOK, tokenVars
    <2> QED
      BY <1>1, <2>2, <2>3, <2>4
  <1>3. CASE EntryStep(r) \/ \E c \in Charges : ReadTxn(r, c)
    <2>1. /\ run[r].pc # "save" /\ UNCHANGED tokenVars
          /\ \E v \in Run : Becomes(r, v) /\ Shape(v) /\ Reads(r, v)
      BY <1>3, EntryBecomes
    <2>2. TokensSafe'
      BY <2>1, ReadingKeepsTokens DEF tokenVars
    <2>3. BooksInv'
      <3>1. CASE \E c \in Charges : ReadTxn(r, c)
        BY <1>0, <3>1, ReadTxnBooks
      <3>2. CASE EntryStep(r)
        <4>1. run[r].pc \in Working
          BY <3>2 DEF EntryStep, CreateEntry, CreateRefused, CreateAnswerLost, MarkSynced,
             MarkSyncedFails, MarkFailed, MarkFailedFails, At, Working
        <4>2. PICK c \in Charges : run[r].cur = c
          BY <1>0, <4>1, RunFields DEF RunOK
        <4> QED
          BY <1>0, <3>2, <4>2, CreateBooks, MarkBooks, MarkFailedBooks DEF EntryStep
      <3> QED
        BY <1>3, <3>1, <3>2
    <2>4. AccountingTypeOK'
      BY <1>0, <1>1, <1>3, <2>1, EntryTypes DEF AccountingTypeOK, tokenVars
    <2> QED
      BY <1>1, <2>2, <2>3, <2>4
  <1>4. CASE RefreshTokens(r)
    <2>1. /\ TokensSafe' /\ issued' \in 0..MaxToken /\ accepted' \subseteq Nat
          /\ \E v \in Run : /\ Becomes(r, v) /\ v.cur = run[r].cur
                            /\ {run[r].pc, v.pc} \cap Working = {}
      BY <1>4, RefreshKeepsTokens
    <2>2. UNCHANGED <<connectionVars, account, granted, lost, charge, txn, books, excuse,
                      syncFaults>>
      BY <1>4 DEF RefreshTokens
    <2>3. BooksInv'
      BY <2>1, <2>2, QuietBooks
    <2>4. AccountingTypeOK'
      BY <1>0, <1>1, <2>1, <2>2 DEF AccountingTypeOK
    <2> QED
      BY <1>1, <2>1, <2>3, <2>4
  <1>5. CASE SaveTokens(r)
    <2>1. /\ TokensSafe' /\ account' \in [Tenants -> Account]
          /\ \E v \in Run : Becomes(r, v) /\ {run[r].pc, v.pc} \cap Working = {}
      BY <1>5, SaveKeepsTokens
    <2>2. UNCHANGED <<connectionVars, accepted, issued, granted, lost, charge, txn, books,
                      excuse, syncFaults>>
      BY <1>5 DEF SaveTokens
    <2>3. BooksInv'
      BY <2>1, <2>2, QuietBooks
    <2>4. AccountingTypeOK'
      BY <1>0, <1>1, <2>1, <2>2 DEF AccountingTypeOK
    <2> QED
      BY <1>1, <2>1, <2>3, <2>4
  <1>6. CASE Dies(r)
    <2>1. {} \in SUBSET Tenants /\ "died" \in RunPc
      BY DEF RunPc
    <2>2. PICK v \in Run : /\ Becomes(r, v) /\ v.pc = "died" /\ v.seen = NoAccount
                           /\ v.new = 0 /\ v.cur = NoCharge
      BY <1>6, <2>1, FreshInRun DEF Dies, Becomes
    <2>3. UNCHANGED <<account, accepted, issued, granted, charge, txn, books>>
      BY <1>6 DEF Dies
    <2>4. run[r].seen.token \in Nat
      BY RunFields DEF Account
    <2>5. /\ lost \subseteq lost' /\ lost' \subseteq Nat
          /\ run[r].pc = "save" => run[r].seen.token \in lost'
      BY <1>6, <2>4 DEF Dies, At, AccountingTypeOK
    <2>6. TokensSafe'
      BY <2>2, <2>3, <2>5, ResetReads, ReadingKeepsTokens
    <2>7. BooksInv'
      BY <1>0, <1>6, DiesBooks
    <2>8. excuse' \in [Charges -> Nat] /\ syncFaults' \in 0..SyncFaults
      <3>1. run[r].pc = "mark" => run[r].cur \in Charges
        BY <1>0, RunFields DEF RunOK, Working
      <3> QED
        BY <1>6, <3>1, AccountingAssumption DEF Dies, At, AccountingTypeOK
    <2>9. AccountingTypeOK'
      BY <1>0, <1>1, <2>2, <2>3, <2>5, <2>8 DEF AccountingTypeOK
    <2> QED
      BY <1>1, <2>6, <2>7, <2>9
  <1>7. CASE RefreshAnswerLost(r) \/ SaveTokensFails(r)
    <2>1. /\ NeverStored(r) /\ issued' = issued /\ run[r].pc \in {"token", "save"}
          /\ accepted' \in {accepted, accepted \ {run[r].seen.token}}
      BY <1>7 DEF RefreshAnswerLost, SaveTokensFails, At
    <2>2. PICK v \in Run : /\ Becomes(r, v) /\ v.pc \in {"next", "error"}
                           /\ v.seen = NoAccount /\ v.new = 0 /\ v.cur = NoCharge
      BY <2>1, FailedBecomes DEF NeverStored
    <2>3. /\ UNCHANGED <<account, granted, charge, txn, books, excuse>>
          /\ lost' = lost \cup {run[r].seen.token} /\ syncFaults' \in 0..SyncFaults
      BY <2>1, AccountingAssumption DEF NeverStored, AccountingTypeOK
    <2>4. run[r].seen.token \in Nat
      BY RunFields DEF Account
    <2>5. TokensSafe'
      BY <2>1, <2>2, <2>3, ResetReads, ReadingKeepsTokens
    <2>6. BooksInv'
      <3>1. {run[r].pc, v.pc} \cap Working = {}
        BY <2>1, <2>2 DEF Working
      <3> QED
        BY <2>2, <2>3, <3>1, QuietBooks
    <2>7. AccountingTypeOK'
      BY <1>0, <1>1, <2>1, <2>2, <2>3, <2>4 DEF AccountingTypeOK
    <2> QED
      BY <1>1, <2>5, <2>6, <2>7
  <1> QED
    BY <1>2, <1>3, <1>4, <1>5, <1>6, <1>7 DEF QuietStep, EntryStep, RunStep, RunFault, CreateStep

LEMMA TokenStepInv ==
  ASSUME AccountingTypeOK, TokensSafe, BooksInv, GrantStored,
         \/ \E t \in Tenants : ExchangeGrant(t) \/ DisconnectProvider(t) \/ TokenAges(t)
         \/ \E g \in granted : StoreGrant(g) \/ DropGrant(g)
         \/ \E c \in Charges : ChargeStep(c)
  PROVE (AccountingTypeOK /\ TokensSafe /\ BooksInv /\ GrantStored)'
  <1>1. UNCHANGED <<connectionVars, txn, books, excuse, run, syncFaults>>
    BY DEF ExchangeGrant, DisconnectProvider, TokenAges, StoreGrant, DropGrant, ChargeStep
  <1>2. GrantStored' /\ ConnectionsTypeOK'
    BY <1>1 DEF connectionVars, GrantStored, HasGrant, ConnectionsTypeOK, AccountingTypeOK
  <1>3. BooksInv'
    BY <1>1 DEF BooksInv, BooksAt, Creating, SomeAt
  <1>4. TokensSafe'
    BY ExchangeKeepsTokens, GrantKeepsTokens, RowKeepsTokens, UnchangedKeepsTokens, <1>1
    DEF ChargeStep
  <1>5. charge' \in [Charges -> {"none", "recent", "old"}]
    BY DEF ExchangeGrant, DisconnectProvider, TokenAges, StoreGrant, DropGrant, ChargeStep,
       AccountingTypeOK
  <1>6. /\ account' \in [Tenants -> Account] /\ lost' \subseteq Nat
        /\ granted' \subseteq [tenant : Tenants, token : Nat]
        /\ accepted' \subseteq Nat /\ issued' \in 0..MaxToken
    <2>1. CASE \E t \in Tenants : ExchangeGrant(t)
      BY <2>1, ExchangeKeepsTokens DEF ExchangeGrant, AccountingTypeOK
    <2>2. CASE \E t \in Tenants : DisconnectProvider(t) \/ TokenAges(t)
      BY <2>2, RowKeepsTokens DEF DisconnectProvider, TokenAges, AccountingTypeOK
    <2>3. CASE \E g \in granted : StoreGrant(g) \/ DropGrant(g)
      BY <2>3, GrantKeepsTokens DEF StoreGrant, DropGrant, AccountingTypeOK
    <2>4. CASE \E c \in Charges : ChargeStep(c)
      BY <2>4 DEF ChargeStep, AccountingTypeOK
    <2> QED
      BY <2>1, <2>2, <2>3, <2>4
  <1>7. AccountingTypeOK'
    BY <1>1, <1>2, <1>5, <1>6 DEF AccountingTypeOK
  <1> QED
    BY <1>2, <1>3, <1>4, <1>7

LEMMA AccountingInitInv == AccountingInit => AccountingInv
  <1> SUFFICES ASSUME AccountingInit PROVE AccountingInv
    OBVIOUS
  <1>1. ConnectionsTypeOK /\ GrantStored
    BY ConnectionsInitInv DEF AccountingInit
  <1>2. "idle" \in RunPc /\ {} \in SUBSET Tenants
    BY DEF RunPc
  <1>3. \A r \in Runs : /\ run[r] \in Run /\ run[r].pc = "idle" /\ run[r].seen = NoAccount
                        /\ run[r].new = 0 /\ run[r].cur = NoCharge
    BY <1>2, FreshInRun DEF AccountingInit
  <1>4. NoAccount \in Account /\ NoAccount.id = 0 /\ NoAccount.token = 0
    BY DEF NoAccount, Account
  <1>5. [status |-> "ABSENT", entry |-> FALSE] \in Txn
    BY DEF Txn
  <1>6. AccountingTypeOK
    BY <1>1, <1>3, <1>4, <1>5, AccountingAssumption DEF AccountingTypeOK, AccountingInit
  <1>7. \A r \in Runs : RunOK(r)
    BY <1>3, <1>4 DEF RunOK, Known, Working
  <1>8. BooksInv
    <2> SUFFICES ASSUME NEW c \in Charges PROVE BooksAt(c)
      BY DEF BooksInv
    <2>1. Creating(c) = {} /\ ~ SomeAt("mark", c) /\ ~ SomeAt("markFailed", c)
      BY <1>3 DEF Creating, SomeAt
    <2>2. /\ books[c] = 0 /\ excuse[c] = 0
          /\ txn[c] = [status |-> "ABSENT", entry |-> FALSE]
      BY DEF AccountingInit
    <2>3. txn[c].status = "ABSENT" /\ ~ txn[c].entry
      BY <2>2
    <2> QED
      BY <2>1, <2>2, <2>3, FS_EmptySet DEF BooksAt
  <1>9. TokenInv /\ StoredTokenAccepted
    BY <1>3, <1>4 DEF AccountingInit, TokenInv, StoredTokenAccepted, Known
  <1> QED
    BY <1>1, <1>6, <1>7, <1>8, <1>9 DEF AccountingInv

\* Every reachable state satisfies the inductive invariant: the rows, runs and
\* tokens of syncTransactions, refreshTokenIfNeeded and the OAuth callbacks.
THEOREM AccountingInvariance == AccountingSpec => []AccountingInv
  <1>1. AccountingInit => AccountingInv
    BY AccountingInitInv
  <1>2. AccountingInv /\ [AccountingNext]_accountingVars => AccountingInv'
    <2> SUFFICES ASSUME AccountingInv, [AccountingNext]_accountingVars PROVE AccountingInv'
      OBVIOUS
    <2>0. AccountingTypeOK /\ TokensSafe /\ BooksInv /\ GrantStored
      BY DEF AccountingInv, TokensSafe
    <2>1. CASE ConnectionsNext /\ UNCHANGED syncVars
      <3>1. (ConnectionsTypeOK /\ GrantStored)'
        BY <2>0, <2>1, ConnectionsNextInv DEF AccountingTypeOK
      <3>2. TokensSafe'
        BY <2>0, <2>1, UnchangedKeepsTokens DEF syncVars
      <3>3. BooksInv'
        BY <2>0, <2>1 DEF syncVars, BooksInv, BooksAt, Creating, SomeAt
      <3>4. AccountingTypeOK'
        BY <2>0, <2>1, <3>1 DEF syncVars, AccountingTypeOK
      <3> QED
        BY <3>1, <3>2, <3>3, <3>4 DEF AccountingInv, TokensSafe
    <2>2. CASE \/ \E t \in Tenants : ExchangeGrant(t) \/ DisconnectProvider(t) \/ TokenAges(t)
               \/ \E g \in granted : StoreGrant(g) \/ DropGrant(g)
               \/ \E c \in Charges : ChargeStep(c)
      BY <2>0, <2>2, TokenStepInv DEF AccountingInv, TokensSafe
    <2>3. CASE \E r \in Runs : StartRun(r) \/ RunStep(r) \/ RunFault(r)
      BY <2>0, <2>3, RunStepInv DEF AccountingInv, TokensSafe
    <2>4. CASE UNCHANGED accountingVars
      <3>1. UNCHANGED syncVars /\ UNCHANGED connectionVars
        BY <2>4 DEF accountingVars
      <3>2. ConnectionsTypeOK' /\ GrantStored'
        BY <2>0, <3>1 DEF connectionVars, GrantStored, HasGrant, ConnectionsTypeOK,
           AccountingTypeOK
      <3>3. TokensSafe'
        BY <2>0, <3>1, UnchangedKeepsTokens DEF syncVars
      <3>4. BooksInv' /\ AccountingTypeOK'
        BY <2>0, <3>1, <3>2 DEF syncVars, BooksInv, BooksAt, Creating, SomeAt, AccountingTypeOK
      <3> QED
        BY <3>2, <3>3, <3>4 DEF AccountingInv, TokensSafe
    <2> QED
      BY <2>1, <2>2, <2>3, <2>4 DEF AccountingNext
  <1> QED
    BY <1>1, <1>2, PTL DEF AccountingSpec

\* Every variable of connections and accounting sync keeps its type.
THEOREM AccountingTypeCorrect == AccountingSpec => []AccountingTypeOK
  <1>1. AccountingInv => AccountingTypeOK
    BY DEF AccountingInv
  <1> QED
    BY <1>1, AccountingInvariance, PTL

\* However many runs overlap, die or lose an answer, a charge has at most one
\* entry in the books more than it has met such occasions (syncTransactions).
THEOREM EntriesAreAccounted == AccountingSpec => []EntriesAccounted
  <1>1. AccountingInv => EntriesAccounted
    <2> SUFFICES ASSUME AccountingInv, NEW c \in Charges
                 PROVE /\ books[c] <= 1 + excuse[c]
                       /\ txn[c].status = "SYNCED" => txn[c].entry
                       /\ txn[c].entry => books[c] >= 1
      BY DEF EntriesAccounted
    <2>1. BooksAt(c) /\ books[c] \in Nat /\ excuse[c] \in Nat
      BY DEF AccountingInv, BooksInv, AccountingTypeOK
    <2>2. Cardinality(Creating(c)) \in Nat
      <3>1. Creating(c) \subseteq Runs
        BY DEF Creating
      <3> QED
        BY <3>1, AccountingAssumption, FS_Subset, FS_CardinalityType
    <2> QED
      BY <2>1, <2>2 DEF BooksAt
  <1> QED
    BY <1>1, AccountingInvariance, PTL

\* The stored refresh token is one the provider accepts, or a run is about to
\* store the successor of that very token, or its successor was lost on the way
\* (refreshTokenIfNeeded, however runs, reconnects and disconnects interleave).
THEOREM StoredTokenIsAccepted == AccountingSpec => []StoredTokenAccepted
  <1>1. AccountingInv => StoredTokenAccepted
    BY DEF AccountingInv
  <1> QED
    BY <1>1, AccountingInvariance, PTL

\* A tenant whose OAuth round trip was answered 'connected' has an ACTIVE row,
\* or was disconnected afterwards (createConnection, disconnectConnection).
THEOREM ConnectedStaysActive == AccountingSpec => []ConnectedIsActive
  <1>1. AccountingInv => ConnectedIsActive
    BY DEF AccountingInv, GrantStored, ConnectedIsActive
  <1> QED
    BY <1>1, AccountingInvariance, PTL

\* Only the catch of a run that works on the charge takes SYNCED away from it.
LEMMA SyncedStep ==
  ASSUME AccountingInv, [AccountingNext]_accountingVars, NEW c \in Charges
  PROVE  /\ txn[c].entry => txn'[c].entry
         /\ txn[c].status = "SYNCED" /\ txn'[c].status # "SYNCED" => excuse[c] > 0
  <1>1. txn \in [Charges -> Txn] /\ excuse[c] \in Nat /\ books[c] \in Nat /\ BooksAt(c)
    BY DEF AccountingInv, AccountingTypeOK, BooksInv
  <1>2. CASE \E r \in Runs : MarkSynced(r)
    BY <1>1, <1>2 DEF MarkSynced, Txn
  <1>3. CASE \E r \in Runs : MarkFailed(r)
    <2>1. PICK r \in Runs : MarkFailed(r)
      BY <1>3
    <2>2. \A b \in Charges : txn'[b].entry = txn[b].entry
      BY <1>1, <2>1 DEF MarkFailed, Txn
    <2>3. CASE run[r].cur = c
      <3>1. SomeAt("markFailed", c)
        BY <2>1, <2>3 DEF MarkFailed, At, SomeAt
      <3>2. Cardinality(Creating(c)) \in Nat
        <4>1. Creating(c) \subseteq Runs
          BY DEF Creating
        <4> QED
          BY <4>1, AccountingAssumption, FS_Subset, FS_CardinalityType
      <3>3. books[c] + Cardinality(Creating(c)) <= excuse[c]
        BY <1>1, <3>1 DEF BooksAt
      <3>4. txn[c].status = "SYNCED" => books[c] >= 1
        BY <1>1 DEF BooksAt
      <3> QED
        BY <1>1, <2>2, <3>2, <3>3, <3>4
    <2>4. CASE run[r].cur # c
      BY <1>1, <2>1, <2>2, <2>4 DEF MarkFailed
    <2> QED
      BY <2>3, <2>4
  <1>4. CASE UNCHANGED txn
    BY <1>4
  <1>5. (\E r \in Runs : MarkSynced(r) \/ MarkFailed(r)) \/ UNCHANGED txn
    <2>1. CASE \E r \in Runs : RunFault(r)
      BY <2>1 DEF RunFault, CreateAnswerLost, MarkSyncedFails, MarkFailedFails, Dies,
         RefreshAnswerLost, SaveTokensFails, NeverStored
    <2>2. CASE \E r \in Runs : StartRun(r) \/ RunStep(r)
      BY <2>2 DEF StartRun, RunStep, FindConnection, EndRun, FindStripe, ListCharges,
         UseStoredToken, RefreshTokens, RefreshRefused, SaveTokens, SkipCharge, ReadTxn,
         CreateStep, CreateEntry, CreateRefused, TenantDone
    <2>3. CASE UNCHANGED accountingVars \/ UNCHANGED syncVars
      BY <2>3 DEF accountingVars, syncVars
    <2>4. CASE \/ \E t \in Tenants : ExchangeGrant(t) \/ DisconnectProvider(t) \/ TokenAges(t)
               \/ \E g \in granted : StoreGrant(g) \/ DropGrant(g)
               \/ \E b \in Charges : ChargeStep(b)
      BY <2>4 DEF ExchangeGrant, StoreGrant, DropGrant, DisconnectProvider, TokenAges, ChargeStep
    <2> QED
      BY <2>1, <2>2, <2>3, <2>4 DEF AccountingNext
  <1> QED
    BY <1>2, <1>3, <1>4, <1>5

\* A made entry keeps its id in the table, and a row that says SYNCED goes on
\* saying so, unless runs overlapped on the charge or an answer was lost.
THEOREM SyncedLasts == AccountingSpec => SyncedIsLasting
  <1>1. AccountingInv /\ [AccountingNext]_accountingVars =>
          [\A c \in Charges :
             /\ txn[c].entry => txn'[c].entry
             /\ txn[c].status = "SYNCED" /\ txn'[c].status # "SYNCED" => excuse[c] > 0]_accountingVars
    BY SyncedStep
  <1> QED
    BY <1>1, AccountingInvariance, PTL DEF AccountingSpec, SyncedIsLasting
=============================================================================
