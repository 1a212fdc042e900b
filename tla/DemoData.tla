------------------------------ MODULE DemoData ------------------------------
(***************************************************************************)
(* The demo tenants: prisma/seed.ts, which fills the database by upserts,  *)
(* POST /demo/reset, which deletes both tenants and creates fewer rows     *)
(* anew, and POST /demo/simulate.  None of them is a transaction: a step   *)
(* is one statement, and seeds, resets and simulations may overlap or stop *)
(* in the middle.  A row stands for all the rows of its table that the two *)
(* programs treat alike.                                                   *)
(***************************************************************************)
EXTENDS Naturals, Sequences, FiniteSets

CONSTANTS
  Seeds, Resets,  \* runs of seed.ts and calls of resetDemo
  Sims,           \* calls of simulate
  DemoDeaths,     \* bound on runs that stop half way
  Starts          \* bound on seeds and resets

ASSUME DemoAssumption ==
  /\ Seeds \cap Resets = {} /\ (Seeds \cup Resets) \cap Sims = {}
  /\ DemoDeaths \in Nat /\ Starts \in Nat

VARIABLES
  rows,       \* the demo rows of the database
  prog,       \* seeds, resets and simulations
  demoDeaths, \* runs that were cut short
  crossed,    \* runs that another run has overlapped
  resetEver,  \* whether some reset has begun
  refused     \* resets whose delete the database refused

demoVars == <<rows, prog, demoDeaths, crossed, resetEver, refused>>

Programs == Seeds \cup Resets
Nobody == <<"none", "none">>

\* A statement: the row it is about, the tenant it belongs to, the row it
\* refers to and how it looks for a row that is there already.
St(table, key, of, by, ref) == [table |-> table, key |-> key, of |-> of, by |-> by, ref |-> ref]

SeedAcme ==
  << St("tenant", "acme", "acme", "key", "none"), St("user", "demo@acme", "acme", "key", "none") >>
SeedConnections == << St("connection", "stripe", "acme", "key", "none") >>
SeedPayments ==
  << St("sequence", "standard", "acme", "id", "none"), St("payment", "001", "acme", "key", "none"),
     St("payment", "004", "acme", "key", "none"), St("payment", "005", "acme", "key", "none") >>
SeedAttempts ==
  << St("attempt", "ra-001", "acme", "missing", "004"),
     St("attempt", "ra-003", "acme", "missing", "005") >>
SeedSaveFlow ==
  << St("offer", "discount", "acme", "id", "none"),
     St("cancellation", "saved", "acme", "missing", "discount") >>
SeedDisputes ==
  << St("dispute", "disp_001", "acme", "key", "none"),
     St("dispute", "disp_002", "acme", "key", "none"),
     St("bundle", "evidence", "acme", "missing", "disp_002") >>
SeedAccounting ==
  << St("account", "quickbooks", "acme", "key", "none"),
     St("txn", "stx-12", "acme", "key", "none") >>
SeedInvoices ==
  << St("template", "default", "acme", "id", "none"),
     St("invoice", "inv_001", "acme", "key", "default") >>
SeedWebhooks ==
  << St("webhook", "evt_demo", "acme", "key", "none") >>
SeedAlertRules ==
  << St("rule", "ar-001", "acme", "missing", "none") >>
SeedPixel ==
  << St("tenant", "pixel", "pixel", "key", "none"),
     St("user", "demo@pixel", "pixel", "key", "none"),
     St("dispute", "pdisp_001", "pixel", "key", "none") >>
SeedProgram ==
  SeedAcme \o SeedConnections \o SeedPayments \o SeedAttempts \o SeedSaveFlow \o SeedDisputes
  \o SeedAccounting \o SeedInvoices \o SeedWebhooks \o SeedAlertRules \o SeedPixel

ResetAcme ==
  << St("tenant", "acme", "acme", "new", "none"), St("user", "demo@acme", "acme", "new", "none"),
     St("connection", "stripe", "acme", "new", "none") >>
ResetPayments ==
  << St("sequence", "standard", "acme", "new", "none"),
     St("payment", "001", "acme", "new", "none"), St("payment", "004", "acme", "new", "none"),
     St("attempt", "ra-001", "acme", "new", "004") >>
ResetSaveFlow ==
  << St("offer", "discount", "acme", "new", "none"),
     St("cancellation", "saved", "acme", "new", "discount") >>
ResetDisputes ==
  << St("dispute", "disp_001", "acme", "new", "none"), St("txn", "stx-12", "acme", "new", "none") >>
ResetPixel ==
  << St("tenant", "pixel", "pixel", "new", "none"),
     St("user", "demo@pixel", "pixel", "new", "none") >>
ResetProgram == ResetAcme \o ResetPayments \o ResetSaveFlow \o ResetDisputes \o ResetPixel

Text(p) == IF p \in Seeds THEN SeedProgram ELSE ResetProgram

\* Rows.  'Unnamed' rows get an id of the database in the seed too.
Unnamed == {"tenant", "user", "connection", "account", "bundle"}
Keyed == {"tenant", "user", "connection", "payment", "dispute", "account", "txn", "invoice",
          "webhook"}
Global == {"tenant", "webhook"}
\* Made RECOVERING, OPEN or PENDING: what a simulation looks for.
OpenKeys == {"001", "disp_001", "pdisp_001", "stx-12"}

Tables == {SeedProgram[i].table : i \in DOMAIN SeedProgram}
TextKeys == {SeedProgram[i].key : i \in DOMAIN SeedProgram}
Keys == TextKeys \cup Sims
Ids == (Programs \cup Sims \cup {"seed", "none"}) \X (Keys \cup {"none"})
Row == [table : Tables, key : Keys, tenant : Ids, id : Ids, ref : Ids, open : BOOLEAN]
NoRow == [table |-> "none", id |-> Nobody]
Names == {"acme", "pixel"}

\* A run or a call is none of the names that stand in the programs.
ASSUME NamesAssumption ==
  /\ Sims \cap TextKeys = {} /\ (Programs \cup Sims) \cap {"seed", "none"} = {}

DemoTypeOK ==
  /\ rows \subseteq Row
  /\ DOMAIN prog = Programs \cup Sims
  /\ \A p \in Programs \cup Sims :
       /\ prog[p].pc \in {"idle", "delete", "at", "create", "write", "done", "error", "refused",
                         "rejected", "killed"}
       /\ prog[p].n \in Nat /\ prog[p].mine \in [Names -> Ids]
       /\ prog[p].found = NoRow \/ prog[p].found \in Row
  /\ demoDeaths \in 0..DemoDeaths
  /\ crossed \subseteq Programs \cup Sims /\ resetEver \in BOOLEAN /\ refused \subseteq Resets

DemoInit ==
  /\ rows = {}
  /\ prog = [p \in Programs \cup Sims |->
       [pc |-> "idle", n |-> 1, mine |-> [o \in Names |-> Nobody], found |-> NoRow]]
  /\ demoDeaths = 0 /\ crossed = {} /\ resetEver = FALSE /\ refused = {}

Active(p) == prog[p].pc \in {"delete", "at", "create", "write"}
Running == {p \in Programs \cup Sims : Active(p)}
MayStart(p) ==
  prog[p].pc = "idle" /\ Cardinality({q \in Programs : prog[q].pc # "idle"}) < Starts
\* p begins: programs overlap each other and the simulations.
Overlap(p) ==
  crossed \cup (IF p \in Programs THEN Running ELSE {})
          \cup (IF Running \cap Programs = {} THEN {} ELSE {p})

-----------------------------------------------------------------------------
\* One statement of a program.

\* Mutated: every row gets an id of the database.
IdFresh(p, table, key) == <<p, key>>
\* The id a row gets: a literal of seed.ts, or one the database generates.
Id(p, table, key) ==
  IF p \in Seeds /\ table \notin Unnamed THEN <<"seed", key>> ELSE <<p, key>>

RefTable == [attempt |-> "payment", cancellation |-> "offer", bundle |-> "dispute",
             invoice |-> "template"]
\* seed.ts names the row it refers to by the literal id, resetDemo by the id it was given.
Ref(p, s) == IF s.ref = "none" THEN Nobody ELSE Id(p, RefTable[s.table], s.ref)

NewRow(p, s) ==
  LET id == Id(p, s.table, s.key) IN
  [table |-> s.table, key |-> s.key, id |-> id, ref |-> Ref(p, s), open |-> s.key \in OpenKeys,
   tenant |-> IF s.table = "tenant" THEN id ELSE prog[p].mine[s.of]]

\* Mutated: any row of the table will do.
FoundAny(p, s) ==
  {r \in rows : r.table = s.table /\ r.tenant = prog[p].mine[s.of]
                /\ (s.by \in {"id", "missing"} \/ r.key = s.key)}

\* The rows an upsert, findUnique or findFirst finds.
Found(p, s) ==
  {r \in rows : r.table = s.table
     /\ IF s.table = "bundle" THEN r.tenant = prog[p].mine[s.of] /\ r.ref = Ref(p, s)
        ELSE IF s.by \in {"id", "missing"} THEN r.id = Id(p, s.table, s.key)
        ELSE r.key = s.key /\ (s.table \in Global \/ r.tenant = prog[p].mine[s.of])}

\* Unique columns and foreign keys (schema.prisma).
Conflict(a, b) ==
  /\ a.table = b.table
  /\ \/ a.id = b.id
     \/ a.table \in Keyed /\ a.key = b.key /\ (a.table \in Global \/ a.tenant = b.tenant)
Refers(r) ==
  /\ r.table = "tenant" \/ \E t \in rows : t.table = "tenant" /\ t.id = r.tenant
  /\ r.ref = Nobody \/ \E q \in rows : q.table = RefTable[r.table] /\ q.id = r.ref
Accepted(r) == Refers(r) /\ \A q \in rows : ~ Conflict(r, q)

\* The statement is done: the program goes on, or ends.  The id of a tenant is kept.
Advance(p, s, id) ==
  prog' = [prog EXCEPT ![p].n = prog[p].n + 1,
                       ![p].pc = IF prog[p].n = Len(Text(p)) THEN "done" ELSE "at",
                       ![p].mine[s.of] = IF s.table = "tenant" THEN id ELSE prog[p].mine[s.of]]
Abort(p) == prog' = [prog EXCEPT ![p].pc = "error", ![p].found = NoRow]

Create(p, s) ==
  LET r == NewRow(p, s) IN
  IF Accepted(r) THEN rows' = rows \cup {r} /\ Advance(p, s, r.id)
                 ELSE rows' = rows /\ Abort(p)

-----------------------------------------------------------------------------
\* main: after the password has been hashed.
StartSeed(p) ==
  /\ p \in Seeds /\ MayStart(p)
  /\ prog' = [prog EXCEPT ![p].pc = "at"]
  /\ crossed' = Overlap(p)
  /\ UNCHANGED <<rows, demoDeaths, resetEver, refused>>

\* upsert (found rows are left as they are) and, for a reset, create.
Statement(p) ==
  LET s == Text(p)[prog[p].n] IN
  /\ prog[p].pc = "at" /\ s.by # "missing"
  /\ \/ \E r \in Found(p, s) : s.by # "new" /\ Advance(p, s, r.id) /\ UNCHANGED rows
     \/ (s.by = "new" \/ Found(p, s) = {}) /\ Create(p, s)
  /\ UNCHANGED <<demoDeaths, crossed, resetEver, refused>>

\* findUnique or findFirst, and the create that follows if nothing was found.
LookFor(p) ==
  LET s == Text(p)[prog[p].n] IN
  /\ prog[p].pc = "at" /\ s.by = "missing"
  /\ IF Found(p, s) # {} THEN Advance(p, s, Nobody)
                         ELSE prog' = [prog EXCEPT ![p].pc = "create"]
  /\ UNCHANGED <<rows, demoDeaths, crossed, resetEver, refused>>

CreateMissing(p) ==
  /\ prog[p].pc = "create"
  /\ Create(p, Text(p)[prog[p].n])
  /\ UNCHANGED <<demoDeaths, crossed, resetEver, refused>>

StartReset(p) ==
  /\ p \in Resets /\ MayStart(p)
  /\ prog' = [prog EXCEPT ![p].pc = "delete"]
  /\ crossed' = Overlap(p) /\ resetEver' = TRUE
  /\ UNCHANGED <<rows, demoDeaths, refused>>

\* Mutated: the second tenant stays.
DeleteAcme(p) ==
  LET gone == {r.id : r \in {r \in rows : r.table = "tenant" /\ r.key = "acme"}} IN
  /\ prog[p].pc = "delete"
  /\ rows' = {r \in rows : r.tenant \notin gone}
  /\ prog' = [prog EXCEPT ![p].pc = "at"]
  /\ UNCHANGED <<demoDeaths, crossed, resetEver, refused>>

\* deleteMany of both tenants, with all their rows.  A generated invoice holds
\* on to its template: whether that refuses the cascade depends on the order
\* in which the database created the constraints.
DeleteTenants(p) ==
  /\ prog[p].pc = "delete"
  /\ \/ /\ rows' = {} /\ refused' = refused
        /\ prog' = [prog EXCEPT ![p].pc = "at"]
     \/ /\ \E r \in rows : r.table = "invoice"
        /\ Abort(p) /\ refused' = refused \cup {p} /\ rows' = rows
  /\ UNCHANGED <<demoDeaths, crossed, resetEver>>

\* The process of the seed, or of the request, ends.
Killed(p) ==
  /\ p \in Programs /\ Active(p)
  /\ demoDeaths < DemoDeaths /\ demoDeaths' = demoDeaths + 1
  /\ prog' = [prog EXCEPT ![p].pc = "killed"]
  /\ UNCHANGED <<rows, crossed, resetEver, refused>>

-----------------------------------------------------------------------------
\* simulate, for a tenant id of the tenants table, or for none: then the lookups
\* are of all tenants.

TenantIds == {r.id : r \in {r \in rows : r.table = "tenant"}}
SimRow(p, t, table, ref) ==
  [table |-> table, key |-> p, tenant |-> t, id |-> <<p, p>>, ref |-> ref, open |-> TRUE]

\* recovery-email, dispute-won and accounting-sync look for a row of the tenant
\* in the status they want, and answer 404 if there is none.
SimulateLook(p) ==
  /\ prog[p].pc = "idle" /\ crossed' = Overlap(p)
  /\ \E t \in TenantIds \cup {Nobody} : \E table \in {"payment", "dispute", "txn"} :
       LET wanted == {r \in rows : r.table = table /\ r.open /\ t \in {Nobody, r.tenant}} IN
       /\ t # Nobody \/ table # "payment"
       /\ \/ \E r \in wanted : prog' = [prog EXCEPT ![p].pc = "write", ![p].found = r]
          \/ wanted = {} /\ prog' = [prog EXCEPT ![p].pc = "refused"]
  /\ UNCHANGED <<rows, demoDeaths, resetEver, refused>>

\* recovery-email adds an attempt to the payment, the others close the row
\* they have read; both fail if it is gone.
SimulateWrite(p) ==
  LET r == prog[p].found
      hit == {q \in rows : q.table = r.table /\ q.id = r.id}
      attempt == SimRow(p, r.tenant, "attempt", r.id)
      closed == {[q EXCEPT !.open = FALSE] : q \in hit} IN
  /\ prog[p].pc = "write"
  /\ IF IF r.table = "payment" THEN ~ Accepted(attempt) ELSE hit = {}
     THEN rows' = rows /\ Abort(p)
     ELSE /\ rows' = IF r.table = "payment" THEN rows \cup {attempt}
                                            ELSE (rows \ hit) \cup closed
          /\ prog' = [prog EXCEPT ![p].pc = "done", ![p].found = NoRow]
  /\ UNCHANGED <<demoDeaths, crossed, resetEver, refused>>

\* failed-payment and webhook-failure.
SimulateCreate(p) ==
  /\ prog[p].pc = "idle"
  /\ \E t \in TenantIds : \E table \in {"payment", "webhook"} :
       rows' = rows \cup {SimRow(p, t, table, Nobody)}
  /\ prog' = [prog EXCEPT ![p].pc = "done"]
  /\ UNCHANGED <<demoDeaths, crossed, resetEver, refused>>

\* The same, rejected by the database: the id given is of no tenant (any more), or
\* another simulation made such a row in the millisecond by which both are named.
SimulateRejected(p) ==
  /\ prog[p].pc = "idle" /\ prog' = [prog EXCEPT ![p].pc = "rejected"]
  /\ UNCHANGED <<rows, demoDeaths, crossed, resetEver, refused>>

\* A simulation that creates a row, without a tenant id.
SimulateRefused(p) ==
  /\ prog[p].pc = "idle" /\ prog' = [prog EXCEPT ![p].pc = "refused"]
  /\ UNCHANGED <<rows, demoDeaths, crossed, resetEver, refused>>

DemoNext ==
  \/ \E p \in Programs :
       StartSeed(p) \/ StartReset(p) \/ DeleteTenants(p) \/ Statement(p) \/ LookFor(p)
       \/ CreateMissing(p) \/ Killed(p)
  \/ \E p \in Sims : SimulateLook(p) \/ SimulateWrite(p) \/ SimulateCreate(p)
       \/ SimulateRejected(p) \/ SimulateRefused(p)

DemoSpec == DemoInit /\ [][DemoNext]_demoVars

-----------------------------------------------------------------------------
(* Properties.                                                             *)

Live(t) == \E r \in rows : r.table = "tenant" /\ r.id = t

\* A seed or reset that reports success has left every row of its program in
\* the tenants it worked on, as long as these exist, whatever overlapped it
\* (the lookups of main by id, by unique key and by tenant).
SucceededIsWhole ==
  \A p \in Programs : prog[p].pc = "done" =>
    \A i \in DOMAIN Text(p) : LET s == Text(p)[i] IN
      Live(prog[p].mine[s.of]) =>
        \E r \in rows : r.table = s.table /\ r.key = s.key /\ r.tenant = prog[p].mine[s.of]

\* A reset that runs alone repairs whatever earlier runs have left half done,
\* a seed that runs alone does so where no reset has ever begun, and a simulation
\* that has found its row fails to write only when a program starts under it (main,
\* resetDemo, simulateRecoveryEmail, simulateDisputeWon, simulateAccountingSync).
FailedHasReason ==
  \A p \in Programs \cup Sims : prog[p].pc = "error" =>
    p \in crossed \cup refused \/ (p \in Seeds /\ resetEver)

\* Seeds, overlapping or cut short as they may be, never double a row, save the
\* evidence bundle, which has neither a fixed id nor a unique key, when they
\* overlap (main; after a reset the rows it made without these ids are doubled).
SeedsNeverDouble ==
  \A a, b \in rows : a.table = b.table /\ a.key = b.key =>
    a = b \/ resetEver \/ (a.table = "bundle" /\ Seeds \cap crossed # {})
=============================================================================
