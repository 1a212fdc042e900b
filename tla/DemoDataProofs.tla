---------------------------- MODULE DemoDataProofs ----------------------------
(* Theorems of DemoData, for every value of its constants. *)
EXTENDS DemoData, TLAPS

\* The statement about a key: the key tells its table, its tenant and what it refers to.
Lines == {SeedProgram[i] : i \in 1..Len(SeedProgram)}
Line(k) == CHOOSE s \in Lines : s.key = k

Actors == Programs \cup Sims
Pcs == {"idle", "delete", "at", "create", "write", "done", "error", "refused", "rejected", "killed"}
ProgState == [pc : Pcs, n : Nat, mine : [Names -> Ids], found : Row \cup {NoRow}]

\* The statement p is at, and the keys of those it has done.
At(p) == Text(p)[prog[p].n]
Before(p, n) == {Text(p)[i].key : i \in 1..(n - 1)}
Past(p) == Before(p, prog[p].n)

(* The rows. *)

\* The id of a row names who made it; what seeds have named, they have named alike.
RowOK(r) ==
  /\ r \in Row
  /\ r.key \in Sims => r.id = <<r.key, r.key>> /\ r.table \in {"payment", "webhook", "attempt"}
  /\ r.key \notin Sims =>
       /\ r.table = Line(r.key).table
       /\ \E q \in Programs \cup {"seed"} :
            /\ r.id = <<q, r.key>>
            /\ q \in Seeds => r.table \in Unnamed
            /\ q = "seed" => r.table \notin Unnamed
  /\ r.table = "tenant" => r.tenant = r.id
  /\ r.table = "bundle" => r.ref = <<"seed", "disp_002">>

\* A row lies in a tenant that lives, a row of the programs in that of its line.
Homed(r) == \E t \in rows :
  /\ t.table = "tenant" /\ t.id = r.tenant /\ (r.key \notin Sims => t.key = Line(r.key).of)

RowsInv ==
  /\ \A r \in rows : RowOK(r) /\ Homed(r)
  /\ \A a, b \in rows : Conflict(a, b) => a = b

(* The programs. *)

\* Where a program stands.
PcOK(p) ==
  /\ prog[p].n \in 1..(Len(Text(p)) + 1)
  /\ prog[p].pc \in {"idle", "delete"} => prog[p].n = 1
  /\ prog[p].pc = "delete" => p \in Resets
  /\ prog[p].pc \in {"at", "create"} => prog[p].n <= Len(Text(p))
  /\ prog[p].pc = "create" => At(p).by = "missing"
  /\ prog[p].pc = "done" => prog[p].n = Len(Text(p)) + 1
  /\ prog[p].pc # "write"

LiveIn(R, id) == \E r \in R : r.table = "tenant" /\ r.id = id
HasRow(R, k, id) == \E r \in R : r.key = k /\ r.tenant = id

\* The tenants a program works on are ones that were made, by it or by another.
MineOK(p) == \A o \in Names :
  /\ prog[p].mine[o] = Nobody \/ \E q \in Programs : prog[p].mine[o] = <<q, o>> /\ o \in Past(q)
  /\ o \in Past(p) => prog[p].mine[o] # Nobody

\* What a program has done so far it finds in its tenants, while they live.
WorkOK(p) == \A k \in Past(p) :
  LiveIn(rows, prog[p].mine[Line(k).of]) => HasRow(rows, k, prog[p].mine[Line(k).of])

\* A run or a call has been past what bears its name.
MakersPast ==
  /\ \A r \in rows : \A q \in Programs : r.id = <<q, r.key>> => r.key \in Past(q)
  /\ \A r \in rows : r.key \in Sims => prog[r.key].pc = "done"

SimOK(p) ==
  /\ prog[p].pc \notin {"delete", "at", "create"}
  /\ prog[p].pc = "write" =>
       prog[p].found \in Row /\ prog[p].found.table \in {"payment", "dispute", "txn"}

ProgsInv ==
  /\ \A p \in Programs : PcOK(p) /\ MineOK(p) /\ WorkOK(p)
  /\ \A p \in Sims : SimOK(p)
  /\ MakersPast

(* Who is alone. *)

\* Two programs at a time, or a simulation beside a program, are on record.
CrossedInv ==
  /\ \A p, q \in Programs : Active(p) /\ Active(q) /\ p # q => p \in crossed
  /\ \A p \in Programs, q \in Sims : Active(p) /\ Active(q) => q \in crossed

\* The tenants of a program live that nobody has deleted.
Standing(p) == \A o \in Names : o \in Past(p) => LiveIn(rows, prog[p].mine[o])

\* Before any reset.
Pristine == ~ resetEver => \A p \in Programs : Standing(p) /\ (p \in Resets => prog[p].pc = "idle")

\* A program alone: a seed's row is still missing, a reset has all there is to itself.
AloneOK(p) ==
  /\ prog[p].pc = "create" => Found(p, At(p)) = {}
  /\ p \in Resets /\ prog[p].pc = "at" =>
       Standing(p) /\ \A r \in rows : r.key \in Sims \/ r.id = <<p, r.key>>

\* A simulation without a program: the row it has read is still there.
CallOK(p) == prog[p].pc = "write" =>
  \E q \in rows : /\ q.table = prog[p].found.table /\ q.id = prog[p].found.id
                  /\ q.tenant = prog[p].found.tenant

OneBundle == ~ resetEver /\ Seeds \cap crossed = {} =>
  \A a, b \in rows : a.table = "bundle" /\ b.table = "bundle" => a = b

AloneInv ==
  /\ Pristine /\ OneBundle
  /\ \A p \in Programs \ crossed : AloneOK(p)
  /\ \A p \in Sims \ crossed : CallOK(p)

Typed ==
  /\ prog \in [Actors -> ProgState] /\ demoDeaths \in 0..DemoDeaths
  /\ crossed \subseteq Actors /\ resetEver \in BOOLEAN /\ refused \subseteq Resets

DemoInv ==
  Typed /\ RowsInv /\ ProgsInv /\ CrossedInv /\ AloneInv /\ FailedHasReason
-----------------------------------------------------------------------------
(* The texts of the programs, statement by statement. *)

USE DEF SeedProgram, SeedAcme, SeedConnections, SeedPayments, SeedAttempts, SeedSaveFlow,
  SeedDisputes, SeedAccounting, SeedInvoices, SeedWebhooks, SeedAlertRules, SeedPixel,
  ResetProgram, ResetAcme, ResetPayments, ResetSaveFlow, ResetDisputes, ResetPixel, St

LEMMA Lengths ==
  /\ Len(SeedProgram) = 23 /\ DOMAIN SeedProgram = 1..23
  /\ Len(ResetProgram) = 13 /\ DOMAIN ResetProgram = 1..13
OBVIOUS

\* The order of the seed: a key comes once, after its tenant and after what it refers to.
LEMMA SeedKeys == \A i, j \in 1..23 : SeedProgram[j].key = SeedProgram[i].key => j = i
BY SMTT(60)

LEMMA SeedTenants ==
  \A i \in 1..23 : SeedProgram[i].table # "tenant" =>
    \E j \in 1..(i - 1) : SeedProgram[j].key = SeedProgram[i].of
<1>1. \A i \in 1..23 : SeedProgram[i].table # "tenant" =>
        /\ SeedProgram[i].of = "acme" => i > 1
        /\ SeedProgram[i].of = "pixel" => i > 21
  BY SMTT(60)
<1>2. \A i \in 1..23 : SeedProgram[i].of \in {"acme", "pixel"} BY SMTT(60)
<1>3. SeedProgram[1].key = "acme" /\ SeedProgram[21].key = "pixel" OBVIOUS
<1> HIDE DEF SeedProgram
<1> QED BY <1>1, <1>2, <1>3

LEMMA SeedRefs ==
  \A i \in 1..23 : SeedProgram[i].ref # "none" =>
    \E j \in 1..(i - 1) : SeedProgram[j].key = SeedProgram[i].ref
<1>1. \A i \in 1..23 : SeedProgram[i].ref # "none" => i \in {8, 9, 11, 14, 18} BY SMTT(60)
<1>2. /\ SeedProgram[8].ref = SeedProgram[6].key /\ SeedProgram[9].ref = SeedProgram[7].key
      /\ SeedProgram[11].ref = SeedProgram[10].key /\ SeedProgram[14].ref = SeedProgram[13].key
      /\ SeedProgram[18].ref = SeedProgram[17].key
  OBVIOUS
<1> HIDE DEF SeedProgram
<1> SUFFICES ASSUME NEW i \in 1..23, SeedProgram[i].ref # "none"
             PROVE  \E j \in 1..(i - 1) : SeedProgram[j].key = SeedProgram[i].ref
  OBVIOUS
<1>3. i \in {8, 9, 11, 14, 18} BY <1>1
<1>4. /\ 6 \in 1..(8 - 1) /\ 7 \in 1..(9 - 1) /\ 10 \in 1..(11 - 1) /\ 13 \in 1..(14 - 1)
      /\ 17 \in 1..(18 - 1)
  OBVIOUS
<1> QED BY <1>2, <1>3, <1>4

\* What a statement of the seed refers to is of the right table and in the same tenant.
LEMMA SeedTargets ==
  \A i, j \in 1..23 : SeedProgram[j].key = SeedProgram[i].ref =>
    /\ SeedProgram[j].of = SeedProgram[i].of
    /\ SeedProgram[i].table = "attempt" => SeedProgram[j].table = "payment"
    /\ SeedProgram[i].table = "cancellation" => SeedProgram[j].table = "offer"
    /\ SeedProgram[i].table = "bundle" => SeedProgram[j].table = "dispute"
    /\ SeedProgram[i].table = "invoice" => SeedProgram[j].table = "template"
BY SMTT(60)

LEMMA SeedReferring ==
  \A i \in 1..23 : SeedProgram[i].ref # "none" =>
    SeedProgram[i].table \in {"attempt", "cancellation", "bundle", "invoice"}
BY SMTT(60)

\* How the seed looks for its rows.
LEMMA SeedNames ==
  \A i \in 1..23 :
    /\ SeedProgram[i].of \in {"acme", "pixel"}
    /\ SeedProgram[i].table = "tenant" => SeedProgram[i].key = SeedProgram[i].of
    /\ SeedProgram[i].key \in {"acme", "pixel"} => SeedProgram[i].table = "tenant"
    /\ SeedProgram[i].table = "bundle" =>
         /\ SeedProgram[i].of = "acme" /\ SeedProgram[i].ref = "disp_002"
         /\ SeedProgram[i].key = "evidence"
<1>1. \A i \in 1..23 : SeedProgram[i].of \in {"acme", "pixel"}
  BY SMTT(60)
<1>2. \A i \in 1..23 : SeedProgram[i].table = "tenant" => SeedProgram[i].key = SeedProgram[i].of
  BY SMTT(60)
<1>3. \A i \in 1..23 : SeedProgram[i].key \in {"acme", "pixel"} => SeedProgram[i].table = "tenant"
  BY SMTT(60)
<1>4. \A i \in 1..23 : SeedProgram[i].table = "bundle" => i = 14 BY SMTT(60)
<1>5. /\ SeedProgram[14].of = "acme" /\ SeedProgram[14].ref = "disp_002"
      /\ SeedProgram[14].key = "evidence"
  OBVIOUS
<1> HIDE DEF SeedProgram
<1> QED BY <1>1, <1>2, <1>3, <1>4, <1>5

LEMMA SeedKinds ==
  \A i \in 1..23 :
    /\ SeedProgram[i].by \in {"key", "id", "missing"}
    /\ (SeedProgram[i].by = "key") <=> (SeedProgram[i].table \in Keyed)
    /\ SeedProgram[i].by = "id" => SeedProgram[i].table \notin Unnamed
    /\ SeedProgram[i].by = "missing" =>
         SeedProgram[i].table \notin Unnamed \/ SeedProgram[i].table = "bundle"
    /\ SeedProgram[i].table = "bundle" => SeedProgram[i].by = "missing"
<1>1. \A i \in 1..23 : SeedProgram[i].by \in {"key", "id", "missing"} BY SMTT(60)
<1>2. \A i \in 1..23 : SeedProgram[i].by = "key" => SeedProgram[i].table \in Keyed
  BY SMTT(60) DEF Keyed
<1>3. \A i \in 1..23 : SeedProgram[i].by # "key" => SeedProgram[i].table \notin Keyed
  BY SMTT(60) DEF Keyed
<1>4. \A i \in 1..23 : SeedProgram[i].by # "key" =>
        SeedProgram[i].table \notin Unnamed \/ i = 14
  BY SMTT(60) DEF Unnamed
<1>5. \A i \in 1..23 : SeedProgram[i].table = "bundle" => i = 14 BY SMTT(60)
<1>6. SeedProgram[14].by = "missing" /\ SeedProgram[14].table = "bundle" OBVIOUS
<1> HIDE DEF SeedProgram
<1> QED BY <1>1, <1>2, <1>3, <1>4, <1>5, <1>6

\* The order of the reset is the same, and all it writes the seed writes too.
LEMMA ResetKeys == \A i, j \in 1..13 : ResetProgram[j].key = ResetProgram[i].key => j = i
BY SMTT(60)

LEMMA ResetTenants ==
  \A i \in 1..13 : ResetProgram[i].table # "tenant" =>
    \E j \in 1..(i - 1) : ResetProgram[j].key = ResetProgram[i].of
BY SMTT(60)

LEMMA ResetRefs ==
  \A i \in 1..13 : ResetProgram[i].ref # "none" =>
    \E j \in 1..(i - 1) : ResetProgram[j].key = ResetProgram[i].ref
BY SMTT(60)

LEMMA ResetKinds == \A i \in 1..13 : ResetProgram[i].by = "new" /\ ResetProgram[i].table # "bundle"
BY SMTT(60)

LEMMA ResetLines ==
  \A i \in 1..13 : \E j \in 1..23 :
    /\ SeedProgram[j].key = ResetProgram[i].key /\ SeedProgram[j].table = ResetProgram[i].table
    /\ SeedProgram[j].of = ResetProgram[i].of /\ SeedProgram[j].ref = ResetProgram[i].ref
<1> DEFINE J == <<1, 2, 3, 4, 5, 6, 8, 10, 11, 12, 16, 21, 22>>
<1>1. \A i \in 1..13 : J[i] \in 1..23 OBVIOUS
<1>2. \A i \in 1..13 : SeedProgram[J[i]].key = ResetProgram[i].key BY SMTT(60)
<1>3. \A i \in 1..13 : SeedProgram[J[i]].table = ResetProgram[i].table BY SMTT(60)
<1>4. \A i \in 1..13 : SeedProgram[J[i]].of = ResetProgram[i].of BY SMTT(60)
<1>5. \A i \in 1..13 : SeedProgram[J[i]].ref = ResetProgram[i].ref BY SMTT(60)
<1> HIDE DEF J, SeedProgram, ResetProgram
<1> QED BY <1>1, <1>2, <1>3, <1>4, <1>5

HIDE DEF SeedProgram, SeedAcme, SeedConnections, SeedPayments, SeedAttempts, SeedSaveFlow,
  SeedDisputes, SeedAccounting, SeedInvoices, SeedWebhooks, SeedAlertRules, SeedPixel,
  ResetProgram, ResetAcme, ResetPayments, ResetSaveFlow, ResetDisputes, ResetPixel, St
-----------------------------------------------------------------------------
Steps(p) == 1..Len(Text(p))

\* A key has one line.
LEMMA LineOf ==
  \A i \in 1..23 :
    SeedProgram[i].key \in TextKeys /\ Line(SeedProgram[i].key) = SeedProgram[i]
<1> TAKE i \in 1..23
<1>1. SeedProgram[i] \in Lines BY Lengths DEF Lines
<1>2. \A t \in Lines : t.key = SeedProgram[i].key => t = SeedProgram[i]
  BY Lengths, SeedKeys DEF Lines
<1>3. Line(SeedProgram[i].key) = SeedProgram[i] BY <1>1, <1>2 DEF Line
<1>4. SeedProgram[i].key \in TextKeys BY Lengths DEF TextKeys
<1> QED BY <1>3, <1>4

LEMMA KeyOf == \A k \in TextKeys : \E i \in 1..23 : k = SeedProgram[i].key
BY Lengths DEF TextKeys

LEMMA LineFacts ==
  ASSUME NEW k \in TextKeys
  PROVE  /\ Line(k).table \in Tables /\ Line(k).of \in Names
         /\ Line(k).table = "tenant" => Line(k).of = k
         /\ k \in Names => (Line(k).table = "tenant" /\ Line(k).of = k)
         /\ Line(k).table = "bundle" =>
              k = "evidence" /\ Line(k).of = "acme" /\ Line(k).ref = "disp_002"
<1>1. PICK i \in 1..23 : k = SeedProgram[i].key BY KeyOf
<1>2. Line(k) = SeedProgram[i] BY <1>1, LineOf
<1>3. SeedProgram[i].table \in Tables BY Lengths DEF Tables
<1> QED BY <1>1, <1>2, <1>3, SeedNames DEF Names

LEMMA LineRefs ==
  ASSUME NEW k \in TextKeys, Line(k).ref # "none"
  PROVE  /\ Line(k).ref \in TextKeys
         /\ Line(Line(k).ref).table = RefTable[Line(k).table]
         /\ Line(Line(k).ref).of = Line(k).of
         /\ RefTable[Line(k).table] \notin Unnamed
<1>1. PICK i \in 1..23 : k = SeedProgram[i].key BY KeyOf
<1>2. Line(k) = SeedProgram[i] BY <1>1, LineOf
<1>3. PICK j \in 1..(i - 1) : SeedProgram[j].key = SeedProgram[i].ref BY <1>2, SeedRefs
<1>4. j \in 1..23 BY <1>3
<1>5. Line(SeedProgram[i].ref) = SeedProgram[j] /\ SeedProgram[j].key \in TextKeys
  BY <1>3, <1>4, LineOf
<1>6. SeedProgram[i].table \in {"attempt", "cancellation", "bundle", "invoice"}
  BY <1>2, SeedReferring
<1>7. /\ SeedProgram[j].of = SeedProgram[i].of
      /\ SeedProgram[i].table = "attempt" => SeedProgram[j].table = "payment"
      /\ SeedProgram[i].table = "cancellation" => SeedProgram[j].table = "offer"
      /\ SeedProgram[i].table = "bundle" => SeedProgram[j].table = "dispute"
      /\ SeedProgram[i].table = "invoice" => SeedProgram[j].table = "template"
  BY <1>3, <1>4, SeedTargets, Zenon
<1>8. /\ RefTable["attempt"] = "payment" /\ RefTable["cancellation"] = "offer"
      /\ RefTable["bundle"] = "dispute" /\ RefTable["invoice"] = "template"
  BY DEF RefTable
<1>9. SeedProgram[j].table = RefTable[SeedProgram[i].table] BY <1>6, <1>7, <1>8
<1>10. RefTable[SeedProgram[i].table] \notin Unnamed BY <1>6, <1>8 DEF Unnamed
<1> QED BY <1>2, <1>3, <1>5, <1>7, <1>9, <1>10

LEMMA ReferringTables ==
  ASSUME NEW k \in TextKeys, Line(k).ref # "none"
  PROVE  Line(k).table \in {"attempt", "cancellation", "bundle", "invoice"}
BY KeyOf, LineOf, SeedReferring

\* A statement of either program is about its line.
LEMMA TextLines ==
  ASSUME NEW p \in Programs, NEW i \in Steps(p)
  PROVE  LET s == Text(p)[i] IN
         /\ s.key \in TextKeys /\ s.table = Line(s.key).table
         /\ s.of = Line(s.key).of /\ s.ref = Line(s.key).ref
<1>1. CASE p \in Seeds BY <1>1, LineOf, Lengths DEF Text, Steps
<1>2. CASE p \notin Seeds
  <2>1. PICK j \in 1..23 :
          /\ SeedProgram[j].key = Text(p)[i].key /\ SeedProgram[j].table = Text(p)[i].table
          /\ SeedProgram[j].of = Text(p)[i].of /\ SeedProgram[j].ref = Text(p)[i].ref
    BY <1>2, ResetLines, Lengths, Zenon DEF Text, Steps
  <2> QED BY <2>1, LineOf
<1> QED BY <1>1, <1>2

\* Their order.
LEMMA TextOrder ==
  ASSUME NEW p \in Programs, NEW i \in Steps(p)
  PROVE  /\ \A j \in Steps(p) : Text(p)[j].key = Text(p)[i].key => j = i
         /\ Text(p)[i].table # "tenant" => \E j \in 1..(i - 1) : Text(p)[j].key = Text(p)[i].of
         /\ Text(p)[i].ref # "none" => \E j \in 1..(i - 1) : Text(p)[j].key = Text(p)[i].ref
<1>1. CASE p \in Seeds
  BY <1>1, SeedKeys, SeedTenants, SeedRefs, Lengths DEF Text, Steps
<1>2. CASE p \notin Seeds
  BY <1>2, ResetKeys, ResetTenants, ResetRefs, Lengths DEF Text, Steps
<1> QED BY <1>1, <1>2

LEMMA TextLength == \A p \in Programs : Len(Text(p)) \in Nat \ {0} /\ DOMAIN Text(p) = Steps(p)
<1> TAKE p \in Programs
<1>1. Text(p) = SeedProgram \/ Text(p) = ResetProgram BY DEF Text
<1>2. CASE Text(p) = SeedProgram
  <2>1. Len(Text(p)) = 23 /\ DOMAIN Text(p) = 1..23 BY <1>2, Lengths
  <2> QED BY <2>1 DEF Steps
<1>3. CASE Text(p) = ResetProgram
  <2>1. Len(Text(p)) = 13 /\ DOMAIN Text(p) = 1..13 BY <1>3, Lengths
  <2> QED BY <2>1 DEF Steps
<1> QED BY <1>1, <1>2, <1>3

(* What a program has done, as a set of keys. *)

LEMMA BeforeFacts ==
  ASSUME NEW p \in Programs, NEW n \in 1..(Len(Text(p)) + 1)
  PROVE  /\ Before(p, n) \subseteq TextKeys
         /\ n = 1 => Before(p, n) = {}
         /\ n \in Steps(p) => Before(p, n + 1) = Before(p, n) \cup {Text(p)[n].key}
         /\ n = Len(Text(p)) + 1 => \A i \in Steps(p) : Text(p)[i].key \in Before(p, n)
<1>0. Len(Text(p)) \in Nat BY TextLength
<1>1. Before(p, n) \subseteq TextKeys
  <2> SUFFICES ASSUME NEW i \in 1..(n - 1) PROVE Text(p)[i].key \in TextKeys BY DEF Before
  <2>1. i \in Steps(p) BY <1>0 DEF Steps
  <2> QED BY <2>1, TextLines
<1>2. n = 1 => Before(p, n) = {} BY DEF Before
<1>3. n \in Steps(p) => 1..(n + 1 - 1) = 1..(n - 1) \cup {n} BY <1>0 DEF Steps
<1>4. n \in Steps(p) => Before(p, n + 1) = Before(p, n) \cup {Text(p)[n].key}
  BY <1>3 DEF Before
<1>5. n = Len(Text(p)) + 1 => \A i \in Steps(p) : Text(p)[i].key \in Before(p, n)
  BY <1>0 DEF Before, Steps
<1> QED BY <1>1, <1>2, <1>4, <1>5

\* The statement a program is at, beside what it has done.
LEMMA AtFacts ==
  ASSUME NEW p \in Programs, NEW n \in Steps(p), NEW s, s = Text(p)[n]
  PROVE  /\ s.key \in TextKeys /\ s.key \notin Before(p, n)
         /\ s.table = Line(s.key).table /\ s.of = Line(s.key).of /\ s.ref = Line(s.key).ref
         /\ s.table # "tenant" => s.of \in Before(p, n)
         /\ s.table = "tenant" => \A k \in Before(p, n) : Line(k).of # s.of
         /\ s.ref # "none" => s.ref \in Before(p, n)
<1>0. Len(Text(p)) \in Nat BY TextLength
<1>1. \A i \in 1..(n - 1) : i \in Steps(p) BY <1>0 DEF Steps
<1>2. /\ s.key \in TextKeys
      /\ s.table = Line(s.key).table /\ s.of = Line(s.key).of /\ s.ref = Line(s.key).ref
  BY TextLines
<1>3. s.key \notin Before(p, n)
  <2> SUFFICES ASSUME NEW i \in 1..(n - 1), Text(p)[i].key = s.key PROVE FALSE BY DEF Before
  <2>1. i = n BY <1>1, TextOrder
  <2> QED BY <2>1, <1>0 DEF Steps
<1>4. s.table # "tenant" => s.of \in Before(p, n) BY TextOrder DEF Before
<1>5. s.ref # "none" => s.ref \in Before(p, n) BY TextOrder DEF Before
<1>6. ASSUME s.table = "tenant", NEW k \in Before(p, n) PROVE Line(k).of # s.of
  <2> SUFFICES ASSUME Line(k).of = s.of PROVE FALSE OBVIOUS
  <2>0. s.key \in TextKeys /\ Line(s.key).table = "tenant" BY <1>2, <1>6
  <2>1. s.of = s.key BY <2>0, <1>2, LineFacts
  <2>2. PICK i \in 1..(n - 1) : k = Text(p)[i].key BY DEF Before
  <2>3. i \in Steps(p) /\ i < n BY <1>1, <1>0 DEF Steps
  <2>4. Text(p)[i].of = s.of /\ Text(p)[i].table = Line(k).table BY <2>2, <2>3, TextLines
  <2>5. CASE Text(p)[i].table = "tenant"
    <3>1. k = s.key BY <2>1, <2>2, <2>3, <2>4, <2>5, TextLines, LineFacts
    <3> QED BY <3>1, <1>3
  <2>6. CASE Text(p)[i].table # "tenant"
    <3>1. PICK j \in 1..(i - 1) : Text(p)[j].key = s.key BY <2>1, <2>3, <2>4, <2>6, TextOrder
    <3>2. j \in 1..(n - 1) BY <2>3, <3>1 DEF Steps
    <3> QED BY <3>1, <3>2, <1>3 DEF Before
  <2> QED BY <2>5, <2>6
<1> QED BY <1>2, <1>3, <1>4, <1>5, <1>6

\* How a statement looks for its row.
LEMMA ByFacts ==
  ASSUME NEW p \in Programs, NEW n \in Steps(p), NEW s, s = Text(p)[n]
  PROVE  /\ p \notin Seeds => (s.by = "new" /\ s.table # "bundle")
         /\ p \in Seeds =>
              /\ s.by \in {"key", "id", "missing"}
              /\ (s.by = "key") <=> (s.table \in Keyed)
              /\ s.by = "id" => s.table \notin Unnamed
              /\ s.by = "missing" => s.table \notin Unnamed \/ s.table = "bundle"
              /\ s.table = "bundle" => s.by = "missing"
<1>1. CASE p \in Seeds BY <1>1, SeedKinds, Lengths DEF Text, Steps
<1>2. CASE p \notin Seeds BY <1>2, ResetKinds, Lengths DEF Text, Steps
<1> QED BY <1>1, <1>2
-----------------------------------------------------------------------------
(* The rows. *)

LEMMA Disjoint ==
  /\ Seeds \cap Resets = {} /\ Programs \cap Sims = {} /\ Sims \cap TextKeys = {}
  /\ "seed" \notin Actors /\ "none" \notin Actors /\ Names \subseteq TextKeys
  /\ \A p \in Programs : p \notin Seeds <=> p \in Resets
<1>1. SeedProgram[1].key = "acme" /\ SeedProgram[21].key = "pixel"
  BY DEF SeedProgram, SeedAcme, SeedConnections, SeedPayments, SeedAttempts, SeedSaveFlow,
     SeedDisputes, SeedAccounting, SeedInvoices, SeedWebhooks, SeedAlertRules, SeedPixel, St
<1>2. Names \subseteq TextKeys BY <1>1, LineOf DEF Names
<1> QED BY <1>2, DemoAssumption, NamesAssumption DEF Programs, Actors

\* A row of the programs.
LEMMA TextRow ==
  ASSUME NEW r, RowOK(r), r.key \notin Sims
  PROVE  r.key \in TextKeys /\ r.table = Line(r.key).table
BY DEF RowOK, Row, Keys

LEMMA TenantRow ==
  ASSUME NEW t, RowOK(t), t.table = "tenant"
  PROVE  /\ t.key \in Names /\ t.key \notin Sims /\ t.tenant = t.id
         /\ \E q \in Programs : t.id = <<q, t.key>>
<1>1. t.key \notin Sims BY DEF RowOK
<1>2. t.key \in TextKeys /\ Line(t.key).table = "tenant" BY <1>1, TextRow
<1>3. t.key \in Names BY <1>2, LineFacts
<1>4. PICK q \in Programs \cup {"seed"} :
        t.id = <<q, t.key>> /\ (q = "seed" => t.table \notin Unnamed)
  BY <1>1 DEF RowOK
<1>5. "tenant" \in Unnamed BY DEF Unnamed
<1>6. q \in Programs BY <1>4, <1>5
<1> QED BY <1>1, <1>3, <1>4, <1>6 DEF RowOK

LEMMA OneTenant ==
  ASSUME RowsInv, NEW s \in rows, NEW t \in rows, s.table = "tenant", t.table = "tenant",
         s.key = t.key
  PROVE  s = t
BY DEF RowsInv, Conflict, Keyed, Global

\* The rows of a line lie in the one tenant of that line.
LEMMA Home ==
  ASSUME RowsInv, NEW r \in rows, r.key \notin Sims,
         NEW t \in rows, t.table = "tenant", t.key = Line(r.key).of
  PROVE  r.tenant = t.id
<1>1. PICK h \in rows : h.table = "tenant" /\ h.id = r.tenant /\ h.key = Line(r.key).of
  BY DEF RowsInv, Homed
<1> QED BY <1>1, OneTenant

LEMMA LiveTenant ==
  ASSUME RowsInv, NEW q, NEW o, LiveIn(rows, <<q, o>>)
  PROVE  \E t \in rows : t.table = "tenant" /\ t.id = <<q, o>> /\ t.key = o
<1>1. PICK t \in rows : t.table = "tenant" /\ t.id = <<q, o>> BY DEF LiveIn
<1>2. PICK x \in Programs : t.id = <<x, t.key>> BY <1>1, TenantRow DEF RowsInv
<1> QED BY <1>1, <1>2

LEMMA LiveLine ==
  ASSUME RowsInv, NEW id, LiveIn(rows, id), NEW o, \E q \in Programs : id = <<q, o>>
  PROVE  \E t \in rows : t.table = "tenant" /\ t.id = id /\ t.key = o
BY LiveTenant

LEMMA LiveHome ==
  ASSUME RowsInv, NEW q, NEW o, LiveIn(rows, <<q, o>>), NEW r \in rows, r.key \notin Sims,
         Line(r.key).of = o
  PROVE  r.tenant = <<q, o>>
BY LiveTenant, Home

LEMMA NobodyIsDead == RowsInv => ~ LiveIn(rows, Nobody)
<1> SUFFICES ASSUME RowsInv, LiveIn(rows, Nobody) PROVE FALSE OBVIOUS
<1>1. PICK t \in rows : t.table = "tenant" /\ t.id = Nobody BY DEF LiveIn
<1>2. PICK x \in Programs : t.id = <<x, t.key>> BY <1>1, TenantRow DEF RowsInv
<1>3. x = "none" BY <1>1, <1>2 DEF Nobody
<1> QED BY <1>3, Disjoint DEF Actors

\* The row a statement makes.
LEMMA NewRowFacts ==
  ASSUME NEW p \in Programs, NEW n \in Steps(p), NEW s, s = Text(p)[n],
         prog[p].mine \in [Names -> Ids]
  PROVE  LET r == NewRow(p, s) IN
         /\ RowOK(r) /\ r.key = s.key /\ r.table = s.table /\ r.key \notin Sims
         /\ r.id = Id(p, s.table, s.key) /\ r.ref = Ref(p, s)
         /\ r.tenant = IF s.table = "tenant" THEN Id(p, s.table, s.key) ELSE prog[p].mine[s.of]
<1> DEFINE r == NewRow(p, s)
<1>1. /\ s.key \in TextKeys /\ s.table = Line(s.key).table
      /\ s.of = Line(s.key).of /\ s.ref = Line(s.key).ref
  BY TextLines
<1>2. /\ r.key = s.key /\ r.table = s.table /\ r.id = Id(p, s.table, s.key) /\ r.ref = Ref(p, s)
      /\ r.open \in BOOLEAN
      /\ r.tenant = IF s.table = "tenant" THEN Id(p, s.table, s.key) ELSE prog[p].mine[s.of]
      /\ r \in [table : {r.table}, key : {r.key}, tenant : {r.tenant}, id : {r.id},
                ref : {r.ref}, open : {r.open}]
  BY DEF NewRow
<1> HIDE DEF r
<1>3. s.key \notin Sims /\ s.key \in Keys BY <1>1, Disjoint DEF Keys
<1>4. s.table \in Tables /\ s.of \in Names BY <1>1, LineFacts
<1>5. \A table, key : key \in Keys \cup {"none"} =>
        /\ Id(p, table, key) \in Ids
        /\ \E q \in Programs \cup {"seed"} :
             /\ Id(p, table, key) = <<q, key>>
             /\ q \in Seeds => table \in Unnamed
             /\ q = "seed" => table \notin Unnamed
  BY Disjoint DEF Id, Ids, Actors, Programs
<1>6. Ref(p, s) \in Ids
  <2>1. CASE s.ref = "none" BY <2>1 DEF Ref, Nobody, Ids
  <2>2. CASE s.ref # "none"
    <3>1. s.ref \in Keys BY <2>2, <1>1, LineRefs DEF Keys
    <3> QED BY <2>2, <3>1, <1>5 DEF Ref
  <2> QED BY <2>1, <2>2
<1>7. r.tenant \in Ids BY <1>2, <1>3, <1>4, <1>5
<1>8. r \in Row
  <2>1. /\ r.table \in Tables /\ r.key \in Keys /\ r.tenant \in Ids /\ r.id \in Ids
        /\ r.ref \in Ids /\ r.open \in BOOLEAN
    BY <1>2, <1>3, <1>4, <1>5, <1>6, <1>7
  <2> QED BY <2>1, <1>2 DEF Row
<1>9. s.table = "bundle" => Ref(p, s) = <<"seed", "disp_002">>
  <2> SUFFICES ASSUME s.table = "bundle" PROVE Ref(p, s) = <<"seed", "disp_002">> OBVIOUS
  <2>1. p \in Seeds BY ByFacts
  <2>2. s.ref = "disp_002" BY <1>1, LineFacts
  <2>3. RefTable["bundle"] \notin Unnamed BY <1>1, <2>2, LineRefs
  <2> QED BY <2>1, <2>2, <2>3 DEF Ref, Id
<1>10. RowOK(r) BY <1>1, <1>2, <1>3, <1>5, <1>8, <1>9 DEF RowOK
<1> QED BY <1>2, <1>3, <1>10 DEF r

\* A simulation's row.
LEMMA SimRowFacts ==
  ASSUME NEW p \in Sims, NEW t \in Ids, NEW table \in {"payment", "webhook", "attempt"},
         NEW ref \in Ids
  PROVE  LET r == SimRow(p, t, table, ref) IN
         /\ RowOK(r) /\ r.key = p /\ r.table = table /\ r.id = <<p, p>> /\ r.ref = ref
         /\ r.tenant = t
<1> DEFINE r == SimRow(p, t, table, ref)
<1>1. /\ r.key = p /\ r.table = table /\ r.id = <<p, p>> /\ r.ref = ref /\ r.tenant = t
      /\ r \in [table : {table}, key : {p}, tenant : {t}, id : {<<p, p>>}, ref : {ref},
                open : {TRUE}]
  BY DEF SimRow
<1> HIDE DEF r
<1>2. {"payment", "webhook", "attempt"} \subseteq Tables
  <2>1. SeedProgram[5].table = "payment" /\ SeedProgram[8].table = "attempt"
        /\ SeedProgram[19].table = "webhook"
    BY DEF SeedProgram, SeedAcme, SeedConnections, SeedPayments, SeedAttempts, SeedSaveFlow,
       SeedDisputes, SeedAccounting, SeedInvoices, SeedWebhooks, SeedAlertRules, SeedPixel, St
  <2> QED BY <2>1, Lengths DEF Tables
<1>3. <<p, p>> \in Ids /\ p \in Keys BY DEF Ids, Keys
<1>4. r \in Row BY <1>1, <1>2, <1>3 DEF Row
<1> QED BY <1>1, <1>4 DEF RowOK, r

\* A row that is accepted is added to the others.
LEMMA AddRow ==
  ASSUME RowsInv, NEW r, RowOK(r), rows' = rows \cup {r},
         \A q \in rows : ~ Conflict(r, q),
         \E t \in rows \cup {r} : /\ t.table = "tenant" /\ t.id = r.tenant
                                  /\ r.key \notin Sims => t.key = Line(r.key).of
  PROVE  RowsInv'
<1>1. \A x \in rows' : RowOK(x) BY DEF RowsInv
<1>2. \A x \in rows' : Homed(x)' BY DEF RowsInv, Homed
<1>3. \A a, b \in rows' : Conflict(a, b) => a = b
  BY DEF RowsInv, Conflict
<1> QED BY <1>1, <1>2, <1>3 DEF RowsInv
-----------------------------------------------------------------------------
(* The programs. *)

\* A program that does not move stays where it is.
LEMMA PastKept ==
  ASSUME NEW q \in Programs, prog'[q].n = prog[q].n
  PROVE  Past(q)' = Past(q)
BY DEF Past

\* One statement on.
LEMMA AdvanceEffect ==
  ASSUME Typed, NEW p \in Programs, PcOK(p), prog[p].pc \in {"at", "create"},
         NEW s, s = At(p), NEW id \in Ids, Advance(p, s, id)
  PROVE  /\ prog' \in [Actors -> ProgState]
         /\ \A q \in Actors : q # p => prog'[q] = prog[q]
         /\ prog'[p].n = prog[p].n + 1 /\ prog'[p].pc \in {"at", "done"}
         /\ \A o \in Names : prog'[p].mine[o] =
              IF s.table = "tenant" /\ o = s.of THEN id ELSE prog[p].mine[o]
         /\ \A q \in Programs : q # p => Past(q)' = Past(q)
         /\ Past(p)' = Past(p) \cup {s.key}
         /\ PcOK(p)' /\ prog[p].n \in Steps(p) /\ s = Text(p)[prog[p].n]
<1>0. p \in Actors /\ Len(Text(p)) \in Nat BY TextLength DEF Actors
<1>1. prog[p] \in ProgState BY <1>0 DEF Typed
<1>2. prog[p].n \in Steps(p) /\ s = Text(p)[prog[p].n] BY <1>0 DEF PcOK, Steps, At
<1>3. s.of \in Names BY <1>2, TextLines, LineFacts
<1> DEFINE m == IF s.table = "tenant" THEN id ELSE prog[p].mine[s.of]
           last == prog[p].n = Len(Text(p))
<1>4. prog' = [prog EXCEPT ![p] = [prog[p] EXCEPT
           !.n = prog[p].n + 1, !.pc = IF last THEN "done" ELSE "at",
           !.mine = [prog[p].mine EXCEPT ![s.of] = m]]]
  BY <1>0, <1>1 DEF Advance, Typed, ProgState
<1>5. m \in Ids BY <1>1, <1>3 DEF ProgState
<1> HIDE DEF m, last
<1>6. [prog[p].mine EXCEPT ![s.of] = m] \in [Names -> Ids] BY <1>1, <1>3, <1>5 DEF ProgState
<1>7. /\ prog'[p].n = prog[p].n + 1 /\ prog'[p].pc = (IF last THEN "done" ELSE "at")
      /\ prog'[p].mine = [prog[p].mine EXCEPT ![s.of] = m] /\ prog'[p] \in ProgState
  <2> DEFINE v == [prog[p] EXCEPT !.n = prog[p].n + 1, !.pc = IF last THEN "done" ELSE "at",
                                  !.mine = [prog[p].mine EXCEPT ![s.of] = m]]
  <2>1. prog'[p] = v BY <1>0, <1>4 DEF Typed
  <2>2. prog[p] \in [pc : Pcs, n : Nat, mine : [Names -> Ids], found : Row \cup {NoRow}]
    BY <1>1 DEF ProgState
  <2>3. prog[p].n + 1 \in Nat /\ (IF last THEN "done" ELSE "at") \in Pcs BY <2>2 DEF Pcs
  <2>4. /\ v.n = prog[p].n + 1 /\ v.pc = (IF last THEN "done" ELSE "at")
        /\ v.mine = [prog[p].mine EXCEPT ![s.of] = m]
    BY <2>2
  <2>5. v \in [pc : Pcs, n : Nat, mine : [Names -> Ids], found : Row \cup {NoRow}]
    BY <2>2, <2>3, <1>6
  <2> HIDE DEF v
  <2> QED BY <2>1, <2>4, <2>5 DEF ProgState
<1>8. \A q \in Actors : q # p => prog'[q] = prog[q] BY <1>4 DEF Typed
<1>9. prog' \in [Actors -> ProgState] BY <1>0, <1>4, <1>7 DEF Typed
<1>10. \A o \in Names : prog'[p].mine[o] =
         IF s.table = "tenant" /\ o = s.of THEN id ELSE prog[p].mine[o]
  BY <1>1, <1>3, <1>7 DEF ProgState, m
<1>11. \A q \in Programs : q # p => Past(q)' = Past(q) BY <1>8, PastKept DEF Actors
<1>12. Past(p)' = Past(p) \cup {s.key}
  <2>1. prog[p].n \in 1..(Len(Text(p)) + 1) BY DEF PcOK
  <2>2. Before(p, prog[p].n + 1) = Before(p, prog[p].n) \cup {Text(p)[prog[p].n].key}
    BY <1>2, <2>1, BeforeFacts, Zenon
  <2> QED BY <2>2, <1>2, <1>7 DEF Past
<1>13. PcOK(p)'
  BY <1>0, <1>2, <1>7 DEF PcOK, Steps, last
<1> QED BY <1>2, <1>7, <1>8, <1>9, <1>10, <1>11, <1>12, <1>13

\* A tenant that has died does not come back: who made it is past that.
LEMMA NoRevival ==
  ASSUME NEW p \in Programs, NEW n \in Steps(p), n = prog[p].n, NEW s, s = Text(p)[n],
         NEW r, r.table = s.table, r.id = Id(p, s.table, s.key),
         NEW x \in Programs, MineOK(x), NEW o \in Names, prog[x].mine[o] # Nobody,
         LiveIn(rows \cup {r}, prog[x].mine[o])
  PROVE  LiveIn(rows, prog[x].mine[o])
<1> SUFFICES ASSUME r.table = "tenant", r.id = prog[x].mine[o] PROVE FALSE BY DEF LiveIn
<1>1. PICK q \in Programs : prog[x].mine[o] = <<q, o>> /\ o \in Past(q) BY DEF MineOK
<1>2. r.id = <<p, s.key>> BY DEF Id, Unnamed
<1>3. q = p /\ o = s.key BY <1>1, <1>2
<1> QED BY <1>1, <1>3, AtFacts, Zenon DEF Past

\* What a program has done is not undone by a step of another.
LEMMA WorkKept ==
  ASSUME NEW p \in Programs, MineOK(p), WorkOK(p),
         prog'[p].mine = prog[p].mine, prog'[p].n = prog[p].n,
         Past(p) \subseteq TextKeys,
         \A q \in Programs : Past(q) \subseteq Past(q)',
         \A o \in Names :
           LiveIn(rows', prog[p].mine[o]) => LiveIn(rows, prog[p].mine[o]),
         \A k, id : LiveIn(rows', id) /\ HasRow(rows, k, id) => HasRow(rows', k, id)
  PROVE  MineOK(p)' /\ WorkOK(p)'
<1>1. Past(p)' = Past(p) BY PastKept
<1>2. MineOK(p)' BY <1>1 DEF MineOK
<1>3. \A k \in Past(p) : Line(k).of \in Names BY LineFacts
<1>4. WorkOK(p)'
  <2> SUFFICES ASSUME NEW k \in Past(p), LiveIn(rows', prog[p].mine[Line(k).of])
               PROVE  HasRow(rows', k, prog[p].mine[Line(k).of])
    BY <1>1 DEF WorkOK
  <2>1. LiveIn(rows, prog[p].mine[Line(k).of]) BY <1>3
  <2> QED BY <2>1 DEF WorkOK
<1> QED BY <1>2, <1>4
-----------------------------------------------------------------------------
\* Nothing a program relies on changes when no program moves on.
LEMMA Still ==
  ASSUME RowsInv, ProgsInv,
         \A q \in Programs : prog'[q].n = prog[q].n /\ prog'[q].mine = prog[q].mine,
         \A id : id # Nobody /\ LiveIn(rows', id) => LiveIn(rows, id),
         ~ LiveIn(rows', Nobody),
         \A k \in TextKeys : \A id :
              LiveIn(rows', id) /\ HasRow(rows, k, id) => HasRow(rows', k, id)
  PROVE  \A q \in Programs : Past(q)' = Past(q) /\ MineOK(q)' /\ WorkOK(q)'
<1> TAKE q \in Programs
<1>1. \A x \in Programs : Past(x)' = Past(x) BY PastKept
<1>2. Past(q) \subseteq TextKeys BY BeforeFacts DEF Past, ProgsInv, PcOK
<1>3. MineOK(q) /\ WorkOK(q) BY DEF ProgsInv
<1>4. MineOK(q)' BY <1>1, <1>3 DEF MineOK
<1>5. WorkOK(q)'
  <2> SUFFICES ASSUME NEW k \in Past(q), LiveIn(rows', prog[q].mine[Line(k).of])
               PROVE  HasRow(rows', k, prog[q].mine[Line(k).of])
    BY <1>1 DEF WorkOK
  <2>1. LiveIn(rows, prog[q].mine[Line(k).of]) OBVIOUS
  <2>2. HasRow(rows, k, prog[q].mine[Line(k).of]) BY <2>1, <1>3 DEF WorkOK
  <2> QED BY <2>2, <1>2
<1> QED BY <1>1, <1>4, <1>5

\* No row bears nobody's id.
LEMMA NotNobody ==
  ASSUME NEW R, \A r \in R : RowOK(r)
  PROVE  ~ LiveIn(R, Nobody)
<1> SUFFICES ASSUME LiveIn(R, Nobody) PROVE FALSE OBVIOUS
<1>1. PICK t \in R : t.table = "tenant" /\ t.id = Nobody BY DEF LiveIn
<1>2. PICK x \in Programs : t.id = <<x, t.key>> BY <1>1, TenantRow
<1>3. x = "none" BY <1>1, <1>2 DEF Nobody
<1> QED BY <1>3, Disjoint DEF Actors

\* A program moves on: to a row it has found, or with the row it has made.
LEMMA Advanced ==
  ASSUME Typed, RowsInv, ProgsInv, RowsInv', NEW p \in Programs, prog[p].pc \in {"at", "create"},
         NEW s, s = At(p), NEW id \in Ids, Advance(p, s, id),
         NEW r, r.key = s.key, r.table = s.table, r.id = Id(p, s.table, s.key),
         rows' = rows \/ rows' = rows \cup {r},
         s.table = "tenant" =>
           \E t \in rows' : t.table = "tenant" /\ t.id = id /\ t.key = s.of,
         LiveIn(rows', prog'[p].mine[s.of]) => HasRow(rows', s.key, prog'[p].mine[s.of])
  PROVE  ProgsInv'
<1>0. PcOK(p) /\ MineOK(p) /\ WorkOK(p) /\ p \in Actors BY DEF ProgsInv, Actors
<1>1. /\ \A q \in Actors : q # p => prog'[q] = prog[q]
      /\ prog'[p].n = prog[p].n + 1
      /\ \A o \in Names : prog'[p].mine[o] =
           IF s.table = "tenant" /\ o = s.of THEN id ELSE prog[p].mine[o]
      /\ \A q \in Programs : q # p => Past(q)' = Past(q)
      /\ Past(p)' = Past(p) \cup {s.key}
      /\ PcOK(p)' /\ prog[p].n \in Steps(p) /\ s = Text(p)[prog[p].n]
  BY <1>0, AdvanceEffect
<1>2. /\ s.key \in TextKeys /\ s.key \notin Past(p)
      /\ s.table = Line(s.key).table /\ s.of = Line(s.key).of
      /\ s.table = "tenant" => \A k \in Past(p) : Line(k).of # s.of
      /\ s.table # "tenant" => s.of \in Past(p)
  BY <1>1, AtFacts DEF Past
<1>3. /\ s.of \in Names /\ s.key \notin Sims
      /\ s.key \in Names => (s.table = "tenant" /\ s.of = s.key)
      /\ s.table = "tenant" => s.of = s.key
  BY <1>2, LineFacts, Disjoint
<1>4. \A q \in Programs : Past(q) \subseteq TextKeys BY BeforeFacts DEF Past, ProgsInv, PcOK
<1>5. \A x \in rows' : RowOK(x) BY DEF RowsInv
<1>6. r.id = <<"seed", s.key>> \/ r.id = <<p, s.key>> BY DEF Id
<1>7. MakersPast'
  <2>1. \A x \in rows', q \in Programs : x.id = <<q, x.key>> => x.key \in Past(q)'
    <3> SUFFICES ASSUME NEW x \in rows', NEW q \in Programs, x.id = <<q, x.key>>
                 PROVE  x.key \in Past(q)'
      OBVIOUS
    <3>1. CASE x \in rows
      <4>1. x.key \in Past(q) BY <3>1 DEF ProgsInv, MakersPast
      <4> QED BY <4>1, <1>1
    <3>2. CASE x = r
      <4>1. q = p BY <3>2, <1>6, Disjoint DEF Actors
      <4> QED BY <4>1, <3>2, <1>1
    <3> QED BY <3>1, <3>2
  <2>2. \A x \in rows' : x.key \in Sims => prog'[x.key].pc = "done"
    <3> SUFFICES ASSUME NEW x \in rows', x.key \in Sims PROVE prog'[x.key].pc = "done" OBVIOUS
    <3>1. x \in rows BY <1>3
    <3>2. x.key # p /\ x.key \in Actors BY Disjoint DEF Actors
    <3> QED BY <3>1, <3>2, <1>1 DEF ProgsInv, MakersPast
  <2> QED BY <2>1, <2>2 DEF MakersPast
<1>8. s.table = "tenant" =>
        (\E q \in Programs : id = <<q, s.of>> /\ s.of \in Past(q)') /\ id # Nobody
  <2> SUFFICES ASSUME s.table = "tenant"
               PROVE  (\E q \in Programs : id = <<q, s.of>> /\ s.of \in Past(q)') /\ id # Nobody
    OBVIOUS
  <2>1. PICK t \in rows' : t.table = "tenant" /\ t.id = id /\ t.key = s.of OBVIOUS
  <2>2. PICK q \in Programs : t.id = <<q, t.key>> BY <2>1, <1>5, TenantRow
  <2>3. t.key \in Past(q)' BY <2>2, <1>7 DEF MakersPast
  <2>4. id # Nobody BY <2>1, <2>2, Disjoint DEF Nobody, Actors
  <2> QED BY <2>1, <2>2, <2>3, <2>4
<1>9. \A x \in Programs, o \in Names : prog[x].mine[o] # Nobody =>
        (LiveIn(rows', prog[x].mine[o]) => LiveIn(rows, prog[x].mine[o]))
  <2> TAKE x \in Programs, o \in Names
  <2> SUFFICES ASSUME prog[x].mine[o] # Nobody, LiveIn(rows', prog[x].mine[o])
               PROVE  LiveIn(rows, prog[x].mine[o])
    OBVIOUS
  <2>1. LiveIn(rows \cup {r}, prog[x].mine[o]) BY DEF LiveIn
  <2>2. MineOK(x) BY DEF ProgsInv
  <2> QED BY <2>1, <2>2, <1>1, NoRevival
<1>10. ~ LiveIn(rows', Nobody) BY <1>5, NotNobody
<1>11. MineOK(p)'
  <2> SUFFICES ASSUME NEW o \in Names
        PROVE  /\ prog'[p].mine[o] = Nobody
                  \/ \E q \in Programs : prog'[p].mine[o] = <<q, o>> /\ o \in Past(q)'
               /\ o \in Past(p)' => prog'[p].mine[o] # Nobody
    BY DEF MineOK
  <2>1. CASE s.table = "tenant" /\ o = s.of BY <2>1, <1>1, <1>8, Zenon
  <2>2. CASE ~ (s.table = "tenant" /\ o = s.of)
    <3>1. prog'[p].mine[o] = prog[p].mine[o] BY <2>2, <1>1
    <3>2. o \in Past(p)' => o \in Past(p) BY <2>2, <1>1, <1>3
    <3>3. \A q \in Programs : Past(q) \subseteq Past(q)' BY <1>1
    <3> QED BY <3>1, <3>2, <3>3, <1>0 DEF MineOK
  <2> QED BY <2>1, <2>2
<1>12. WorkOK(p)'
  <2> SUFFICES ASSUME NEW k \in Past(p)', LiveIn(rows', prog'[p].mine[Line(k).of])
               PROVE  HasRow(rows', k, prog'[p].mine[Line(k).of])
    BY DEF WorkOK
  <2>1. CASE k = s.key BY <2>1, <1>2
  <2>2. CASE k \in Past(p)
    <3>1. Line(k).of \in Names BY <2>2, <1>4, LineFacts
    <3>2. prog'[p].mine[Line(k).of] = prog[p].mine[Line(k).of] BY <2>2, <3>1, <1>1, <1>2, Zenon
    <3>3. LiveIn(rows, prog[p].mine[Line(k).of]) BY <3>1, <3>2, <1>9, <1>10
    <3>4. HasRow(rows, k, prog[p].mine[Line(k).of]) BY <2>2, <3>3, <1>0 DEF WorkOK
    <3> QED BY <3>2, <3>4 DEF HasRow
  <2> QED BY <2>1, <2>2, <1>1
<1>13. ASSUME NEW q \in Programs, q # p PROVE PcOK(q)' /\ MineOK(q)' /\ WorkOK(q)'
  <2>1. prog'[q] = prog[q] BY <1>1, <1>13 DEF Actors
  <2>2. PcOK(q) /\ MineOK(q) /\ WorkOK(q) BY DEF ProgsInv
  <2>3. PcOK(q)' BY <2>1, <2>2 DEF PcOK, At
  <2>4. \A x \in Programs : Past(x) \subseteq Past(x)' BY <1>1
  <2>5. \A o \in Names : LiveIn(rows', prog[q].mine[o]) => LiveIn(rows, prog[q].mine[o])
    BY <1>9, <1>10
  <2>6. \A k, i : LiveIn(rows', i) /\ HasRow(rows, k, i) => HasRow(rows', k, i) BY DEF HasRow
  <2>7. prog'[q].mine = prog[q].mine /\ prog'[q].n = prog[q].n /\ Past(q) \subseteq TextKeys
    BY <2>1, <1>4
  <2>8. MineOK(q)' /\ WorkOK(q)' BY <2>2, <2>4, <2>5, <2>6, <2>7, WorkKept
  <2> QED BY <2>3, <2>8
<1>14. \A q \in Sims : SimOK(q)'
  <2> TAKE q \in Sims
  <2>1. prog'[q] = prog[q] BY <1>1, Disjoint DEF Actors
  <2> QED BY <2>1 DEF ProgsInv, SimOK
<1> QED BY <1>1, <1>7, <1>11, <1>12, <1>13, <1>14 DEF ProgsInv
-----------------------------------------------------------------------------
(* The statements of a program. *)

Core == Typed /\ RowsInv /\ ProgsInv

\* Where the statement of a program stands.
LEMMA AtGives ==
  ASSUME Core, NEW p \in Programs, prog[p].pc \in {"at", "create"}, NEW s, s = At(p)
  PROVE  /\ prog[p].n \in Steps(p) /\ s = Text(p)[prog[p].n] /\ p \in Actors
         /\ prog[p].mine \in [Names -> Ids] /\ PcOK(p) /\ MineOK(p) /\ WorkOK(p)
         /\ s.key \in TextKeys /\ s.key \notin Past(p) /\ s.key \notin Sims
         /\ s.table = Line(s.key).table /\ s.of = Line(s.key).of /\ s.ref = Line(s.key).ref
         /\ s.of \in Names /\ Past(p) \subseteq TextKeys
         /\ s.table = "tenant" => s.of = s.key
         /\ s.table # "tenant" => \E q \in Programs : prog[p].mine[s.of] = <<q, s.of>>
         /\ s.table # "tenant" => s.of \in Past(p)
         /\ s.ref # "none" => s.ref \in Past(p)
<1>1. PcOK(p) /\ MineOK(p) /\ WorkOK(p) /\ p \in Actors BY DEF Core, ProgsInv, Actors
<1>2. prog[p].n \in Steps(p) /\ s = Text(p)[prog[p].n] BY <1>1, TextLength DEF PcOK, Steps, At
<1>3. prog[p].mine \in [Names -> Ids] BY <1>1 DEF Core, Typed, ProgState
<1>4. /\ s.key \in TextKeys /\ s.key \notin Past(p)
      /\ s.table = Line(s.key).table /\ s.of = Line(s.key).of /\ s.ref = Line(s.key).ref
      /\ s.table # "tenant" => s.of \in Past(p)
      /\ s.ref # "none" => s.ref \in Past(p)
  BY <1>2, AtFacts DEF Past
<1>5. s.key \notin Sims /\ s.of \in Names /\ (s.table = "tenant" => s.of = s.key)
  BY <1>4, LineFacts, Disjoint
<1>6. Past(p) \subseteq TextKeys BY <1>1, BeforeFacts DEF Past, PcOK
<1>7. s.table # "tenant" => \E q \in Programs : prog[p].mine[s.of] = <<q, s.of>>
  BY <1>1, <1>4, <1>5 DEF MineOK
<1> QED BY <1>1, <1>2, <1>3, <1>4, <1>5, <1>6, <1>7, Zenon

\* The id of a row ends in its key.
LEMMA IdsEnd ==
  ASSUME NEW r, RowOK(r), NEW x, x \notin Sims, NEW k, r.id = <<x, k>>
  PROVE  r.key = k /\ r.key \notin Sims
<1>1. r.key \notin Sims BY DEF RowOK
<1>2. PICK q : r.id = <<q, r.key>> BY <1>1 DEF RowOK
<1> QED BY <1>1, <1>2

\* What a seed finds is the row it was to make, in the tenant it works on.
LEMMA FoundGives ==
  ASSUME Core, NEW p \in Programs, prog[p].pc \in {"at", "create"}, NEW s, s = At(p),
         s.by # "new", NEW r \in Found(p, s)
  PROVE  /\ r \in rows /\ RowOK(r) /\ r.id \in Ids
         /\ r.table = s.table /\ r.key = s.key /\ r.key \notin Sims
         /\ s.table # "tenant" /\ LiveIn(rows, prog[p].mine[s.of]) =>
              r.tenant = prog[p].mine[s.of]
<1>1. /\ prog[p].n \in Steps(p) /\ s = Text(p)[prog[p].n] /\ s.key \in TextKeys
      /\ s.key \notin Sims /\ s.table = Line(s.key).table /\ s.of = Line(s.key).of
      /\ s.table # "tenant" => \E q \in Programs : prog[p].mine[s.of] = <<q, s.of>>
  BY AtGives
<1>2. p \in Seeds /\ (s.by = "missing" => s.table \notin Unnamed \/ s.table = "bundle")
      /\ (s.by = "id" => s.table \notin Unnamed) /\ s.by \in {"key", "id", "missing"}
  BY <1>1, ByFacts, Zenon
<1>3. r \in rows /\ r.table = s.table BY DEF Found
<1>4. RowOK(r) BY <1>3 DEF Core, RowsInv
<1>5. r.id \in Ids BY <1>4 DEF RowOK, Row
<1>6. r.key = s.key
  <2>1. CASE s.table = "bundle"
    <3>1. r.key \notin Sims BY <2>1, <1>3, <1>4 DEF RowOK
    <3>2. r.key \in TextKeys /\ Line(r.key).table = "bundle" BY <2>1, <3>1, <1>3, <1>4, TextRow
    <3>3. r.key = "evidence" BY <3>2, LineFacts
    <3>4. s.key \in TextKeys /\ Line(s.key).table = "bundle" BY <2>1, <1>1, Zenon
    <3>5. s.key = "evidence" BY <3>4, LineFacts
    <3> QED BY <3>3, <3>5
  <2>2. CASE s.table # "bundle" /\ s.by \in {"id", "missing"}
    <3>1. r.id = Id(p, s.table, s.key) BY <2>2 DEF Found
    <3>2. r.id = <<"seed", s.key>> BY <2>2, <3>1, <1>2 DEF Id
    <3>3. "seed" \notin Sims BY Disjoint DEF Actors
    <3> QED BY <3>2, <3>3, <1>4, IdsEnd
  <2>3. CASE s.table # "bundle" /\ s.by \notin {"id", "missing"} BY <2>3 DEF Found
  <2> QED BY <2>1, <2>2, <2>3
<1>7. ASSUME s.table # "tenant", LiveIn(rows, prog[p].mine[s.of])
      PROVE  r.tenant = prog[p].mine[s.of]
  <2>1. PICK q \in Programs : prog[p].mine[s.of] = <<q, s.of>> BY <1>1, <1>7, Zenon
  <2>2. RowsInv /\ LiveIn(rows, <<q, s.of>>)
    <3>1. RowsInv BY DEF Core
    <3> QED BY <2>1, <3>1, <1>7
  <2>3. r.key \notin Sims /\ Line(r.key).of = s.of BY <1>1, <1>6, Zenon
  <2>4. r.tenant = <<q, s.of>> BY <2>2, <2>3, <1>3, LiveHome
  <2> QED BY <2>1, <2>4
<1> QED BY <1>1, <1>3, <1>4, <1>5, <1>6, <1>7, Zenon

LEMMA MineAfter ==
  ASSUME Core, NEW p \in Programs, prog[p].pc \in {"at", "create"}, NEW s, s = At(p),
         NEW id \in Ids, Advance(p, s, id)
  PROVE  prog'[p].mine[s.of] = IF s.table = "tenant" THEN id ELSE prog[p].mine[s.of]
<1>1. s.of \in Names /\ PcOK(p) BY AtGives
<1>2. Typed BY DEF Core
<1>3. \A o \in Names : prog'[p].mine[o] =
        IF s.table = "tenant" /\ o = s.of THEN id ELSE prog[p].mine[o]
  BY <1>1, <1>2, AdvanceEffect
<1> QED BY <1>1, <1>3

\* A statement that has found its row.
LEMMA AdvanceFound ==
  ASSUME Core, NEW p \in Programs, prog[p].pc \in {"at", "create"}, NEW s, s = At(p),
         s.by # "new", NEW r \in Found(p, s), NEW id \in Ids, s.table = "tenant" => id = r.id,
         Advance(p, s, id), rows' = rows
  PROVE  RowsInv' /\ ProgsInv'
<1>1. /\ prog[p].n \in Steps(p) /\ s = Text(p)[prog[p].n] /\ s.of \in Names /\ PcOK(p)
      /\ prog[p].mine \in [Names -> Ids] /\ (s.table = "tenant" => s.of = s.key)
  BY AtGives
<1>2. /\ r \in rows /\ RowOK(r) /\ r.table = s.table /\ r.key = s.key
      /\ s.table # "tenant" /\ LiveIn(rows, prog[p].mine[s.of]) => r.tenant = prog[p].mine[s.of]
  BY FoundGives
<1>3. RowsInv' BY DEF Core, RowsInv, Homed, Conflict
<1> DEFINE x == NewRow(p, s)
<1>4. x.key = s.key /\ x.table = s.table /\ x.id = Id(p, s.table, s.key)
  BY <1>1, NewRowFacts
<1> HIDE DEF x
<1>5. prog'[p].mine[s.of] = IF s.table = "tenant" THEN id ELSE prog[p].mine[s.of]
  BY MineAfter
<1>6. LiveIn(rows', prog'[p].mine[s.of]) => HasRow(rows', s.key, prog'[p].mine[s.of])
  <2>1. CASE s.table = "tenant"
    <3>1. r.tenant = r.id BY <2>1, <1>2 DEF RowOK
    <3> QED BY <2>1, <3>1, <1>2, <1>5 DEF HasRow
  <2>2. CASE s.table # "tenant" BY <2>2, <1>2, <1>5 DEF HasRow
  <2> QED BY <2>1, <2>2
<1>7. s.table = "tenant" => \E t \in rows' : t.table = "tenant" /\ t.id = id /\ t.key = s.of
  BY <1>1, <1>2
<1> QED BY <1>3, <1>4, <1>6, <1>7, Advanced DEF Core

\* A statement that has made its row.
LiesIn(p, s, r) ==
  /\ s.table = "tenant" => r.tenant = r.id
  /\ s.table # "tenant" => r.tenant = prog[p].mine[s.of]

LEMMA MadeRow ==
  ASSUME Core, NEW p \in Programs, prog[p].pc \in {"at", "create"}, NEW s, s = At(p),
         NEW r, RowOK(r), r.key = s.key, r.table = s.table,
         LiesIn(p, s, r), Accepted(r), rows' = rows \cup {r}
  PROVE  RowsInv'
<1>1. /\ s.table = "tenant" => s.of = s.key
      /\ s.of = Line(s.key).of /\ s.key \notin Sims
      /\ s.table # "tenant" => \E q \in Programs : prog[p].mine[s.of] = <<q, s.of>>
  BY AtGives
<1>2. \A q \in rows : ~ Conflict(r, q) BY DEF Accepted
<1>3. RowsInv BY DEF Core
<1>4. \E t \in rows \cup {r} : t.table = "tenant" /\ t.id = r.tenant /\ t.key = Line(r.key).of
  <2>1. CASE s.table = "tenant" BY <2>1, <1>1 DEF LiesIn
  <2>2. CASE s.table # "tenant"
    <3>1. LiveIn(rows, r.tenant) BY <2>2 DEF Accepted, Refers, LiveIn
    <3>2. \E q \in Programs : r.tenant = <<q, s.of>> BY <2>2, <1>1 DEF LiesIn
    <3>3. \E t \in rows : t.table = "tenant" /\ t.id = r.tenant /\ t.key = s.of
      BY <3>1, <3>2, <1>3, LiveLine
    <3> QED BY <3>3, <1>1
  <2> QED BY <2>1, <2>2
<1> QED BY <1>1, <1>2, <1>4, <1>3, AddRow

LEMMA AdvanceMade ==
  ASSUME Core, RowsInv', NEW p \in Programs, prog[p].pc \in {"at", "create"}, NEW s, s = At(p),
         NEW id \in Ids, Advance(p, s, id),
         NEW r, r.key = s.key, r.table = s.table, r.id = Id(p, s.table, s.key),
         rows' = rows \cup {r}, id = r.id, LiesIn(p, s, r)
  PROVE  ProgsInv'
<1>1. s.of \in Names /\ PcOK(p) /\ (s.table = "tenant" => s.of = s.key) BY AtGives
<1>2. prog'[p].mine[s.of] = IF s.table = "tenant" THEN id ELSE prog[p].mine[s.of]
  BY MineAfter
<1>3. HasRow(rows', s.key, prog'[p].mine[s.of]) BY <1>2 DEF HasRow, LiesIn
<1>4. s.table = "tenant" => \E t \in rows' : t.table = "tenant" /\ t.id = id /\ t.key = s.of
  BY <1>1
<1>5. Typed /\ RowsInv /\ ProgsInv BY DEF Core
<1> QED BY <1>3, <1>4, <1>5, Advanced
-----------------------------------------------------------------------------
(* The other steps. *)

\* A program or call turns to another phase, and may drop the row it has read or take one.
LEMMA Turn ==
  ASSUME Core, NEW p \in Actors, NEW c \in Pcs, prog' = [prog EXCEPT ![p].pc = c]
  PROVE  /\ prog' \in [Actors -> ProgState] /\ \A q \in Actors : q # p => prog'[q] = prog[q]
         /\ prog'[p].pc = c /\ prog'[p].n = prog[p].n /\ prog'[p].mine = prog[p].mine
         /\ prog'[p].found = prog[p].found
<1> DEFINE v == [prog[p] EXCEPT !.pc = c]
<1>1. prog' = [prog EXCEPT ![p] = v] OBVIOUS
<1>2. prog[p] \in [pc : Pcs, n : Nat, mine : [Names -> Ids], found : Row \cup {NoRow}]
  BY DEF Core, Typed, ProgState
<1>3. v.pc = c /\ v.n = prog[p].n /\ v.mine = prog[p].mine /\ v.found = prog[p].found BY <1>2
<1>4. v \in [pc : Pcs, n : Nat, mine : [Names -> Ids], found : Row \cup {NoRow}] BY <1>2
<1> HIDE DEF v
<1>5. v \in ProgState BY <1>4 DEF ProgState
<1>6. prog'[p] = v BY <1>1 DEF Core, Typed
<1> QED BY <1>1, <1>3, <1>5, <1>6 DEF Core, Typed

LEMMA TurnWith ==
  ASSUME Core, NEW p \in Actors, NEW c \in Pcs, NEW f \in Row \cup {NoRow},
         prog' = [prog EXCEPT ![p].pc = c, ![p].found = f]
  PROVE  /\ prog' \in [Actors -> ProgState] /\ \A q \in Actors : q # p => prog'[q] = prog[q]
         /\ prog'[p].pc = c /\ prog'[p].n = prog[p].n /\ prog'[p].mine = prog[p].mine
         /\ prog'[p].found = f
<1> DEFINE v == [prog[p] EXCEPT !.pc = c, !.found = f]
<1>1. prog' = [prog EXCEPT ![p] = v] BY DEF Core, Typed
<1>2. prog[p] \in [pc : Pcs, n : Nat, mine : [Names -> Ids], found : Row \cup {NoRow}]
  BY DEF Core, Typed, ProgState
<1>3. v.pc = c /\ v.n = prog[p].n /\ v.mine = prog[p].mine /\ v.found = f BY <1>2
<1>4. v \in [pc : Pcs, n : Nat, mine : [Names -> Ids], found : Row \cup {NoRow}] BY <1>2
<1> HIDE DEF v
<1>5. v \in ProgState BY <1>4 DEF ProgState
<1>6. prog'[p] = v BY <1>1 DEF Core, Typed
<1> QED BY <1>1, <1>3, <1>5, <1>6 DEF Core, Typed

\* Such a turn, whatever it does to the rows, as long as it makes no tenant and
\* takes none of the rows of a tenant that lives on.
LEMMA Moved ==
  ASSUME Core, RowsInv', NEW p \in Actors, \A q \in Actors : q # p => prog'[q] = prog[q],
         prog'[p].n = prog[p].n, prog'[p].mine = prog[p].mine,
         p \in Programs => PcOK(p)', p \in Sims => SimOK(p)',
         \A id : LiveIn(rows', id) => LiveIn(rows, id),
         \A k \in TextKeys : \A id :
              LiveIn(rows', id) /\ HasRow(rows, k, id) => HasRow(rows', k, id),
         \A r \in rows' : r.key \notin Sims => \E x \in rows : x.id = r.id /\ x.key = r.key,
         \A r \in rows' : r.key \in Sims => prog'[r.key].pc = "done"
  PROVE  ProgsInv'
<1>1. \A q \in Programs : q \in Actors BY DEF Actors
<1>2. \A q \in Programs : prog'[q].n = prog[q].n /\ prog'[q].mine = prog[q].mine BY <1>1
<1>3. \A x \in rows' : RowOK(x) BY DEF RowsInv
<1>4. ~ LiveIn(rows', Nobody) BY <1>3, NotNobody
<1>5. \A q \in Programs : Past(q)' = Past(q) /\ MineOK(q)' /\ WorkOK(q)'
  BY <1>2, <1>4, Still DEF Core
<1>6. ASSUME NEW q \in Programs PROVE PcOK(q)'
  <2>1. CASE q = p BY <2>1
  <2>2. CASE q # p
    <3>1. prog'[q] = prog[q] BY <2>2, <1>1
    <3> QED BY <3>1 DEF Core, ProgsInv, PcOK, At
  <2> QED BY <2>1, <2>2
<1>7. ASSUME NEW q \in Sims PROVE SimOK(q)'
  <2>1. CASE q = p BY <2>1
  <2>2. CASE q # p
    <3>1. prog'[q] = prog[q] BY <2>2 DEF Actors
    <3> QED BY <3>1 DEF Core, ProgsInv, SimOK
  <2> QED BY <2>1, <2>2
<1>8. \A r \in rows', q \in Programs : r.id = <<q, r.key>> => r.key \in Past(q)'
  <2> SUFFICES ASSUME NEW r \in rows', NEW q \in Programs, r.id = <<q, r.key>>
               PROVE  r.key \in Past(q)
    BY <1>5
  <2>1. r.key \notin Sims
    <3> SUFFICES ASSUME r.key \in Sims PROVE FALSE OBVIOUS
    <3>1. r.id = <<r.key, r.key>> BY <1>3 DEF RowOK
    <3> QED BY <3>1, Disjoint
  <2>2. PICK x \in rows : x.id = r.id /\ x.key = r.key BY <2>1
  <2> QED BY <2>2 DEF Core, ProgsInv, MakersPast
<1>9. MakersPast' BY <1>8 DEF MakersPast
<1> QED BY <1>5, <1>6, <1>7, <1>9 DEF ProgsInv

\* A turn that leaves the rows alone.
LEMMA Quiet ==
  ASSUME Core, rows' = rows, NEW p \in Actors, \A q \in Actors : q # p => prog'[q] = prog[q],
         prog'[p].n = prog[p].n, prog'[p].mine = prog[p].mine, prog[p].pc # "done",
         p \in Programs => PcOK(p)', p \in Sims => SimOK(p)'
  PROVE  RowsInv' /\ ProgsInv'
<1>1. RowsInv' BY DEF Core, RowsInv, Homed, Conflict
<1>2. \A r \in rows' : r.key \in Sims => prog'[r.key].pc = "done"
  <2> SUFFICES ASSUME NEW r \in rows, r.key \in Sims PROVE prog'[r.key].pc = "done" OBVIOUS
  <2>1. prog[r.key].pc = "done" /\ r.key \in Actors BY DEF Core, ProgsInv, MakersPast, Actors
  <2> QED BY <2>1
<1>3. /\ \A id : LiveIn(rows', id) => LiveIn(rows, id)
      /\ \A k \in TextKeys : \A id :
           LiveIn(rows', id) /\ HasRow(rows, k, id) => HasRow(rows', k, id)
      /\ \A r \in rows' : r.key \notin Sims => \E x \in rows : x.id = r.id /\ x.key = r.key
  OBVIOUS
<1> QED BY <1>1, <1>2, <1>3, Moved

\* A program that begins, or is cut short.
LEMMA Aborts ==
  ASSUME Core, rows' = rows, NEW p \in Actors, prog[p].pc # "done", Abort(p)
  PROVE  prog' \in [Actors -> ProgState] /\ RowsInv' /\ ProgsInv'
<1>1. /\ prog' \in [Actors -> ProgState] /\ \A q \in Actors : q # p => prog'[q] = prog[q]
      /\ prog'[p].pc = "error" /\ prog'[p].n = prog[p].n /\ prog'[p].mine = prog[p].mine
  BY TurnWith DEF Abort, Pcs
<1>2. p \in Programs => PcOK(p)' BY <1>1 DEF Core, ProgsInv, PcOK
<1>3. p \in Sims => SimOK(p)' BY <1>1 DEF SimOK
<1> QED BY <1>1, <1>2, <1>3, Quiet

\* create: the row is made, or refused and the program ends.
LEMMA Creates ==
  ASSUME Core, NEW p \in Programs, prog[p].pc \in {"at", "create"}, NEW s, s = At(p),
         Create(p, s)
  PROVE  prog' \in [Actors -> ProgState] /\ RowsInv' /\ ProgsInv'
<1>1. /\ prog[p].n \in Steps(p) /\ s = Text(p)[prog[p].n] /\ p \in Actors /\ PcOK(p)
      /\ prog[p].mine \in [Names -> Ids]
  BY AtGives
<1> DEFINE r == NewRow(p, s)
<1>2. /\ RowOK(r) /\ r.key = s.key /\ r.table = s.table /\ r.key \notin Sims
      /\ r.id = Id(p, s.table, s.key)
      /\ r.tenant = IF s.table = "tenant" THEN Id(p, s.table, s.key) ELSE prog[p].mine[s.of]
  BY <1>1, NewRowFacts
<1>3. \/ Accepted(r) /\ rows' = rows \cup {r} /\ Advance(p, s, r.id)
      \/ rows' = rows /\ Abort(p)
  BY DEF Create
<1> HIDE DEF r
<1>4. CASE rows' = rows /\ Abort(p) BY <1>1, <1>4, Aborts
<1>5. CASE Accepted(r) /\ rows' = rows \cup {r} /\ Advance(p, s, r.id)
  <2>1. r.id \in Ids BY <1>2 DEF RowOK, Row
  <2>2. LiesIn(p, s, r) BY <1>2 DEF LiesIn
  <2>3. RowsInv' BY <1>2, <1>5, <2>2, MadeRow
  <2>4. ProgsInv' BY <1>2, <1>5, <2>1, <2>2, <2>3, AdvanceMade
  <2>5. prog' \in [Actors -> ProgState] BY <1>1, <1>5, <2>1, AdvanceEffect DEF Core
  <2> QED BY <2>3, <2>4, <2>5
<1> QED BY <1>3, <1>4, <1>5
-----------------------------------------------------------------------------
(* Each step keeps the core of the invariant. *)

Others == demoDeaths' \in 0..DemoDeaths /\ crossed' \subseteq Actors /\ resetEver' \in BOOLEAN
          /\ refused' \subseteq Resets

LEMMA CoreOf ==
  ASSUME prog' \in [Actors -> ProgState], RowsInv', ProgsInv', Others
  PROVE  Core'
BY DEF Core, Typed, Others

LEMMA OverlapIsActors ==
  ASSUME Typed, NEW p \in Actors PROVE Overlap(p) \subseteq Actors
BY DEF Overlap, Running, Typed, Actors

LEMMA StartCore ==
  ASSUME Core, NEW p \in Programs, StartSeed(p) \/ StartReset(p)
  PROVE  /\ Core' /\ rows' = rows /\ prog[p].pc = "idle" /\ crossed' = Overlap(p)
         /\ \A q \in Actors : q # p => prog'[q] = prog[q]
         /\ prog'[p].n = prog[p].n /\ prog'[p].mine = prog[p].mine
<1>1. p \in Actors BY DEF Actors
<1>2. PICK c \in {"at", "delete"} :
        prog' = [prog EXCEPT ![p].pc = c] /\ (c = "delete" => p \in Resets)
  BY DEF StartSeed, StartReset
<1>3. /\ prog' \in [Actors -> ProgState] /\ \A q \in Actors : q # p => prog'[q] = prog[q]
      /\ prog'[p].pc = c /\ prog'[p].n = prog[p].n /\ prog'[p].mine = prog[p].mine
  BY <1>1, <1>2, Turn DEF Pcs
<1>4. prog[p].pc = "idle" /\ rows' = rows /\ crossed' = Overlap(p)
  BY DEF StartSeed, StartReset, MayStart
<1>5. PcOK(p)' BY <1>2, <1>3, <1>4, TextLength DEF Core, ProgsInv, PcOK
<1>6. p \notin Sims BY Disjoint
<1>7. RowsInv' /\ ProgsInv' BY <1>1, <1>3, <1>4, <1>5, <1>6, Quiet
<1>8. Others BY <1>1, <1>4, OverlapIsActors DEF Others, Core, Typed, StartSeed, StartReset
<1> QED BY <1>3, <1>4, <1>7, <1>8, CoreOf

LEMMA DeleteCore ==
  ASSUME Core, NEW p \in Programs, DeleteTenants(p)
  PROVE  Core'
<1>1. p \in Actors /\ p \notin Sims /\ prog[p].pc = "delete" BY Disjoint DEF Actors, DeleteTenants
<1>2. p \in Resets BY <1>1 DEF Core, ProgsInv, PcOK
<1>3. Others BY <1>2 DEF Others, Core, Typed, DeleteTenants
<1>4. CASE rows' = rows /\ Abort(p) BY <1>1, <1>3, <1>4, Aborts, CoreOf
<1>5. CASE rows' = {} /\ prog' = [prog EXCEPT ![p].pc = "at"]
  <2>1. /\ prog' \in [Actors -> ProgState] /\ \A q \in Actors : q # p => prog'[q] = prog[q]
        /\ prog'[p].pc = "at" /\ prog'[p].n = prog[p].n /\ prog'[p].mine = prog[p].mine
    BY <1>1, <1>5, Turn DEF Pcs
  <2>2. PcOK(p)' BY <1>1, <2>1, TextLength DEF Core, ProgsInv, PcOK
  <2>3. RowsInv' BY <1>5 DEF RowsInv
  <2>4. \A id : ~ LiveIn(rows', id) BY <1>5 DEF LiveIn
  <2>5. ProgsInv' BY <1>1, <1>5, <2>1, <2>2, <2>3, <2>4, Moved
  <2> QED BY <1>3, <2>1, <2>3, <2>5, CoreOf
<1> QED BY <1>4, <1>5 DEF DeleteTenants

LEMMA StatementCore ==
  ASSUME Core, NEW p \in Programs, Statement(p) \/ CreateMissing(p)
  PROVE  Core'
<1>1. Others BY DEF Others, Core, Typed, Statement, CreateMissing
<1>2. PICK s : s = At(p) OBVIOUS
<1>3. prog[p].pc \in {"at", "create"} BY DEF Statement, CreateMissing
<1>4. CASE Create(p, s) BY <1>1, <1>2, <1>3, <1>4, Creates, CoreOf
<1>5. CASE s.by # "new" /\ rows' = rows /\ \E r \in Found(p, s) : Advance(p, s, r.id)
  <2>1. PICK r \in Found(p, s) : Advance(p, s, r.id) BY <1>5
  <2>2. r.id \in Ids BY <1>2, <1>3, <1>5, FoundGives
  <2>3. RowsInv' /\ ProgsInv' BY <1>2, <1>3, <1>5, <2>1, <2>2, AdvanceFound
  <2>4. PcOK(p) BY DEF Core, ProgsInv
  <2>5. prog' \in [Actors -> ProgState] BY <1>2, <1>3, <2>1, <2>2, <2>4, AdvanceEffect DEF Core
  <2> QED BY <1>1, <2>3, <2>5, CoreOf
<1> QED BY <1>2, <1>4, <1>5 DEF Statement, CreateMissing, At

LEMMA LookForCore ==
  ASSUME Core, NEW p \in Programs, LookFor(p)
  PROVE  Core'
<1>1. Others BY DEF Others, Core, Typed, LookFor
<1>2. PICK s : s = At(p) OBVIOUS
<1>3. prog[p].pc = "at" /\ s.by = "missing" /\ rows' = rows BY <1>2 DEF LookFor, At
<1>4. CASE Found(p, s) # {} /\ Advance(p, s, Nobody)
  <2>1. PICK r \in Found(p, s) : TRUE BY <1>4
  <2>2. Nobody \in Ids BY DEF Nobody, Ids
  <2>3. PcOK(p) BY DEF Core, ProgsInv
  <2>4. prog[p].n \in Steps(p) /\ s = Text(p)[prog[p].n] BY <1>2, <1>3, AtGives
  <2>5. s.table # "tenant" BY <1>3, <2>4, ByFacts DEF Unnamed
  <2>6. RowsInv' /\ ProgsInv' BY <1>2, <1>3, <1>4, <2>2, <2>5, AdvanceFound
  <2>7. prog' \in [Actors -> ProgState] BY <1>2, <1>3, <1>4, <2>2, <2>3, AdvanceEffect DEF Core
  <2> QED BY <1>1, <2>6, <2>7, CoreOf
<1>5. CASE prog' = [prog EXCEPT ![p].pc = "create"]
  <2>1. p \in Actors /\ p \notin Sims BY Disjoint DEF Actors
  <2>2. /\ prog' \in [Actors -> ProgState] /\ \A q \in Actors : q # p => prog'[q] = prog[q]
        /\ prog'[p].pc = "create" /\ prog'[p].n = prog[p].n /\ prog'[p].mine = prog[p].mine
    BY <1>5, <2>1, Turn DEF Pcs
  <2>3. PcOK(p)' BY <1>2, <1>3, <2>2 DEF Core, ProgsInv, PcOK, At
  <2>4. RowsInv' /\ ProgsInv' BY <1>3, <2>1, <2>2, <2>3, Quiet
  <2> QED BY <1>1, <2>2, <2>4, CoreOf
<1> QED BY <1>2, <1>4, <1>5 DEF LookFor, At

LEMMA KilledCore ==
  ASSUME Core, NEW p \in Programs, Killed(p)
  PROVE  Core'
<1>1. p \in Actors /\ p \notin Sims /\ rows' = rows BY Disjoint DEF Actors, Killed
<1>2. /\ prog' \in [Actors -> ProgState] /\ \A q \in Actors : q # p => prog'[q] = prog[q]
      /\ prog'[p].pc = "killed" /\ prog'[p].n = prog[p].n /\ prog'[p].mine = prog[p].mine
  BY <1>1, Turn DEF Pcs, Killed
<1>3. PcOK(p)' BY <1>2 DEF Core, ProgsInv, PcOK
<1>4. prog[p].pc # "done" BY DEF Killed, Active
<1>5. RowsInv' /\ ProgsInv' BY <1>1, <1>2, <1>3, <1>4, Quiet
<1>6. Others BY DemoAssumption DEF Others, Core, Typed, Killed
<1> QED BY <1>2, <1>5, <1>6, CoreOf
-----------------------------------------------------------------------------
(* The simulations. *)

Alike(a, b) ==
  a.table = b.table /\ a.key = b.key /\ a.tenant = b.tenant /\ a.id = b.id /\ a.ref = b.ref

\* A row that is closed is otherwise as it was.
LEMMA Closing ==
  ASSUME RowsInv, NEW hit \in SUBSET rows,
         rows' = (rows \ hit) \cup {[q EXCEPT !.open = FALSE] : q \in hit},
         \A a, b \in rows : a.table = b.table /\ a.id = b.id => (a \in hit <=> b \in hit)
  PROVE  /\ RowsInv'
         /\ \A y \in rows' : \E x \in rows : Alike(x, y)
         /\ \A x \in rows : \E y \in rows' : Alike(x, y)
<1> DEFINE cl(x) == [x EXCEPT !.open = FALSE]
<1>1. ASSUME NEW x \in rows PROVE Alike(x, cl(x)) /\ RowOK(cl(x))
  <2>1. RowOK(x) /\ x \in Row BY DEF RowsInv, RowOK
  <2>2. Alike(x, cl(x)) /\ cl(x) \in Row BY <2>1 DEF Row, Alike
  <2> HIDE DEF cl
  <2>3. RowOK(cl(x)) BY <2>1, <2>2 DEF RowOK, Alike
  <2> QED BY <2>2, <2>3
<1>2. rows' = (rows \ hit) \cup {cl(q) : q \in hit} OBVIOUS
<1> HIDE DEF cl
<1>3. \A y \in rows' : \E x \in rows :
        Alike(x, y) /\ ((y = x /\ x \notin hit) \/ (y = cl(x) /\ x \in hit))
  <2> TAKE y \in rows'
  <2>1. CASE y \in rows \ hit
    <3>1. Alike(y, y) BY DEF Alike
    <3> QED BY <2>1, <3>1
  <2>2. CASE y \in {cl(q) : q \in hit}
    <3>1. PICK x \in hit : y = cl(x) BY <2>2
    <3>2. x \in rows BY <3>1
    <3> QED BY <3>1, <3>2, <1>1
  <2> QED BY <2>1, <2>2, <1>2
<1>4. \A x \in rows : \E y \in rows' : Alike(x, y)
  <2> TAKE x \in rows
  <2>1. CASE x \in hit
    <3>1. cl(x) \in rows' BY <2>1, <1>2
    <3> QED BY <3>1, <1>1
  <2>2. CASE x \notin hit
    <3>1. x \in rows' BY <2>2, <1>2
    <3> QED BY <3>1 DEF Alike
  <2> QED BY <2>1, <2>2
<1>5. \A y \in rows' : RowOK(y) BY <1>1, <1>3 DEF RowsInv
<1>6. ASSUME NEW y \in rows' PROVE Homed(y)'
  <2>1. PICK x \in rows : Alike(x, y) BY <1>3
  <2>2. PICK t \in rows : t.table = "tenant" /\ t.id = x.tenant
                          /\ (x.key \notin Sims => t.key = Line(x.key).of)
    BY DEF RowsInv, Homed
  <2>3. PICK u \in rows' : Alike(t, u) BY <1>4
  <2> QED BY <2>1, <2>2, <2>3 DEF Homed, Alike
<1>7. ASSUME NEW a \in rows', NEW b \in rows', Conflict(a, b) PROVE a = b
  <2>1. PICK x \in rows : Alike(x, a) /\ ((a = x /\ x \notin hit) \/ (a = cl(x) /\ x \in hit))
    BY <1>3
  <2>2. PICK y \in rows : Alike(y, b) /\ ((b = y /\ y \notin hit) \/ (b = cl(y) /\ y \in hit))
    BY <1>3
  <2>3. Conflict(x, y) BY <1>7, <2>1, <2>2 DEF Conflict, Alike
  <2>4. x = y BY <2>3 DEF RowsInv
  <2> QED BY <2>1, <2>2, <2>4
<1>8. RowsInv' BY <1>5, <1>6, <1>7 DEF RowsInv
<1> QED BY <1>3, <1>4, <1>8

\* The row of a simulation that has not ended is nobody's yet.
LEMMA FreshCall ==
  ASSUME Core, NEW p \in Sims, prog[p].pc # "done", NEW q \in rows
  PROVE  q.id # <<p, p>> /\ q.key # p
<1>1. RowOK(q) BY DEF Core, RowsInv
<1>2. q.key # p BY DEF Core, ProgsInv, MakersPast
<1>3. CASE q.key \in Sims BY <1>1, <1>2, <1>3 DEF RowOK
<1>4. CASE q.key \notin Sims
  <2>1. PICK x \in Programs \cup {"seed"} : q.id = <<x, q.key>> BY <1>1, <1>4 DEF RowOK
  <2> QED BY <2>1, <1>2
<1> QED BY <1>2, <1>3, <1>4

\* A simulation ends with a row of its own.
LEMMA SimAdds ==
  ASSUME Core, NEW p \in Sims, prog[p].pc # "done", NEW t \in Ids,
         \E x \in rows : x.table = "tenant" /\ x.id = t,
         NEW table \in {"payment", "webhook", "attempt"}, NEW ref \in Ids,
         NEW r, r = SimRow(p, t, table, ref), rows' = rows \cup {r},
         \A q \in Actors : q # p => prog'[q] = prog[q],
         prog'[p].n = prog[p].n, prog'[p].mine = prog[p].mine, prog'[p].pc = "done"
  PROVE  RowsInv' /\ ProgsInv' /\ r.key = p /\ r.table = table
<1>1. RowOK(r) /\ r.key = p /\ r.table = table /\ r.id = <<p, p>> /\ r.tenant = t
  BY SimRowFacts
<1> HIDE DEF SimRow
<1>2. \A q \in rows : ~ Conflict(r, q) BY <1>1, FreshCall DEF Conflict
<1>3. RowsInv' BY <1>1, <1>2, AddRow DEF Core
<1>4. p \in Actors /\ p \notin Programs BY Disjoint DEF Actors
<1>5. \A id : LiveIn(rows', id) => LiveIn(rows, id) BY <1>1 DEF LiveIn
<1>6. \A k \in TextKeys : \A id :
      LiveIn(rows', id) /\ HasRow(rows, k, id) => HasRow(rows', k, id)
  BY DEF HasRow
<1>7. \A x \in rows' : x.key \in Sims => prog'[x.key].pc = "done"
  <2> SUFFICES ASSUME NEW x \in rows', x.key \in Sims PROVE prog'[x.key].pc = "done" OBVIOUS
  <2>1. CASE x = r BY <2>1, <1>1
  <2>2. CASE x \in rows
    <3>1. prog[x.key].pc = "done" /\ x.key \in Actors BY <2>2 DEF Core, ProgsInv, MakersPast, Actors
    <3> QED BY <3>1
  <2> QED BY <2>1, <2>2
<1>8. SimOK(p)' BY DEF SimOK
<1>9. \A x \in rows' : x.key \notin Sims => \E y \in rows : y.id = x.id /\ y.key = x.key
  BY <1>1
<1>10. ProgsInv' BY <1>3, <1>4, <1>5, <1>6, <1>7, <1>8, <1>9, Moved
<1> QED BY <1>1, <1>3, <1>10

\* A simulation that is answered an error and writes nothing.
TurnedDown(p) == SimulateRefused(p) \/ SimulateRejected(p)

LEMMA LookCore ==
  ASSUME Core, NEW p \in Sims, SimulateLook(p) \/ TurnedDown(p)
  PROVE  /\ Core' /\ rows' = rows /\ \A q \in Actors : q # p => prog'[q] = prog[q]
         /\ prog'[p].pc \in {"refused", "rejected"}
            \/ (prog'[p].pc = "write" /\ prog'[p].found \in rows)
<1>1. p \in Actors /\ p \notin Programs BY Disjoint DEF Actors
<1>2. prog[p].pc = "idle" /\ rows' = rows BY DEF SimulateLook, TurnedDown, SimulateRefused, SimulateRejected
<1>3. Others BY <1>1, OverlapIsActors DEF Others, Core, Typed, SimulateLook, TurnedDown, SimulateRefused, SimulateRejected
<1>4. ASSUME NEW pc \in {"refused", "rejected"}, prog' = [prog EXCEPT ![p].pc = pc]
      PROVE  Core' /\ (\A q \in Actors : q # p => prog'[q] = prog[q]) /\ prog'[p].pc = pc
  <2>1. /\ prog' \in [Actors -> ProgState] /\ \A q \in Actors : q # p => prog'[q] = prog[q]
        /\ prog'[p].pc = pc /\ prog'[p].n = prog[p].n /\ prog'[p].mine = prog[p].mine
    BY <1>1, <1>4, Turn DEF Pcs
  <2>2. SimOK(p)' BY <2>1 DEF SimOK
  <2>3. RowsInv' /\ ProgsInv' BY <1>1, <1>2, <2>1, <2>2, Quiet
  <2> QED BY <1>2, <1>3, <2>1, <2>3, CoreOf
<1>5. ASSUME NEW r \in rows, r.table \in {"payment", "dispute", "txn"},
             prog' = [prog EXCEPT ![p].pc = "write", ![p].found = r]
      PROVE  Core' /\ (\A q \in Actors : q # p => prog'[q] = prog[q])
             /\ prog'[p].pc = "write" /\ prog'[p].found \in rows
  <2>1. r \in Row BY DEF Core, RowsInv, RowOK
  <2>2. /\ prog' \in [Actors -> ProgState] /\ \A q \in Actors : q # p => prog'[q] = prog[q]
        /\ prog'[p].pc = "write" /\ prog'[p].n = prog[p].n /\ prog'[p].mine = prog[p].mine
        /\ prog'[p].found = r
    BY <1>1, <1>5, <2>1, TurnWith DEF Pcs
  <2>3. SimOK(p)' BY <1>5, <2>1, <2>2 DEF SimOK
  <2>4. RowsInv' /\ ProgsInv' BY <1>1, <1>2, <2>2, <2>3, Quiet
  <2> QED BY <1>3, <2>2, <2>4, CoreOf
<1>6. \/ \E pc \in {"refused", "rejected"} : prog' = [prog EXCEPT ![p].pc = pc]
      \/ \E r \in rows : r.table \in {"payment", "dispute", "txn"}
                         /\ prog' = [prog EXCEPT ![p].pc = "write", ![p].found = r]
  BY DEF SimulateLook, TurnedDown, SimulateRefused, SimulateRejected
<1> QED BY <1>2, <1>4, <1>5, <1>6

\* What a simulation writes.
LEMMA WriteEffect ==
  ASSUME Core, NEW p \in Sims, SimulateWrite(p) \/ SimulateCreate(p)
  PROVE  /\ Core' /\ \A q \in Actors : q # p => prog'[q] = prog[q]
         /\ prog'[p].pc \in {"done", "error"}
         /\ \A y \in rows' : y.key = p \/ \E x \in rows : Alike(x, y)
         /\ \A x \in rows : \E y \in rows' : Alike(x, y)
         /\ \A y \in rows' : y.table = "bundle" => y \in rows
<1>1. p \in Actors /\ p \notin Programs BY Disjoint DEF Actors
<1>2. Others BY DEF Others, Core, Typed, SimulateWrite, SimulateCreate
<1>3. \A x : Alike(x, x) BY DEF Alike
<1>4. CASE SimulateCreate(p)
  <2>1. PICK t \in TenantIds, table \in {"payment", "webhook"} :
          rows' = rows \cup {SimRow(p, t, table, Nobody)}
    BY <1>4 DEF SimulateCreate
  <2>2. PICK x \in rows : x.table = "tenant" /\ x.id = t BY <2>1 DEF TenantIds
  <2>3. t \in Ids /\ Nobody \in Ids BY <2>2 DEF Core, RowsInv, RowOK, Row, Nobody, Ids
  <2>4. prog[p].pc = "idle" /\ prog' = [prog EXCEPT ![p].pc = "done"]
    BY <1>4 DEF SimulateCreate
  <2>5. /\ prog' \in [Actors -> ProgState] /\ \A q \in Actors : q # p => prog'[q] = prog[q]
        /\ prog'[p].pc = "done" /\ prog'[p].n = prog[p].n /\ prog'[p].mine = prog[p].mine
    BY <1>1, <2>4, Turn DEF Pcs
  <2> DEFINE r == SimRow(p, t, table, Nobody)
  <2>6. RowsInv' /\ ProgsInv' /\ r.key = p /\ r.table = table
    BY <2>1, <2>2, <2>3, <2>4, <2>5, SimAdds
  <2>7. rows' = rows \cup {r} BY <2>1
  <2> HIDE DEF r
  <2>8. Core' BY <1>2, <2>5, <2>6, CoreOf
  <2>9. \A y \in rows' : (y.key = p /\ y.table # "bundle") \/ y \in rows BY <2>6, <2>7
  <2>10. \A y \in rows : y \in rows' BY <2>7
  <2> QED BY <1>3, <2>5, <2>8, <2>9, <2>10
<1>5. CASE SimulateWrite(p)
  <2> DEFINE f == prog[p].found
             hit == {q \in rows : q.table = f.table /\ q.id = f.id}
             r == SimRow(p, f.tenant, "attempt", f.id)
  <2>1. prog[p].pc = "write" BY <1>5 DEF SimulateWrite
  <2>2. f \in Row /\ f.table \in {"payment", "dispute", "txn"}
    BY <2>1 DEF Core, ProgsInv, SimOK
  <2>3. \/ rows' = rows /\ Abort(p)
        \/ /\ f.table = "payment" /\ Accepted(r) /\ rows' = rows \cup {r}
           /\ prog' = [prog EXCEPT ![p].pc = "done", ![p].found = NoRow]
        \/ /\ rows' = (rows \ hit) \cup {[q EXCEPT !.open = FALSE] : q \in hit}
           /\ prog' = [prog EXCEPT ![p].pc = "done", ![p].found = NoRow]
    BY <1>5 DEF SimulateWrite
  <2>4. CASE rows' = rows /\ Abort(p)
    <3>1. /\ \A q \in Actors : q # p => prog'[q] = prog[q]
          /\ prog'[p].pc = "error"
      BY <1>1, <2>4, TurnWith DEF Abort, Pcs
    <3>2. Core' BY <1>1, <1>2, <2>1, <2>4, Aborts, CoreOf
    <3> QED BY <1>3, <2>4, <3>1, <3>2
  <2>5. ASSUME prog' = [prog EXCEPT ![p].pc = "done", ![p].found = NoRow]
        PROVE  /\ prog' \in [Actors -> ProgState] /\ \A q \in Actors : q # p => prog'[q] = prog[q]
               /\ prog'[p].pc = "done" /\ prog'[p].n = prog[p].n /\ prog'[p].mine = prog[p].mine
    BY <1>1, <2>5, TurnWith DEF Pcs
  <2>6. CASE /\ f.table = "payment" /\ Accepted(r) /\ rows' = rows \cup {r}
             /\ prog' = [prog EXCEPT ![p].pc = "done", ![p].found = NoRow]
    <3>1. f.tenant \in Ids /\ f.id \in Ids BY <2>2 DEF Row
    <3>2. r.table = "attempt" /\ r.tenant = f.tenant BY DEF SimRow
    <3>3. \E t \in rows : t.table = "tenant" /\ t.id = f.tenant
      BY <2>6, <3>2 DEF Accepted, Refers
    <3> HIDE DEF f
    <3>4. RowsInv' /\ ProgsInv' /\ r.key = p /\ r.table = "attempt"
      BY <2>1, <2>5, <2>6, <3>1, <3>3, SimAdds
    <3> HIDE DEF r
    <3>5. Core' BY <1>2, <2>5, <2>6, <3>4, CoreOf
    <3>6. \A y \in rows' : (y.key = p /\ y.table # "bundle") \/ y \in rows BY <2>6, <3>4
    <3>7. \A x \in rows : x \in rows' BY <2>6
    <3> QED BY <1>3, <2>5, <2>6, <3>5, <3>6, <3>7
  <2>7. CASE /\ rows' = (rows \ hit) \cup {[q EXCEPT !.open = FALSE] : q \in hit}
             /\ prog' = [prog EXCEPT ![p].pc = "done", ![p].found = NoRow]
    <3>1. /\ hit \in SUBSET rows
          /\ \A a, b \in rows : a.table = b.table /\ a.id = b.id => (a \in hit <=> b \in hit)
          /\ \A a \in hit : a.table # "bundle"
      BY <2>2
    <3> HIDE DEF hit
    <3>2. /\ RowsInv'
          /\ \A y \in rows' : \E x \in rows : Alike(x, y)
          /\ \A x \in rows : \E y \in rows' : Alike(x, y)
      BY <2>7, <3>1, Closing DEF Core
    <3>3. /\ \A id : LiveIn(rows', id) => LiveIn(rows, id)
          /\ \A k \in TextKeys : \A id :
               LiveIn(rows', id) /\ HasRow(rows, k, id) => HasRow(rows', k, id)
          /\ \A x \in rows' : x.key \notin Sims => \E y \in rows : y.id = x.id /\ y.key = x.key
      BY <3>2 DEF LiveIn, HasRow, Alike
    <3>4. \A x \in rows' : x.key \in Sims => prog'[x.key].pc = "done"
      <4> SUFFICES ASSUME NEW x \in rows', x.key \in Sims PROVE prog'[x.key].pc = "done" OBVIOUS
      <4>1. PICK y \in rows : Alike(y, x) BY <3>2
      <4>2. prog[x.key].pc = "done" /\ x.key \in Actors
        BY <4>1 DEF Core, ProgsInv, MakersPast, Actors, Alike
      <4> QED BY <4>2, <2>5, <2>7
    <3>5. SimOK(p)' BY <2>5, <2>7 DEF SimOK
    <3>6. ProgsInv' BY <1>1, <2>5, <2>7, <3>2, <3>3, <3>4, <3>5, Moved
    <3>7. Core' BY <1>2, <2>5, <2>7, <3>2, <3>6, CoreOf
    <3>8. \A y \in rows' : y.table = "bundle" => y \in rows
      <4> SUFFICES ASSUME NEW q \in hit PROVE [q EXCEPT !.open = FALSE].table # "bundle"
        BY <2>7
      <4>1. q \in Row BY <3>1 DEF Core, RowsInv, RowOK
      <4> QED BY <4>1, <3>1 DEF Row
    <3> QED BY <2>5, <2>7, <3>2, <3>7, <3>8
  <2> QED BY <2>3, <2>4, <2>6, <2>7
<1> QED BY <1>4, <1>5
-----------------------------------------------------------------------------
(* Who is alone. *)

LEMMA CrossedKept ==
  ASSUME CrossedInv, NEW p \in Actors, \A q \in Actors : q # p => prog'[q] = prog[q],
         crossed \subseteq crossed', Active(p)' => Active(p)
  PROVE  CrossedInv'
<1>1. \A q \in Actors : Active(q)' => Active(q) BY DEF Active
<1>2. \A q \in Programs \cup Sims : q \in Actors BY DEF Actors
<1> QED BY <1>1, <1>2 DEF CrossedInv

LEMMA CrossedStart ==
  ASSUME CrossedInv, NEW p \in Actors, \A q \in Actors : q # p => prog'[q] = prog[q],
         ~ Active(p), crossed' = Overlap(p)
  PROVE  CrossedInv' /\ crossed \subseteq crossed'
<1>1. crossed \subseteq crossed' BY DEF Overlap
<1>2. \A q \in Actors : q # p /\ Active(q)' => Active(q) /\ q \in Running
  BY DEF Active, Running, Actors
<1>3. \A q \in Programs \cup Sims : q \in Actors BY DEF Actors
<1>4. ASSUME NEW x \in Programs, NEW y \in Programs, Active(x)', Active(y)', x # y
      PROVE  x \in crossed'
  <2>1. CASE x = p
    <3>1. y \in Running \cap Programs BY <2>1, <1>2, <1>3, <1>4
    <3> QED BY <2>1, <3>1 DEF Overlap
  <2>2. CASE y = p
    <3>1. x \in Running BY <2>2, <1>2, <1>3, <1>4
    <3> QED BY <2>2, <3>1 DEF Overlap
  <2>3. CASE x # p /\ y # p BY <2>3, <1>1, <1>2, <1>3, <1>4 DEF CrossedInv
  <2> QED BY <2>1, <2>2, <2>3
<1>5. ASSUME NEW x \in Programs, NEW y \in Sims, Active(x)', Active(y)'
      PROVE  y \in crossed'
  <2>0. x # y BY Disjoint
  <2>1. CASE x = p
    <3>1. y \in Running BY <2>0, <2>1, <1>2, <1>3, <1>5
    <3> QED BY <2>1, <3>1 DEF Overlap
  <2>2. CASE y = p
    <3>1. x \in Running \cap Programs BY <2>0, <2>2, <1>2, <1>3, <1>5
    <3> QED BY <2>2, <3>1 DEF Overlap
  <2>3. CASE x # p /\ y # p BY <2>3, <1>1, <1>2, <1>3, <1>5 DEF CrossedInv
  <2> QED BY <2>1, <2>2, <2>3
<1> QED BY <1>1, <1>4, <1>5 DEF CrossedInv

\* A step of a program: whoever else counts as alone does not run.
LEMMA ProgAlone ==
  ASSUME CrossedInv, AloneInv, NEW p \in Programs, Active(p),
         \A q \in Actors : q # p => prog'[q] = prog[q],
         crossed' = crossed, resetEver' = resetEver,
         p \notin crossed => AloneOK(p)',
         ~ resetEver => rows \subseteq rows' /\ Standing(p)',
         ~ resetEver /\ Seeds \cap crossed = {} =>
           \A a, b \in rows' : a.table = "bundle" /\ b.table = "bundle" => a = b
  PROVE  AloneInv'
<1>1. \A q \in Programs : q \in Actors BY DEF Actors
<1>2. \A q \in Sims : q \in Actors /\ q # p BY Disjoint DEF Actors
<1>3. ASSUME NEW q \in Programs \ crossed' PROVE AloneOK(q)'
  <2>1. CASE q = p BY <2>1, <1>3
  <2>2. CASE q # p
    <3>1. ~ Active(q) BY <2>2 DEF CrossedInv
    <3>2. prog'[q] = prog[q] BY <2>2, <1>1
    <3> QED BY <3>1, <3>2 DEF AloneOK, Active
  <2> QED BY <2>1, <2>2
<1>4. ASSUME NEW q \in Sims \ crossed' PROVE CallOK(q)'
  <2>1. ~ Active(q) /\ prog'[q] = prog[q] BY <1>2 DEF CrossedInv
  <2> QED BY <2>1 DEF CallOK, Active
<1>5. Pristine'
  <2> SUFFICES ASSUME ~ resetEver, NEW q \in Programs
               PROVE  Standing(q)' /\ (q \in Resets => prog'[q].pc = "idle")
    BY DEF Pristine
  <2>1. CASE q = p
    <3>1. q \notin Resets BY <2>1 DEF AloneInv, Pristine, Active
    <3> QED BY <2>1, <3>1
  <2>2. CASE q # p
    <3>1. prog'[q] = prog[q] BY <2>2, <1>1
    <3>2. Past(q)' = Past(q) BY <3>1, PastKept
    <3>3. Standing(q) /\ (q \in Resets => prog[q].pc = "idle") BY DEF AloneInv, Pristine
    <3> QED BY <3>1, <3>2, <3>3 DEF Standing, LiveIn
  <2> QED BY <2>1, <2>2
<1>6. OneBundle' BY DEF OneBundle
<1> QED BY <1>3, <1>4, <1>5, <1>6 DEF AloneInv

\* A program begins: whoever runs is no longer alone.
LEMMA StartAlone ==
  ASSUME Core, CrossedInv, AloneInv, NEW p \in Programs, StartSeed(p) \/ StartReset(p)
  PROVE  AloneInv' /\ CrossedInv' /\ crossed \subseteq crossed'
<1>1. /\ rows' = rows /\ prog[p].pc = "idle" /\ crossed' = Overlap(p)
      /\ \A q \in Actors : q # p => prog'[q] = prog[q]
      /\ prog'[p].n = prog[p].n /\ prog'[p].mine = prog[p].mine
  BY StartCore
<1>2. p \in Actors /\ ~ Active(p) BY <1>1 DEF Actors, Active
<1>3. CrossedInv' /\ crossed \subseteq crossed' BY <1>1, <1>2, CrossedStart
<1>4. \A q \in Actors : q # p /\ Active(q)' => q \in crossed'
  BY <1>1, <1>2 DEF Overlap, Running, Actors, Active
<1>5. \/ prog'[p].pc = "at" /\ p \in Seeds /\ resetEver' = resetEver
      \/ prog'[p].pc = "delete" /\ resetEver' = TRUE
  <2>2. CASE StartSeed(p)
    <3>1. prog'[p].pc = "at" BY <1>2, <2>2, Turn DEF StartSeed, Pcs
    <3> QED BY <2>2, <3>1 DEF StartSeed
  <2>3. CASE StartReset(p)
    <3>1. prog'[p].pc = "delete" BY <1>2, <2>3, Turn DEF StartReset, Pcs
    <3> QED BY <2>3, <3>1 DEF StartReset
  <2> QED BY <2>2, <2>3
<1>6. p \notin Sims /\ (p \in Seeds => p \notin Resets) BY Disjoint
<1>7. ASSUME NEW q \in Programs \ crossed' PROVE AloneOK(q)'
  <2>1. CASE q = p BY <2>1, <1>5, <1>6 DEF AloneOK
  <2>2. CASE q # p
    <3>1. ~ Active(q)' BY <2>2, <1>4, <1>7 DEF Actors
    <3> QED BY <3>1 DEF AloneOK, Active
  <2> QED BY <2>1, <2>2
<1>8. ASSUME NEW q \in Sims \ crossed' PROVE CallOK(q)'
  <2>1. ~ Active(q)' BY <1>4, <1>6, <1>8 DEF Actors
  <2> QED BY <2>1 DEF CallOK, Active
<1>9. Pristine'
  <2> SUFFICES ASSUME ~ resetEver', NEW q \in Programs
               PROVE  Standing(q)' /\ (q \in Resets => prog'[q].pc = "idle")
    BY DEF Pristine
  <2>1. ~ resetEver /\ p \notin Resets BY <1>5, <1>6
  <2>2. prog'[q].n = prog[q].n /\ prog'[q].mine = prog[q].mine BY <1>1 DEF Actors
  <2>3. Past(q)' = Past(q) BY <2>2, PastKept
  <2>4. Standing(q) /\ (q \in Resets => prog[q].pc = "idle") BY <2>1 DEF AloneInv, Pristine
  <2>5. q \in Resets => prog'[q] = prog[q] BY <2>1, <1>1 DEF Actors
  <2> QED BY <1>1, <2>2, <2>3, <2>4, <2>5 DEF Standing
<1>10. OneBundle' BY <1>1, <1>3, <1>5 DEF OneBundle, AloneInv
<1> QED BY <1>3, <1>7, <1>8, <1>9, <1>10 DEF AloneInv

\* A step of a simulation: it makes nothing that a program looks for.
LEMMA SimAlone ==
  ASSUME Core, Core', AloneInv, NEW p \in Sims, \A q \in Actors : q # p => prog'[q] = prog[q],
         crossed \subseteq crossed', resetEver' = resetEver,
         \A y \in rows' : y.key = p \/ \E x \in rows : Alike(x, y),
         \A x \in rows : \E y \in rows' : Alike(x, y),
         \A y \in rows' : y.table = "bundle" => y \in rows,
         prog'[p].pc = "write" => prog'[p].found \in rows'
  PROVE  AloneInv'
<1>1. \A q \in Programs : prog'[q] = prog[q] BY Disjoint DEF Actors
<1>2. \A q \in Programs : Past(q)' = Past(q) BY <1>1, PastKept
<1>3. \A q \in Programs : Standing(q) => Standing(q)'
  BY <1>1, <1>2 DEF Standing, LiveIn, Alike
<1>4. ASSUME NEW q \in Programs \ crossed' PROVE AloneOK(q)'
  <2>1. AloneOK(q) BY <1>4 DEF AloneInv
  <2>2. prog'[q] = prog[q] BY <1>1
  <2>3. ASSUME prog[q].pc = "create" PROVE Found(q, At(q))' = {}
    <3>1. PICK s : s = At(q) OBVIOUS
    <3>2. At(q)' = s BY <2>2, <3>1 DEF At
    <3>3. s.by = "missing" BY <2>3, <3>1 DEF Core, ProgsInv, PcOK
    <3>4. Found(q, s) = {} BY <2>1, <2>3, <3>1 DEF AloneOK
    <3>5. prog[q].n \in Steps(q) /\ s = Text(q)[prog[q].n] BY <2>3, <3>1, AtGives
    <3>6. q \in Seeds /\ (s.table \notin Unnamed \/ s.table = "bundle") BY <3>3, <3>5, ByFacts
    <3>7. ASSUME NEW y \in rows', y.table = s.table,
                 s.table = "bundle" => y.tenant = prog[q].mine[s.of] /\ y.ref = Ref(q, s),
                 s.table # "bundle" => y.id = Id(q, s.table, s.key)
          PROVE  FALSE
      <4>1. CASE s.table = "bundle"
        <5>1. y \in rows BY <3>7, <4>1
        <5>2. y.tenant = prog[q].mine[s.of] /\ y.ref = Ref(q, s) /\ y.table = s.table
          BY <3>7, <4>1
        <5>3. y \in Found(q, s) BY <5>1, <5>2, <4>1 DEF Found
        <5> QED BY <5>3, <3>4
      <4>2. CASE s.table # "bundle"
        <5>1. y.id = <<"seed", s.key>> BY <3>6, <3>7, <4>2 DEF Id
        <5>2. RowOK(y) BY <3>7 DEF Core, RowsInv
        <5>3. "seed" \notin Sims BY Disjoint DEF Actors
        <5>4. y.key \notin Sims BY <5>1, <5>2, <5>3, IdsEnd
        <5>5. PICK x \in rows : Alike(x, y) BY <5>4, <3>7
        <5>6. x.table = s.table /\ x.id = Id(q, s.table, s.key) BY <5>5, <3>7, <4>2 DEF Alike
        <5>7. x \in Found(q, s) BY <5>6, <3>3, <4>2 DEF Found
        <5> QED BY <5>7, <3>4
      <4> QED BY <4>1, <4>2
    <3>8. \A y \in rows' : y \in Found(q, s)' => FALSE
      <4> SUFFICES ASSUME NEW y \in rows', y \in Found(q, s)' PROVE FALSE OBVIOUS
      <4>1. /\ y.table = s.table
            /\ s.table = "bundle" => y.tenant = prog[q].mine[s.of] /\ y.ref = Ref(q, s)
            /\ s.table # "bundle" => y.id = Id(q, s.table, s.key)
        <5>1. y.table = s.table BY DEF Found
        <5>2. s.table = "bundle" => y.tenant = prog[q].mine[s.of] /\ y.ref = Ref(q, s)
          BY <2>2 DEF Found, Ref
        <5>3. s.table # "bundle" => y.id = Id(q, s.table, s.key)
          BY <3>3 DEF Found
        <5> QED BY <5>1, <5>2, <5>3
      <4> QED BY <4>1, <3>7
    <3>9. Found(q, s)' \subseteq rows' BY DEF Found
    <3>10. Found(q, s)' = {} BY <3>8, <3>9
    <3>11. Found(q, At(q))' = Found(q, s)' BY <3>2 DEF Found, Ref
    <3> QED BY <3>10, <3>11
  <2>4. ASSUME q \in Resets, prog[q].pc = "at"
        PROVE  Standing(q)' /\ \A r \in rows' : r.key \in Sims \/ r.id = <<q, r.key>>
    BY <2>1, <2>4, <1>3 DEF AloneOK, Alike
  <2> QED BY <2>2, <2>3, <2>4 DEF AloneOK
<1>5. ASSUME NEW q \in Sims \ crossed' PROVE CallOK(q)'
  <2>1. CASE q = p BY <2>1 DEF CallOK
  <2>2. CASE q # p
    <3>1. prog'[q] = prog[q] /\ CallOK(q) BY <2>2, <1>5 DEF Actors, AloneInv
    <3>2. ASSUME prog[q].pc = "write" PROVE CallOK(q)'
      <4>1. PICK x \in rows : /\ x.table = prog[q].found.table /\ x.id = prog[q].found.id
                              /\ x.tenant = prog[q].found.tenant
        BY <3>1, <3>2 DEF CallOK
      <4>2. PICK y \in rows' : Alike(x, y) OBVIOUS
      <4> QED BY <3>1, <4>1, <4>2 DEF CallOK, Alike
    <3> QED BY <3>1, <3>2 DEF CallOK
  <2> QED BY <2>1, <2>2
<1>6. Pristine' BY <1>1, <1>3 DEF Pristine, AloneInv
<1>7. OneBundle' BY DEF OneBundle, AloneInv
<1> QED BY <1>4, <1>5, <1>6, <1>7 DEF AloneInv
-----------------------------------------------------------------------------
(* What runs alone does not fail. *)

\* The tenant of a statement lives, for a program that is alone.
LEMMA AtHome ==
  ASSUME Core, NEW p \in Programs, prog[p].pc \in {"at", "create"}, Standing(p),
         NEW s, s = At(p), s.table # "tenant"
  PROVE  /\ LiveIn(rows, prog[p].mine[s.of])
         /\ \A q \in rows : q.key \notin Sims /\ Line(q.key).of = s.of =>
              q.tenant = prog[p].mine[s.of]
<1>1. /\ s.of \in Names /\ s.of \in Past(p)
      /\ \E q \in Programs : prog[p].mine[s.of] = <<q, s.of>>
  BY AtGives
<1>2. LiveIn(rows, prog[p].mine[s.of]) BY <1>1 DEF Standing
<1>3. PICK x \in Programs : prog[p].mine[s.of] = <<x, s.of>> BY <1>1
<1> QED BY <1>2, <1>3, LiveHome DEF Core

\* What a statement refers to has been made, by seeds under its literal id.
LEMMA Referred ==
  ASSUME Core, NEW p \in Programs, prog[p].pc \in {"at", "create"}, Standing(p),
         NEW s, s = At(p), s.ref # "none",
         p \in Seeds => \A q \in Resets : prog[q].pc = "idle",
         p \notin Seeds => \A r \in rows : r.key \in Sims \/ r.id = <<p, r.key>>
  PROVE  \E q \in rows : q.table = RefTable[s.table] /\ q.id = Ref(p, s)
<1>1. /\ s.of \in Names /\ s.ref \in Past(p) /\ WorkOK(p) /\ Past(p) \subseteq TextKeys
      /\ s.key \in TextKeys /\ s.table = Line(s.key).table
      /\ s.of = Line(s.key).of /\ s.ref = Line(s.key).ref
  BY AtGives
<1>2. /\ s.ref \in TextKeys /\ Line(s.ref).table = RefTable[s.table] /\ Line(s.ref).of = s.of
      /\ RefTable[s.table] \notin Unnamed
  BY <1>1, LineRefs
<1>3. s.table # "tenant" BY <1>1, ReferringTables
<1>4. LiveIn(rows, prog[p].mine[s.of]) BY <1>3, AtHome
<1>5. HasRow(rows, s.ref, prog[p].mine[s.of]) BY <1>1, <1>2, <1>4 DEF WorkOK
<1>6. PICK q \in rows : q.key = s.ref BY <1>5 DEF HasRow
<1>7. RowOK(q) /\ q.key \notin Sims BY <1>2, <1>6, Disjoint DEF Core, RowsInv
<1>8. q.table = RefTable[s.table] BY <1>2, <1>6, <1>7, TextRow
<1>9. Ref(p, s) = IF p \in Seeds THEN <<"seed", s.ref>> ELSE <<p, s.ref>>
  BY <1>2 DEF Ref, Id
<1>10. CASE p \in Seeds
  <2>1. PICK x \in Programs \cup {"seed"} :
          q.id = <<x, q.key>> /\ (x \in Seeds => q.table \in Unnamed)
    BY <1>7 DEF RowOK
  <2>2. x \notin Seeds BY <2>1, <1>2, <1>8
  <2>3. x \notin Resets
    <3> SUFFICES ASSUME x \in Resets PROVE FALSE OBVIOUS
    <3>1. x \in Programs /\ PcOK(x) /\ prog[x].pc = "idle"
      BY <1>10 DEF Programs, Core, ProgsInv
    <3>2. q.key \in Past(x) BY <2>1, <3>1 DEF Core, ProgsInv, MakersPast
    <3>3. Past(x) = {} BY <3>1, BeforeFacts DEF PcOK, Past
    <3> QED BY <3>2, <3>3
  <2>4. x = "seed" BY <2>1, <2>2, <2>3 DEF Programs
  <2> QED BY <1>6, <1>8, <1>9, <1>10, <2>1, <2>4
<1>11. CASE p \notin Seeds BY <1>6, <1>7, <1>8, <1>9, <1>11
<1> QED BY <1>10, <1>11

\* Nothing stands in the way of a row that was not found.
LEMMA NoConflict ==
  ASSUME Core, NEW p \in Programs, prog[p].pc \in {"at", "create"}, Standing(p),
         NEW s, s = At(p), s.by # "new" => Found(p, s) = {},
         p \notin Seeds => \A r \in rows : r.key \in Sims \/ r.id = <<p, r.key>>,
         NEW q \in rows, Conflict(NewRow(p, s), q)
  PROVE  FALSE
<1>1. /\ prog[p].n \in Steps(p) /\ s = Text(p)[prog[p].n] /\ p \in Actors
      /\ prog[p].mine \in [Names -> Ids]
      /\ s.key \in TextKeys /\ s.key \notin Past(p) /\ s.key \notin Sims
      /\ s.of = Line(s.key).of
  BY AtGives
<1>2. RowOK(q) BY DEF Core, RowsInv
<1> DEFINE r == NewRow(p, s)
<1>3. /\ r.key = s.key /\ r.table = s.table /\ r.id = Id(p, s.table, s.key)
      /\ r.tenant = IF s.table = "tenant" THEN Id(p, s.table, s.key) ELSE prog[p].mine[s.of]
  BY <1>1, NewRowFacts
<1>4. /\ r.table = q.table
      /\ \/ r.id = q.id
         \/ r.table \in Keyed /\ r.key = q.key /\ (r.table \in Global \/ r.tenant = q.tenant)
  BY DEF Conflict
<1> HIDE DEF r
<1>5. q.key = s.key
  <2>1. CASE r.id = q.id
    <3>1. q.id = <<"seed", s.key>> \/ q.id = <<p, s.key>> BY <2>1, <1>3 DEF Id
    <3>2. "seed" \notin Sims /\ p \notin Sims BY Disjoint DEF Actors
    <3> QED BY <3>1, <3>2, <1>2, IdsEnd
  <2>2. CASE r.id # q.id BY <2>2, <1>3, <1>4
  <2> QED BY <2>1, <2>2
<1>6. q.id # <<p, s.key>> BY <1>1, <1>5 DEF Core, ProgsInv, MakersPast
<1>7. CASE p \notin Seeds BY <1>7, <1>1, <1>5, <1>6
<1>8. CASE p \in Seeds
  <2>1. /\ s.by \in {"key", "id", "missing"} /\ (s.by = "key" <=> s.table \in Keyed)
        /\ s.table = "bundle" => s.by = "missing"
    BY <1>1, <1>8, ByFacts
  <2>2. q \notin Found(p, s) BY <2>1
  <2>3. CASE s.by = "key"
    <3>1. s.table # "bundle" BY <2>1, <2>3
    <3>2. s.table = "tenant" => s.table \in Global BY DEF Global
    <3>3. s.table # "tenant" => q.tenant = prog[p].mine[s.of] BY <1>1, <1>5, AtHome
    <3> QED BY <2>2, <2>3, <3>1, <3>2, <3>3, <1>3, <1>4, <1>5 DEF Found
  <2>4. CASE s.by # "key"
    <3>1. q.id = Id(p, s.table, s.key) BY <2>1, <2>4, <1>3, <1>4
    <3>2. s.table # "bundle" BY <3>1, <1>6 DEF Id, Unnamed
    <3> QED BY <2>1, <2>2, <2>4, <3>1, <3>2, <1>3, <1>4 DEF Found
  <2> QED BY <2>3, <2>4
<1> QED BY <1>7, <1>8

\* A program that is alone makes its rows.
LEMMA AloneCreates ==
  ASSUME Core, AloneInv, NEW p \in Programs, p \notin crossed, p \in Seeds => ~ resetEver,
         prog[p].pc \in {"at", "create"}, NEW s, s = At(p), s.by # "new" => Found(p, s) = {}
  PROVE  Accepted(NewRow(p, s))
<1>1. prog[p].n \in Steps(p) /\ s = Text(p)[prog[p].n] /\ PcOK(p) BY AtGives
<1>2. p \notin Seeds => p \in Resets /\ prog[p].pc = "at"
  BY <1>1, ByFacts, Disjoint DEF PcOK
<1>3. AloneOK(p) BY DEF AloneInv
<1>4. Standing(p) BY <1>2, <1>3 DEF AloneOK, AloneInv, Pristine
<1>5. p \notin Seeds => \A r \in rows : r.key \in Sims \/ r.id = <<p, r.key>>
  BY <1>2, <1>3 DEF AloneOK
<1>6. p \in Seeds => \A q \in Resets : prog[q].pc = "idle"
  BY DEF AloneInv, Pristine, Programs
<1>7. /\ NewRow(p, s).table = s.table /\ NewRow(p, s).ref = Ref(p, s)
      /\ s.table # "tenant" => NewRow(p, s).tenant = prog[p].mine[s.of]
  BY DEF NewRow
<1>8. \A q \in rows : ~ Conflict(NewRow(p, s), q) BY <1>4, <1>5, NoConflict
<1>9. s.table = "tenant" \/ \E t \in rows : t.table = "tenant" /\ t.id = prog[p].mine[s.of]
  BY <1>4, AtHome DEF LiveIn
<1>10. CASE s.ref = "none"
  <2>1. Ref(p, s) = Nobody BY <1>10 DEF Ref
  <2> QED BY <2>1, <1>7, <1>8, <1>9 DEF Accepted, Refers
<1>11. CASE s.ref # "none"
  <2>1. \E q \in rows : q.table = RefTable[s.table] /\ q.id = Ref(p, s)
    BY <1>4, <1>5, <1>6, <1>11, Referred
  <2> QED BY <2>1, <1>7, <1>8, <1>9 DEF Accepted, Refers
<1> QED BY <1>10, <1>11

\* A simulation under which no program starts writes.
LEMMA AloneWrites ==
  ASSUME Core, AloneInv, NEW p \in Sims, p \notin crossed, SimulateWrite(p)
  PROVE  prog'[p].pc = "done"
<1> DEFINE f == prog[p].found
           hit == {q \in rows : q.table = f.table /\ q.id = f.id}
           r == SimRow(p, f.tenant, "attempt", f.id)
<1>1. prog[p].pc = "write" /\ p \in Actors BY DEF SimulateWrite, Actors
<1>2. PICK q \in rows : q.table = f.table /\ q.id = f.id /\ q.tenant = f.tenant
  BY <1>1 DEF AloneInv, CallOK
<1>3. hit # {} BY <1>2
<1>4. CASE f.table = "payment" /\ ~ Accepted(r)
  <2>1. /\ r.table = "attempt" /\ r.tenant = f.tenant /\ r.ref = f.id /\ r.id = <<p, p>>
    BY DEF SimRow
  <2> HIDE DEF r
  <2>2. PICK t \in rows : t.table = "tenant" /\ t.id = q.tenant BY DEF Core, RowsInv, Homed
  <2>3. RefTable["attempt"] = "payment" BY DEF RefTable
  <2>4. Refers(r) BY <1>2, <1>4, <2>1, <2>2, <2>3 DEF Refers
  <2>5. \A x \in rows : ~ Conflict(r, x) BY <1>1, <2>1, FreshCall DEF Conflict, Keyed
  <2> QED BY <1>4, <2>4, <2>5 DEF Accepted
<1>5. CASE ~ (f.table = "payment" /\ ~ Accepted(r))
  <2>1. prog' = [prog EXCEPT ![p].pc = "done", ![p].found = NoRow]
    BY <1>3, <1>5 DEF SimulateWrite
  <2> QED BY <2>1, <1>1, TurnWith DEF Pcs
<1> QED BY <1>4, <1>5
-----------------------------------------------------------------------------
(* Each step keeps the rest of the invariant. *)

Rest == CrossedInv /\ AloneInv /\ FailedHasReason

\* A failure stays excused.
LEMMA FailKept ==
  ASSUME FailedHasReason, NEW p \in Actors, \A q \in Actors : q # p => prog'[q] = prog[q],
         crossed \subseteq crossed', refused \subseteq refused', resetEver => resetEver',
         prog'[p].pc = "error" =>
           p \in crossed' \cup refused' \/ (p \in Seeds /\ resetEver')
  PROVE  FailedHasReason'
BY DEF FailedHasReason, Actors

LEMMA StartRest ==
  ASSUME Core, Rest, NEW p \in Programs, StartSeed(p) \/ StartReset(p)
  PROVE  Rest'
<1>1. AloneInv' /\ CrossedInv' /\ crossed \subseteq crossed' BY StartAlone DEF Rest
<1>2. \A q \in Actors : q # p => prog'[q] = prog[q] BY StartCore
<1>3. p \in Actors BY DEF Actors
<1>4. prog'[p].pc # "error" BY <1>3, Turn DEF StartSeed, StartReset, Pcs
<1>5. refused' = refused /\ (resetEver => resetEver') BY DEF StartSeed, StartReset
<1>6. FailedHasReason' BY <1>1, <1>2, <1>3, <1>4, <1>5, FailKept DEF Rest
<1> QED BY <1>1, <1>6 DEF Rest

LEMMA DeleteRest ==
  ASSUME Core, Rest, NEW p \in Programs, DeleteTenants(p)
  PROVE  Rest'
<1>1. p \in Actors /\ Active(p) /\ prog[p].pc = "delete" BY DEF Actors, Active, DeleteTenants
<1>2. p \in Resets /\ prog[p].n = 1 BY <1>1 DEF Core, ProgsInv, PcOK
<1>3. resetEver BY <1>1, <1>2 DEF Rest, AloneInv, Pristine
<1>4. crossed' = crossed /\ resetEver' = resetEver BY DEF DeleteTenants
<1>5. CASE rows' = rows /\ Abort(p) /\ refused' = refused \cup {p}
  <2>1. /\ \A q \in Actors : q # p => prog'[q] = prog[q]
        /\ prog'[p].pc = "error"
    BY <1>1, <1>5, TurnWith DEF Abort, Pcs
  <2>2. CrossedInv' BY <1>1, <1>4, <2>1, CrossedKept DEF Rest
  <2>3. AloneOK(p)' BY <2>1 DEF AloneOK
  <2>4. AloneInv' BY <1>1, <1>3, <1>4, <2>1, <2>3, ProgAlone DEF Rest
  <2>5. FailedHasReason' BY <1>1, <1>4, <1>5, <2>1, FailKept DEF Rest
  <2> QED BY <2>2, <2>4, <2>5 DEF Rest
<1>6. CASE rows' = {} /\ refused' = refused /\ prog' = [prog EXCEPT ![p].pc = "at"]
  <2>1. /\ \A q \in Actors : q # p => prog'[q] = prog[q]
        /\ prog'[p].pc = "at" /\ prog'[p].n = prog[p].n /\ prog'[p].mine = prog[p].mine
    BY <1>1, <1>6, Turn DEF Pcs
  <2>2. CrossedInv' BY <1>1, <1>4, <2>1, CrossedKept DEF Rest
  <2>3. Past(p)' = {}
    <3>1. PcOK(p) BY DEF Core, ProgsInv
    <3>2. Before(p, 1) = {} BY <1>2, <3>1, BeforeFacts DEF PcOK
    <3> QED BY <1>2, <2>1, <3>2 DEF Past
  <2>4. AloneOK(p)' BY <1>6, <2>1, <2>3 DEF AloneOK, Standing
  <2>5. AloneInv' BY <1>1, <1>3, <1>4, <2>1, <2>4, ProgAlone DEF Rest
  <2>6. FailedHasReason' BY <1>1, <1>4, <1>6, <2>1, FailKept DEF Rest
  <2> QED BY <2>2, <2>5, <2>6 DEF Rest
<1> QED BY <1>5, <1>6 DEF DeleteTenants

LEMMA KilledRest ==
  ASSUME Core, Rest, NEW p \in Programs, Killed(p)
  PROVE  Rest'
<1>1. p \in Actors /\ Active(p) BY DEF Actors, Killed
<1>2. /\ \A q \in Actors : q # p => prog'[q] = prog[q]
      /\ prog'[p].pc = "killed" /\ prog'[p].n = prog[p].n /\ prog'[p].mine = prog[p].mine
  BY <1>1, Turn DEF Pcs, Killed
<1>3. /\ rows' = rows /\ crossed' = crossed /\ resetEver' = resetEver /\ refused' = refused
  BY DEF Killed
<1>4. CrossedInv' BY <1>1, <1>2, <1>3, CrossedKept DEF Rest
<1>5. AloneOK(p)' BY <1>2 DEF AloneOK
<1>6. ~ resetEver => Standing(p)'
  <2>1. Past(p)' = Past(p) BY <1>2, PastKept
  <2> QED BY <1>2, <1>3, <2>1 DEF Standing, Rest, AloneInv, Pristine
<1>7. ~ resetEver /\ Seeds \cap crossed = {} =>
        \A a, b \in rows' : a.table = "bundle" /\ b.table = "bundle" => a = b
  BY <1>3 DEF Rest, AloneInv, OneBundle
<1>8. AloneInv' BY <1>1, <1>2, <1>3, <1>5, <1>6, <1>7, ProgAlone DEF Rest
<1>9. FailedHasReason' BY <1>1, <1>2, <1>3, FailKept DEF Rest
<1> QED BY <1>4, <1>8, <1>9 DEF Rest

LEMMA AfterAdvance ==
  ASSUME Core, NEW p \in Programs, prog[p].pc \in {"at", "create"}, NEW s, s = At(p),
         NEW id \in Ids, Advance(p, s, id)
  PROVE  /\ \A q \in Actors : q # p => prog'[q] = prog[q]
         /\ prog'[p].pc \in {"at", "done"}
         /\ Past(p)' = Past(p) \cup {s.key}
         /\ \A o \in Names : prog'[p].mine[o] =
              IF s.table = "tenant" /\ o = s.of THEN id ELSE prog[p].mine[o]
<1>1. PcOK(p) BY AtGives
<1>2. Typed BY DEF Core
<1> QED BY <1>1, <1>2, AdvanceEffect

\* A seed has found what it looked for.
LEMMA FoundRest ==
  ASSUME Core, Rest, NEW p \in Programs, prog[p].pc = "at", NEW s, s = At(p),
         s.by # "new", NEW r \in Found(p, s), NEW id \in Ids, s.table = "tenant" => id = r.id,
         Advance(p, s, id), rows' = rows,
         crossed' = crossed, resetEver' = resetEver, refused' = refused
  PROVE  Rest'
<1>1. /\ p \in Actors /\ PcOK(p) /\ prog[p].n \in Steps(p) /\ s = Text(p)[prog[p].n]
      /\ s.of \in Names /\ s.key \in TextKeys /\ s.table = Line(s.key).table
      /\ s.of = Line(s.key).of /\ (s.table = "tenant" => s.of = s.key)
  BY AtGives
<1>2. Active(p) BY DEF Active
<1>3. p \in Seeds /\ p \notin Resets BY <1>1, ByFacts, Disjoint
<1>4. /\ \A q \in Actors : q # p => prog'[q] = prog[q]
      /\ prog'[p].pc \in {"at", "done"}
      /\ Past(p)' = Past(p) \cup {s.key}
      /\ \A o \in Names : prog'[p].mine[o] =
           IF s.table = "tenant" /\ o = s.of THEN id ELSE prog[p].mine[o]
  BY AfterAdvance
<1>5. CrossedInv' BY <1>1, <1>2, <1>4, CrossedKept DEF Rest
<1>6. AloneOK(p)' BY <1>3, <1>4 DEF AloneOK
<1>7. r \in rows /\ r.table = s.table BY DEF Found
<1>8. ~ resetEver => Standing(p)'
  <2> SUFFICES ASSUME ~ resetEver, NEW o \in Names, o \in Past(p)'
               PROVE  LiveIn(rows', prog'[p].mine[o])
    BY DEF Standing
  <2>1. CASE s.table = "tenant" /\ o = s.of
    <3>1. prog'[p].mine[o] = id BY <2>1, <1>4
    <3> QED BY <2>1, <3>1, <1>7 DEF LiveIn
  <2>2. CASE ~ (s.table = "tenant" /\ o = s.of)
    <3>1. prog'[p].mine[o] = prog[p].mine[o] BY <2>2, <1>4
    <3>2. s.key \in Names => s.table = "tenant" BY <1>1, LineFacts
    <3>3. o \in Past(p)
      <4>1. o \in Past(p) \cup {s.key} BY <1>4, Zenon
      <4>2. o # s.key BY <2>2, <3>2, <1>1
      <4> QED BY <4>1, <4>2
    <3> QED BY <3>1, <3>3 DEF Rest, AloneInv, Pristine, Standing
  <2> QED BY <2>1, <2>2
<1>9. ~ resetEver /\ Seeds \cap crossed = {} =>
        \A a, b \in rows' : a.table = "bundle" /\ b.table = "bundle" => a = b
  BY DEF Rest, AloneInv, OneBundle
<1>10. AloneInv' BY <1>2, <1>4, <1>6, <1>8, <1>9, ProgAlone DEF Rest
<1>11. FailedHasReason' BY <1>1, <1>4, FailKept DEF Rest
<1> QED BY <1>5, <1>10, <1>11 DEF Rest

\* A program has made its row.
LEMMA MadeRest ==
  ASSUME Core, Rest, NEW p \in Programs, prog[p].pc \in {"at", "create"}, NEW s, s = At(p),
         s.by = "missing" => prog[p].pc = "create", NEW id \in Ids, Advance(p, s, id),
         NEW r, RowOK(r), r.key = s.key, r.table = s.table, r.id = Id(p, s.table, s.key),
         r.ref = Ref(p, s), s.table = "tenant" => r.id = id, rows' = rows \cup {r},
         crossed' = crossed, resetEver' = resetEver, refused' = refused
  PROVE  Rest'
<1>1. /\ p \in Actors /\ PcOK(p) /\ prog[p].n \in Steps(p) /\ s = Text(p)[prog[p].n]
      /\ s.of \in Names /\ s.key \in TextKeys /\ s.table = Line(s.key).table
      /\ s.of = Line(s.key).of /\ (s.table = "tenant" => s.of = s.key)
  BY AtGives
<1>2. Active(p) BY DEF Active
<1>3. p \in Resets => p \notin Seeds /\ prog[p].pc = "at"
  BY <1>1, ByFacts, Disjoint DEF PcOK
<1>4. /\ \A q \in Actors : q # p => prog'[q] = prog[q]
      /\ prog'[p].pc \in {"at", "done"}
      /\ Past(p)' = Past(p) \cup {s.key}
      /\ \A o \in Names : prog'[p].mine[o] =
           IF s.table = "tenant" /\ o = s.of THEN id ELSE prog[p].mine[o]
  BY AfterAdvance
<1>5. CrossedInv' BY <1>1, <1>2, <1>4, CrossedKept DEF Rest
<1>6. Standing(p) => Standing(p)'
  <2> SUFFICES ASSUME Standing(p), NEW o \in Names, o \in Past(p)'
               PROVE  LiveIn(rows', prog'[p].mine[o])
    BY DEF Standing
  <2>1. CASE s.table = "tenant" /\ o = s.of
    <3>1. prog'[p].mine[o] = id BY <2>1, <1>4
    <3> QED BY <2>1, <3>1 DEF LiveIn
  <2>2. CASE ~ (s.table = "tenant" /\ o = s.of)
    <3>1. prog'[p].mine[o] = prog[p].mine[o] BY <2>2, <1>4
    <3>2. s.key \in Names => s.table = "tenant" BY <1>1, LineFacts
    <3>3. o \in Past(p)
      <4>1. o \in Past(p) \cup {s.key} BY <1>4, Zenon
      <4>2. o # s.key BY <2>2, <3>2, <1>1
      <4> QED BY <4>1, <4>2
    <3>4. LiveIn(rows, prog[p].mine[o]) BY <3>3 DEF Standing
    <3> QED BY <3>1, <3>4 DEF LiveIn
  <2> QED BY <2>1, <2>2
<1>7. p \notin crossed => AloneOK(p)'
  <2> SUFFICES ASSUME p \notin crossed PROVE AloneOK(p)' OBVIOUS
  <2>1. AloneOK(p) BY DEF Rest, AloneInv
  <2>2. p \in Resets => r.id = <<p, r.key>> BY <1>3 DEF Id
  <2> QED BY <2>1, <2>2, <1>3, <1>4, <1>6 DEF AloneOK
<1>8. ~ resetEver => Standing(p)' BY <1>6 DEF Rest, AloneInv, Pristine
<1>9. ASSUME ~ resetEver, Seeds \cap crossed = {}, r.table = "bundle", NEW b \in rows,
             b.table = "bundle"
      PROVE  FALSE
  <2>1. p \in Seeds /\ s.by = "missing" BY <1>1, <1>9, ByFacts
  <2>2. Found(p, s) = {} BY <2>1, <1>9 DEF Rest, AloneInv, AloneOK
  <2>3. RowOK(b) BY DEF Core, RowsInv
  <2>4. b.ref = Ref(p, s) BY <2>3, <1>9 DEF RowOK
  <2>5. b.key \notin Sims BY <2>3, <1>9 DEF RowOK
  <2>6. b.key \in TextKeys /\ Line(b.key).table = "bundle" BY <2>3, <2>5, <1>9, TextRow
  <2>7. Line(b.key).of = "acme" BY <2>6, LineFacts
  <2>8. s.of = "acme" BY <1>1, <1>9, LineFacts
  <2>9. Standing(p) BY <1>9 DEF Rest, AloneInv, Pristine
  <2>10. s.table # "tenant" BY <1>9
  <2>11. \A q \in rows : q.key \notin Sims /\ Line(q.key).of = s.of =>
           q.tenant = prog[p].mine[s.of]
    BY <2>9, <2>10, AtHome
  <2>12. b.tenant = prog[p].mine[s.of] BY <2>5, <2>7, <2>8, <2>11
  <2> QED BY <2>2, <2>4, <2>12, <1>9 DEF Found
<1>10. ~ resetEver /\ Seeds \cap crossed = {} =>
        \A a, b \in rows' : a.table = "bundle" /\ b.table = "bundle" => a = b
  BY <1>9 DEF Rest, AloneInv, OneBundle
<1>11. AloneInv' BY <1>2, <1>4, <1>7, <1>8, <1>10, ProgAlone DEF Rest
<1>12. FailedHasReason' BY <1>1, <1>4, FailKept DEF Rest
<1> QED BY <1>5, <1>11, <1>12 DEF Rest

\* A program has not been let make its row: it was not alone.
LEMMA RefusedRest ==
  ASSUME Core, Rest, NEW p \in Programs, prog[p].pc \in {"at", "create"},
         p \in crossed \/ (p \in Seeds /\ resetEver), Abort(p), rows' = rows,
         crossed' = crossed, resetEver' = resetEver, refused' = refused
  PROVE  Rest'
<1>1. p \in Actors /\ Active(p) BY DEF Actors, Active
<1>2. /\ \A q \in Actors : q # p => prog'[q] = prog[q]
      /\ prog'[p].pc = "error" /\ prog'[p].n = prog[p].n /\ prog'[p].mine = prog[p].mine
  BY <1>1, TurnWith DEF Abort, Pcs
<1>3. CrossedInv' BY <1>1, <1>2, CrossedKept DEF Rest
<1>4. AloneOK(p)' BY <1>2 DEF AloneOK
<1>5. ~ resetEver => Standing(p)'
  <2>1. Past(p)' = Past(p) BY <1>2, PastKept
  <2> QED BY <1>2, <2>1 DEF Standing, Rest, AloneInv, Pristine
<1>6. ~ resetEver /\ Seeds \cap crossed = {} =>
        \A a, b \in rows' : a.table = "bundle" /\ b.table = "bundle" => a = b
  BY DEF Rest, AloneInv, OneBundle
<1>7. AloneInv' BY <1>1, <1>2, <1>4, <1>5, <1>6, ProgAlone DEF Rest
<1>8. FailedHasReason' BY <1>1, <1>2, FailKept DEF Rest
<1> QED BY <1>3, <1>7, <1>8 DEF Rest

LEMMA CreateRest ==
  ASSUME Core, Rest, NEW p \in Programs, prog[p].pc \in {"at", "create"}, NEW s, s = At(p),
         s.by = "missing" => prog[p].pc = "create",
         s.by # "new" => Found(p, s) = {} \/ prog[p].pc = "create", Create(p, s),
         crossed' = crossed, resetEver' = resetEver, refused' = refused
  PROVE  Rest'
<1>1. /\ prog[p].n \in Steps(p) /\ s = Text(p)[prog[p].n]
      /\ prog[p].mine \in [Names -> Ids]
  BY AtGives
<1> DEFINE r == NewRow(p, s)
<1>2. /\ RowOK(r) /\ r.key = s.key /\ r.table = s.table
      /\ r.id = Id(p, s.table, s.key) /\ r.ref = Ref(p, s)
  BY <1>1, NewRowFacts
<1>3. \/ rows' = rows \cup {r} /\ Advance(p, s, r.id)
      \/ rows' = rows /\ Abort(p) /\ ~ Accepted(r)
  BY DEF Create
<1>4. p \notin crossed /\ (p \in Seeds => ~ resetEver) => Accepted(r)
  <2> SUFFICES ASSUME p \notin crossed, p \in Seeds => ~ resetEver PROVE Accepted(r) OBVIOUS
  <2>1. s.by # "new" => Found(p, s) = {} BY DEF Rest, AloneInv, AloneOK
  <2> QED BY <2>1, AloneCreates DEF Rest
<1> HIDE DEF r
<1>5. CASE rows' = rows /\ Abort(p) /\ ~ Accepted(r) BY <1>4, <1>5, RefusedRest
<1>6. CASE rows' = rows \cup {r} /\ Advance(p, s, r.id)
  <2>1. r.id \in Ids BY <1>2 DEF RowOK, Row
  <2> QED BY <1>2, <1>6, <2>1, MadeRest
<1> QED BY <1>3, <1>5, <1>6

LEMMA StatementRest ==
  ASSUME Core, Rest, NEW p \in Programs, Statement(p) \/ CreateMissing(p)
  PROVE  Rest'
<1>1. crossed' = crossed /\ resetEver' = resetEver /\ refused' = refused
  BY DEF Statement, CreateMissing
<1>2. PICK s : s = At(p) OBVIOUS
<1>3. CASE CreateMissing(p)
  <2>1. prog[p].pc = "create" /\ Create(p, s) BY <1>2, <1>3 DEF CreateMissing, At
  <2> QED BY <1>1, <1>2, <2>1, CreateRest
<1>4. CASE Statement(p)
  <2>1. prog[p].pc = "at" /\ s.by # "missing" BY <1>2, <1>4 DEF Statement, At
  <2>2. \/ s.by # "new" /\ rows' = rows /\ \E r \in Found(p, s) : Advance(p, s, r.id)
        \/ (s.by = "new" \/ Found(p, s) = {}) /\ Create(p, s)
    BY <1>2, <1>4 DEF Statement, At
  <2>3. CASE (s.by = "new" \/ Found(p, s) = {}) /\ Create(p, s)
    BY <1>1, <1>2, <2>1, <2>3, CreateRest
  <2>4. CASE s.by # "new" /\ rows' = rows /\ \E r \in Found(p, s) : Advance(p, s, r.id)
    <3>1. PICK r \in Found(p, s) : Advance(p, s, r.id) BY <2>4
    <3>2. r.id \in Ids BY <1>2, <2>1, <2>4, FoundGives
    <3> QED BY <1>1, <1>2, <2>1, <2>4, <3>1, <3>2, FoundRest
  <2> QED BY <2>2, <2>3, <2>4
<1> QED BY <1>3, <1>4

LEMMA LookForRest ==
  ASSUME Core, Rest, NEW p \in Programs, LookFor(p)
  PROVE  Rest'
<1>1. /\ rows' = rows /\ crossed' = crossed /\ resetEver' = resetEver /\ refused' = refused
  BY DEF LookFor
<1>2. PICK s : s = At(p) OBVIOUS
<1>3. prog[p].pc = "at" /\ s.by = "missing" BY <1>2 DEF LookFor, At
<1>4. p \in Actors /\ Active(p) BY <1>3 DEF Actors, Active
<1>5. CASE Found(p, s) # {} /\ Advance(p, s, Nobody)
  <2>1. PICK r \in Found(p, s) : TRUE BY <1>5
  <2>2. Nobody \in Ids BY DEF Nobody, Ids
  <2>3. prog[p].n \in Steps(p) /\ s = Text(p)[prog[p].n] BY <1>2, <1>3, AtGives
  <2>4. s.table # "tenant" BY <1>3, <2>3, ByFacts DEF Unnamed
  <2> QED BY <1>1, <1>2, <1>3, <1>5, <2>2, <2>4, FoundRest
<1>6. CASE Found(p, s) = {} /\ prog' = [prog EXCEPT ![p].pc = "create"]
  <2>1. /\ \A q \in Actors : q # p => prog'[q] = prog[q]
        /\ prog'[p].pc = "create" /\ prog'[p].n = prog[p].n /\ prog'[p].mine = prog[p].mine
    BY <1>4, <1>6, Turn DEF Pcs
  <2>2. CrossedInv' BY <1>1, <1>4, <2>1, CrossedKept DEF Rest
  <2>3. At(p)' = s BY <1>2, <2>1 DEF At
  <2>4. Found(p, s)' = Found(p, s) BY <1>1, <2>1 DEF Found, Ref
  <2>5. Found(p, At(p))' = Found(p, s)' BY <2>3 DEF Found, Ref
  <2>6. AloneOK(p)' BY <1>6, <2>1, <2>4, <2>5 DEF AloneOK
  <2>7. ~ resetEver => Standing(p)'
    <3>1. Past(p)' = Past(p) BY <2>1, PastKept
    <3> QED BY <1>1, <2>1, <3>1 DEF Standing, Rest, AloneInv, Pristine
  <2>8. ~ resetEver /\ Seeds \cap crossed = {} =>
          \A a, b \in rows' : a.table = "bundle" /\ b.table = "bundle" => a = b
    BY <1>1 DEF Rest, AloneInv, OneBundle
  <2>9. AloneInv' BY <1>1, <1>4, <2>1, <2>6, <2>7, <2>8, ProgAlone DEF Rest
  <2>10. FailedHasReason' BY <1>1, <1>4, <2>1, FailKept DEF Rest
  <2> QED BY <2>2, <2>9, <2>10 DEF Rest
<1> QED BY <1>2, <1>5, <1>6 DEF LookFor, At

LEMMA LookRest ==
  ASSUME Core, Rest, NEW p \in Sims, SimulateLook(p) \/ TurnedDown(p)
  PROVE  Rest'
<1>1. /\ Core' /\ rows' = rows /\ \A q \in Actors : q # p => prog'[q] = prog[q]
      /\ prog'[p].pc \in {"refused", "rejected"}
         \/ (prog'[p].pc = "write" /\ prog'[p].found \in rows)
  BY LookCore
<1>2. p \in Actors /\ prog[p].pc = "idle" /\ ~ Active(p)
  BY DEF Actors, Active, SimulateLook, TurnedDown, SimulateRefused, SimulateRejected
<1>3. resetEver' = resetEver /\ refused' = refused BY DEF SimulateLook, TurnedDown, SimulateRefused, SimulateRejected
<1>4. CrossedInv' /\ crossed \subseteq crossed'
  <2>1. CASE SimulateLook(p) BY <1>1, <1>2, <2>1, CrossedStart DEF Rest, SimulateLook
  <2>2. CASE TurnedDown(p)
    <3>1. prog'[p].pc \in {"refused", "rejected"} /\ crossed' = crossed
      BY <1>2, <2>2, Turn DEF TurnedDown, SimulateRefused, SimulateRejected, Pcs
    <3>2. ~ Active(p)' BY <3>1 DEF Active
    <3> QED BY <1>1, <1>2, <3>1, <3>2, CrossedKept DEF Rest
  <2> QED BY <2>1, <2>2
<1>5. \A x : Alike(x, x) BY DEF Alike
<1>6. AloneInv' BY <1>1, <1>3, <1>4, <1>5, SimAlone DEF Rest
<1>7. FailedHasReason' BY <1>1, <1>2, <1>3, <1>4, FailKept DEF Rest
<1> QED BY <1>4, <1>6, <1>7 DEF Rest

LEMMA WriteRest ==
  ASSUME Core, Rest, NEW p \in Sims, SimulateWrite(p) \/ SimulateCreate(p)
  PROVE  Rest'
<1>1. /\ Core' /\ \A q \in Actors : q # p => prog'[q] = prog[q]
      /\ prog'[p].pc \in {"done", "error"}
      /\ \A y \in rows' : y.key = p \/ \E x \in rows : Alike(x, y)
      /\ \A x \in rows : \E y \in rows' : Alike(x, y)
      /\ \A y \in rows' : y.table = "bundle" => y \in rows
  BY WriteEffect
<1>2. p \in Actors BY DEF Actors
<1>3. /\ resetEver' = resetEver /\ refused' = refused /\ crossed' = crossed
  BY DEF SimulateWrite, SimulateCreate
<1>4. CrossedInv' BY <1>1, <1>2, <1>3, CrossedKept DEF Rest, Active
<1>5. AloneInv' BY <1>1, <1>3, SimAlone DEF Rest
<1>6. prog'[p].pc = "error" => p \in crossed
  <2>1. CASE SimulateWrite(p) BY <2>1, AloneWrites DEF Rest
  <2>2. CASE SimulateCreate(p) BY <1>2, <2>2, Turn DEF SimulateCreate, Pcs
  <2> QED BY <2>1, <2>2
<1>7. FailedHasReason' BY <1>1, <1>2, <1>3, <1>6, FailKept DEF Rest
<1> QED BY <1>4, <1>5, <1>7 DEF Rest
-----------------------------------------------------------------------------
(* The theorems. *)

LEMMA DemoInitInv == DemoInit => DemoInv
<1> SUFFICES ASSUME DemoInit PROVE DemoInv OBVIOUS
<1>1. prog = [p \in Actors |->
        [pc |-> "idle", n |-> 1, mine |-> [o \in Names |-> Nobody], found |-> NoRow]]
  BY DEF DemoInit, Actors
<1>2. \A p \in Actors : prog[p].pc = "idle" /\ prog[p].n = 1
                        /\ prog[p].mine = [o \in Names |-> Nobody]
  BY <1>1
<1>3. Typed
  <2>1. Nobody \in Ids BY DEF Nobody, Ids
  <2>2. [pc |-> "idle", n |-> 1, mine |-> [o \in Names |-> Nobody], found |-> NoRow] \in ProgState
    BY <2>1 DEF ProgState, Pcs
  <2> DEFINE start == [pc |-> "idle", n |-> 1, mine |-> [o \in Names |-> Nobody],
                    found |-> NoRow]
  <2>3. start \in ProgState /\ prog = [p \in Actors |-> start] BY <1>1, <2>2
  <2> HIDE DEF start
  <2>4. prog \in [Actors -> ProgState] BY <2>3
  <2>5. demoDeaths \in 0..DemoDeaths BY DemoAssumption DEF DemoInit
  <2>6. crossed \subseteq Actors /\ resetEver \in BOOLEAN /\ refused \subseteq Resets
    BY DEF DemoInit
  <2> QED BY <2>4, <2>5, <2>6 DEF Typed
<1>4. rows = {} /\ crossed = {} BY DEF DemoInit
<1>5. RowsInv BY <1>4 DEF RowsInv
<1>6. ASSUME NEW p \in Programs
      PROVE  PcOK(p) /\ MineOK(p) /\ WorkOK(p) /\ Past(p) = {} /\ p \in Actors
  <2>1. p \in Actors BY DEF Actors
  <2>2. Len(Text(p)) \in Nat \ {0} BY TextLength
  <2>3. PcOK(p) BY <1>2, <2>1, <2>2 DEF PcOK
  <2>4. 1 \in 1..(Len(Text(p)) + 1) BY <2>2
  <2>5. Past(p) = {} BY <1>2, <2>1, <2>4, BeforeFacts DEF Past
  <2> QED BY <1>2, <2>1, <2>3, <2>5 DEF MineOK, WorkOK
<1>7. \A p \in Sims : SimOK(p) BY <1>2 DEF SimOK, Actors
<1>8. ProgsInv BY <1>4, <1>6, <1>7 DEF ProgsInv, MakersPast
<1>9. CrossedInv BY <1>2 DEF CrossedInv, Active, Actors
<1>10. AloneInv
  BY <1>2, <1>4, <1>6 DEF AloneInv, Pristine, OneBundle, AloneOK, CallOK, Standing, Actors
<1>11. FailedHasReason BY <1>2 DEF FailedHasReason, Actors
<1> QED BY <1>3, <1>5, <1>8, <1>9, <1>10, <1>11 DEF DemoInv

LEMMA DemoStep == DemoInv /\ [DemoNext]_demoVars => DemoInv'
<1> SUFFICES ASSUME DemoInv, [DemoNext]_demoVars PROVE DemoInv' OBVIOUS
<1>1. Core /\ Rest BY DEF DemoInv, Core, Rest
<1>2. ASSUME Core', Rest' PROVE DemoInv' BY <1>2 DEF DemoInv, Core, Rest
<1>3. CASE UNCHANGED demoVars
  <2>1. /\ rows' = rows /\ prog' = prog /\ demoDeaths' = demoDeaths /\ crossed' = crossed
        /\ resetEver' = resetEver /\ refused' = refused
    BY <1>3 DEF demoVars
  <2>2. RowsInv' BY <1>1, <2>1 DEF Core, RowsInv, Homed, Conflict
  <2>3. \A q \in Programs : Past(q)' = Past(q) BY <2>1, PastKept
  <2>4. ProgsInv'
    BY <1>1, <2>1, <2>3
    DEF Core, ProgsInv, PcOK, At, MineOK, WorkOK, SimOK, MakersPast
  <2>5. Core' BY <1>1, <2>1, <2>2, <2>4 DEF Core, Typed
  <2>6. CrossedInv' BY <1>1, <2>1 DEF Rest, CrossedInv, Active
  <2>7. \A q \in Programs : Standing(q)' <=> Standing(q) BY <2>1, <2>3 DEF Standing
  <2>8. \A q \in Programs : Found(q, At(q))' = Found(q, At(q)) BY <2>1 DEF Found, Ref, At
  <2>9. AloneInv'
    BY <1>1, <2>1, <2>7, <2>8 DEF Rest, AloneInv, Pristine, OneBundle, AloneOK, CallOK
  <2>10. FailedHasReason' BY <1>1, <2>1 DEF Rest, FailedHasReason
  <2> QED BY <1>2, <2>5, <2>6, <2>9, <2>10 DEF Rest
<1>4. ASSUME NEW p \in Programs, StartSeed(p) \/ StartReset(p) PROVE DemoInv'
  BY <1>1, <1>2, <1>4, StartCore, StartRest
<1>5. ASSUME NEW p \in Programs, DeleteTenants(p) PROVE DemoInv'
  BY <1>1, <1>2, <1>5, DeleteCore, DeleteRest
<1>6. ASSUME NEW p \in Programs, Statement(p) \/ CreateMissing(p) PROVE DemoInv'
  BY <1>1, <1>2, <1>6, StatementCore, StatementRest
<1>7. ASSUME NEW p \in Programs, LookFor(p) PROVE DemoInv'
  BY <1>1, <1>2, <1>7, LookForCore, LookForRest
<1>8. ASSUME NEW p \in Programs, Killed(p) PROVE DemoInv'
  BY <1>1, <1>2, <1>8, KilledCore, KilledRest
<1>9. ASSUME NEW p \in Sims, SimulateLook(p) \/ TurnedDown(p) PROVE DemoInv'
  BY <1>1, <1>2, <1>9, LookCore, LookRest
<1>10. ASSUME NEW p \in Sims, SimulateWrite(p) \/ SimulateCreate(p) PROVE DemoInv'
  BY <1>1, <1>2, <1>10, WriteEffect, WriteRest
<1> QED BY <1>3, <1>4, <1>5, <1>6, <1>7, <1>8, <1>9, <1>10 DEF DemoNext, TurnedDown

\* The invariant of the demo data: rows bear the ids of their makers, programs find what
\* they have done while its tenant lives, and those that run alone have all they need
\* (seed.ts, resetDemo and simulate, whatever overlaps or stops half way).
THEOREM DemoInvariance == DemoSpec => []DemoInv
BY DemoInitInv, DemoStep, PTL DEF DemoSpec

\* The rows and the programs of the demo data have their types in every state.
THEOREM DemoTypeCorrect == DemoSpec => []DemoTypeOK
<1>1. DemoInv => DemoTypeOK
  <2> SUFFICES ASSUME DemoInv PROVE DemoTypeOK OBVIOUS
  <2>1. rows \subseteq Row BY DEF DemoInv, RowsInv, RowOK
  <2>2. /\ prog \in [Actors -> ProgState] /\ demoDeaths \in 0..DemoDeaths
        /\ crossed \subseteq Actors /\ resetEver \in BOOLEAN /\ refused \subseteq Resets
    BY DEF DemoInv, Typed
  <2>3. \A p \in Actors :
          /\ prog[p].pc \in Pcs /\ prog[p].n \in Nat /\ prog[p].mine \in [Names -> Ids]
          /\ prog[p].found = NoRow \/ prog[p].found \in Row
    BY <2>2 DEF ProgState
  <2> QED BY <2>1, <2>2, <2>3 DEF DemoTypeOK, Actors, Pcs
<1> QED BY <1>1, DemoInvariance, PTL

\* A seed or reset that reports success has left every row of its program in its tenants,
\* as long as these live (main's upserts and lookups, resetDemo's creates).
THEOREM SuccessIsWhole == DemoSpec => []SucceededIsWhole
<1>1. DemoInv => SucceededIsWhole
  <2> SUFFICES ASSUME DemoInv, NEW p \in Programs, prog[p].pc = "done",
                      NEW i \in DOMAIN Text(p), Live(prog[p].mine[Text(p)[i].of])
               PROVE  \E r \in rows : /\ r.table = Text(p)[i].table /\ r.key = Text(p)[i].key
                                      /\ r.tenant = prog[p].mine[Text(p)[i].of]
    BY DEF SucceededIsWhole
  <2> DEFINE s == Text(p)[i]
  <2>1. i \in Steps(p) BY TextLength
  <2>2. /\ s.key \in TextKeys /\ s.table = Line(s.key).table /\ s.of = Line(s.key).of
    BY <2>1, TextLines
  <2>3. PcOK(p) /\ WorkOK(p) BY DEF DemoInv, ProgsInv
  <2>4. s.key \in Past(p) BY <2>1, <2>3, BeforeFacts DEF PcOK, Past
  <2>5. LiveIn(rows, prog[p].mine[s.of]) BY DEF Live, LiveIn
  <2>6. HasRow(rows, s.key, prog[p].mine[s.of]) BY <2>2, <2>3, <2>4, <2>5 DEF WorkOK
  <2>7. PICK r \in rows : r.key = s.key /\ r.tenant = prog[p].mine[s.of] BY <2>6 DEF HasRow
  <2>8. RowOK(r) /\ r.key \notin Sims BY <2>2, <2>7, Disjoint DEF DemoInv, RowsInv
  <2>9. r.table = s.table BY <2>2, <2>7, <2>8, TextRow
  <2> QED BY <2>7, <2>9
<1> QED BY <1>1, DemoInvariance, PTL

\* A seed or a reset fails only when another program has run beside it, when the database has
\* refused its delete, or when it is a seed after a reset; a simulation that has found its
\* row fails to write it only when a program has run beside it (main, resetDemo, simulate).
THEOREM FailureHasReason == DemoSpec => []FailedHasReason
<1>1. DemoInv => FailedHasReason BY DEF DemoInv
<1> QED BY <1>1, DemoInvariance, PTL

\* Until a reset begins, seeds make no row twice, whatever overlaps or stops; the evidence
\* bundle they may double only when they overlap (main's literal ids and unique keys).
THEOREM SeedsMakeNoDoubles == DemoSpec => []SeedsNeverDouble
<1>1. DemoInv => SeedsNeverDouble
  <2> SUFFICES ASSUME DemoInv, NEW a \in rows, NEW b \in rows, a.table = b.table,
                      a.key = b.key, ~ resetEver,
                      ~ (a.table = "bundle" /\ Seeds \cap crossed # {})
               PROVE  a = b
    BY DEF SeedsNeverDouble
  <2>1. /\ RowOK(a) /\ RowOK(b) /\ Homed(a) /\ Homed(b)
        /\ \A x, y \in rows : Conflict(x, y) => x = y
    BY DEF DemoInv, RowsInv
  <2>2. CASE a.id = b.id BY <2>1, <2>2 DEF Conflict
  <2>3. CASE a.key \in Sims BY <2>1, <2>2, <2>3 DEF RowOK
  <2>4. CASE a.id # b.id /\ a.key \notin Sims
    <3>1. \A r \in rows : r.key = a.key /\ r.id # <<"seed", a.key>> => r.table \in Unnamed
      <4> SUFFICES ASSUME NEW r \in rows, r.key = a.key, r.id # <<"seed", a.key>>
                   PROVE  r.table \in Unnamed
        OBVIOUS
      <4>1. PICK q \in Programs \cup {"seed"} :
              r.id = <<q, r.key>> /\ (q \in Seeds => r.table \in Unnamed)
        BY <2>4 DEF DemoInv, RowsInv, RowOK
      <4>2. q \in Programs BY <4>1
      <4>3. r.key \in Past(q) BY <4>1, <4>2 DEF DemoInv, ProgsInv, MakersPast
      <4>4. q \notin Resets
        <5> SUFFICES ASSUME q \in Resets PROVE FALSE OBVIOUS
        <5>1. prog[q].pc = "idle" /\ PcOK(q)
          BY <4>2 DEF DemoInv, AloneInv, Pristine, ProgsInv
        <5>2. Past(q) = {} BY <4>2, <5>1, BeforeFacts DEF PcOK, Past
        <5> QED BY <4>3, <5>2
      <4> QED BY <4>1, <4>2, <4>4 DEF Programs
    <3>2. a.table \in Unnamed BY <2>4, <3>1
    <3>3. CASE a.table = "bundle" BY <3>3 DEF DemoInv, AloneInv, OneBundle
    <3>4. CASE a.table # "bundle"
      <4>1. a.table \in Keyed BY <3>2, <3>4 DEF Unnamed, Keyed
      <4>2. PICK t \in rows : t.table = "tenant" /\ t.id = a.tenant /\ t.key = Line(a.key).of
        BY <2>1, <2>4 DEF Homed
      <4>3. PICK u \in rows : u.table = "tenant" /\ u.id = b.tenant /\ u.key = Line(a.key).of
        BY <2>1, <2>4 DEF Homed
      <4>4. t = u BY <4>2, <4>3, OneTenant DEF DemoInv
      <4>5. Conflict(a, b) BY <4>1, <4>2, <4>3, <4>4 DEF Conflict
      <4> QED BY <4>5, <2>1
    <3> QED BY <3>3, <3>4
  <2> QED BY <2>2, <2>3, <2>4
<1> QED BY <1>1, DemoInvariance, PTL
=============================================================================
