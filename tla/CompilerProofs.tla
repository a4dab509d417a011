--------------------------- MODULE CompilerProofs ----------------------------
(***************************************************************************)
(* Theorems about Compiler: every variable keeps its type (TypeOK), and a  *)
(* database never holds a part of its tables or tables of two provinces    *)
(* (OneProvince).  The second needs to know what is in memory, and that is *)
(* the invariant MemInv.  Then about whole commands: which files a command *)
(* may change (InputsUntouched), and what one in which nothing fails       *)
(* leaves in its output (CleanRunDelivers).  Both rest on these invariants *)
(* and on the lemma that the plan reads all .mid and .db arguments         *)
(* (ArgsOfPlan).                                                           *)
(***************************************************************************)
EXTENDS Compiler, FiniteSetTheorems, FunctionTheorems, TLAPS

(* The tables a database of this name is to have.                          *)
Promised(p) == IF p.kind = "C_CR_Toll" THEN Basic ELSE {p.kind}

OfProvince(o, pr) == \A i \in DOMAIN o : o[i].prov = pr

AllOf(f, pr) == \A t \in DOMAIN f : OfProvince(f[t], pr)

FsOK ==
  /\ DOMAIN fs = Paths
  /\ \A p \in Paths : IsContent(p, fs[p])
  /\ OneProvince

(* What do_argv can decide on.                                             *)
IsInput(p, k, e) == p \in Paths /\ p.ext = e /\ p.kind = k

IsImport(q) ==
  /\ q.op = "import"
  /\ IsInput(q.in[1], q.out.kind, "mid") /\ q.out.prov = q.in[1].prov
  /\ q.out.kind \in Importable /\ Len(q.in) = 1

IsExport(q) ==
  /\ q.op = "export"
  /\ q.in[1] \in Paths /\ q.in[1].ext = "db" /\ Len(q.in) = 1

IsCombine2(q) ==
  /\ q.op = "combine2" /\ q.out.kind = "C_CR" /\ Len(q.in) = 2
  /\ \A n \in 1..2 : IsInput(q.in[n], Kinds2[n], "db")
                       /\ q.in[n].prov = q.out.prov

IsCombine4(q) ==
  /\ q.op = "combine4" /\ q.out.kind = "C_CR_Toll" /\ Len(q.in) = 4
  /\ \A n \in 1..4 : IsInput(q.in[n], Kinds4[n], "db")
                       /\ q.in[n].prov = q.out.prov

IsPlan(q) ==
  \/ q.op \in Unplanned
  \/ /\ q.out \in Paths
     /\ \/ IsExport(q) /\ q.out.ext = "bin"
        \/ q.out.ext = "db" /\ (IsImport(q) \/ IsCombine2(q) \/ IsCombine4(q))

(* The control variables, and the operations and calls a step belongs to.  *)
Combining == {"attach", "copy", "detach"}

Control ==
  /\ pc \in {"idle", "open", "import", "attach", "copy", "detach", "save",
             "backup", "select", "bin", "write"}
  /\ step \in 1..4
  /\ grp \subseteq 1..4
  /\ ok \in BOOLEAN
  /\ failed \in BOOLEAN

Command ==
  /\ DOMAIN start = Paths /\ \A p \in Paths : IsContent(p, start[p])
  /\ runs \in 0..MaxRuns
  /\ argv \in ArgLists \cup {<<>>}
  /\ plan = IF argv \in ArgLists THEN Plan(argv) ELSE NoPlan
  /\ IsPlan(plan)

PcInv ==
  /\ pc # "idle" => plan.op \notin Unplanned
  /\ pc = "import" => plan.op = "import"
  /\ pc \in Combining => plan.op \in {"combine2", "combine4"} /\ step <= Calls
  /\ pc \in {"save", "backup"} => plan.op \in {"import", "combine2", "combine4"}
  /\ pc \in {"select", "bin", "write"} => plan.op = "export"

(* The tables in memory: those copied so far, then all that the output     *)
(* promises; all of the province of the output.                            *)
MemInv ==
  /\ IsTables(mem)
  /\ pc \in {"import", "attach"} => DOMAIN mem = {}
  /\ pc = "copy" =>
       DOMAIN mem = IF plan.op = "combine2" THEN {} ELSE {Kinds4[i] : i \in grp}
  /\ pc \in {"detach", "save", "backup"} => DOMAIN mem = Promised(plan.out)
  /\ pc \in {"import", "attach", "copy", "detach", "save", "backup"} =>
       AllOf(mem, plan.out.prov)

Inv == FsOK /\ Command /\ Control /\ PcInv /\ MemInv

-----------------------------------------------------------------------------
(* Tables *)

LEMMA WholeIs ==
  ASSUME NEW p, NEW f
  PROVE  Whole(p, f) <=> DOMAIN f \in {{}, Promised(p)} /\ AllOf(f, p.prov)
  BY DEF Whole, Promised, AllOf, OfProvince

LEMMA ConcatOf ==
  ASSUME NEW a \in Seq(Origin), NEW b \in Seq(Origin), NEW pr,
         OfProvince(a, pr), OfProvince(b, pr)
  PROVE  a \o b \in Seq(Origin) /\ OfProvince(a \o b, pr)
  BY DEF OfProvince

LEMMA TextOf ==
  ASSUME NEW p \in PathType, NEW v \in Nat
  PROVE  Text(p, v) \in Seq(Origin) /\ OfProvince(Text(p, v), p.prov)
  BY DEF Text, Origin, PathType, OfProvince

LEMMA PutIn ==
  ASSUME NEW f, NEW t, NEW o
  PROVE  /\ DOMAIN Put(f, t, o) = DOMAIN f \cup {t}
         /\ IsTables(f) /\ t \in Named /\ o \in Seq(Origin)
              => IsTables(Put(f, t, o))
         /\ \A pr : AllOf(f, pr) /\ OfProvince(o, pr) => AllOf(Put(f, t, o), pr)
  BY DEF Put, IsTables, AllOf

LEMMA NoTables ==
  /\ DOMAIN NoTable = {}
  /\ IsTables(NoTable)
  /\ \A pr : AllOf(NoTable, pr)
  BY DEF NoTable, IsTables, AllOf

(* A database file, there already or just created.                         *)
LEMMA CreatedIs ==
  ASSUME NEW p, NEW x, IsContent(p, x), p.ext = "db",
         x # Absent => Whole(p, x.tables)
  PROVE  /\ IsContent(p, Created(x))
         /\ Whole(p, Created(x).tables)
         /\ IsTables(Created(x).tables)
  <1>1. CASE x = Absent
    <2>1. Created(x).tables = NoTable /\ Created(x) = Db(NoTable)
      BY <1>1 DEF Created, Db
    <2> QED  BY <2>1, NoTables, WholeIs DEF IsContent, Db
  <1>2. CASE x # Absent
    BY <1>2 DEF IsContent, Created
  <1> QED  BY <1>1, <1>2

LEMMA DbIs ==
  ASSUME NEW p, NEW f, IsTables(f), p.ext = "db", DOMAIN f = Promised(p),
         AllOf(f, p.prov)
  PROVE  IsContent(p, Db(f)) /\ Whole(p, Db(f).tables)
  BY WholeIs DEF IsContent, Db

(* Replacing the contents of one file.                                     *)
LEMMA FsPut ==
  ASSUME FsOK, NEW p \in Paths, NEW x, IsContent(p, x),
         p.ext = "db" /\ x # Absent => Whole(p, x.tables),
         fs' = [fs EXCEPT ![p] = x]
  PROVE  FsOK'
  BY DEF FsOK, OneProvince

-----------------------------------------------------------------------------
(* Plans *)

LEMMA TheIs ==
  ASSUME NEW a \in Seq(Paths), NEW e, NEW k,
         \E i \in WithExt(a, e) : a[i].kind = k
  PROVE  /\ IsInput(The(a, WithExt(a, e), k), k, e)
         /\ \E i \in WithExt(a, e) : The(a, WithExt(a, e), k) = a[i]
  <1> DEFINE c == CHOOSE i \in WithExt(a, e) : a[i].kind = k
  <1>1. c \in WithExt(a, e) /\ a[c].kind = k
    OBVIOUS
  <1>2. c \in 1..Len(a) /\ a[c].ext = e
    BY <1>1 DEF WithExt
  <1>3. The(a, WithExt(a, e), k) = a[c]
    BY DEF The
  <1> HIDE DEF c
  <1> QED  BY <1>1, <1>2, <1>3 DEF IsInput

LEMMA CardOfNone ==
  ASSUME NEW S, S = {}
  PROVE  Cardinality(S) = 0
  BY FS_EmptySet, Zenon

LEMMA OneIs ==
  ASSUME NEW a \in Seq(Paths), NEW e, Cardinality(WithExt(a, e)) = 1
  PROVE  LET p == a[CHOOSE i \in WithExt(a, e) : TRUE]
         IN  p \in Paths /\ p.ext = e
  <1>1. WithExt(a, e) # {}
    <2>1. 0 # 1
      OBVIOUS
    <2> QED  BY <2>1, CardOfNone, Zenon
  <1> QED  BY <1>1 DEF WithExt

LEMMA PlanOfNothing == Plan(<<>>) = NoPlan
  <1>1. WithExt(<<>>, "mid") = {} /\ WithExt(<<>>, "db") = {}
    BY DEF WithExt
  <1>2. Cardinality(WithExt(<<>>, "mid")) = 0 /\ Cardinality(WithExt(<<>>, "db")) = 0
    BY <1>1, CardOfNone, Zenon
  <1> QED  BY <1>1, <1>2 DEF Plan

LEMMA PlanIs ==
  ASSUME NEW a \in ArgLists
  PROVE  IsPlan(Plan(a))
  <1> DEFINE mids == WithExt(a, "mid")
             dbs  == WithExt(a, "db")
             one(I) == a[CHOOSE i \in I : TRUE]
  <1>0. a \in Seq(Paths) /\ (Plan(a).op \notin Unplanned => Plan(a).out \in Paths)
    BY ArgListsAssumption, OutputsAssumption
  <1>1. CASE Plan(a) = NoPlan
    BY <1>1 DEF IsPlan, NoPlan, Unplanned
  <1>2. CASE /\ Cardinality(mids) = 1
             /\ Plan(a) = Convert("import", one(mids), Importable, "db")
    <2>1. one(mids) \in Paths /\ one(mids).ext = "mid"
      BY <1>0, <1>2, OneIs
    <2>2. CASE one(mids).kind \in Importable
      <3>1. /\ Plan(a).op = "import" /\ Plan(a).in = <<one(mids)>>
            /\ Plan(a).out = File(DirPart(one(mids)), one(mids).kind,
                                  one(mids).prov, "db")
        BY <1>2, <2>2 DEF Convert
      <3>2. IsImport(Plan(a)) /\ Plan(a).out.ext = "db"
        BY <2>1, <2>2, <3>1 DEF IsImport, IsInput, File
      <3> QED  BY <1>0, <3>1, <3>2 DEF IsPlan, Unplanned
    <2>3. CASE one(mids).kind \notin Importable
      BY <1>2, <2>3 DEF Convert, Skip, IsPlan, Unplanned
    <2> QED  BY <2>2, <2>3
  <1>3. CASE /\ Cardinality(dbs) = 1
             /\ Plan(a) = Convert("export", one(dbs), Exportable, "bin")
    <2>1. one(dbs) \in Paths /\ one(dbs).ext = "db"
      BY <1>0, <1>3, OneIs
    <2>2. CASE one(dbs).kind \in Exportable
      <3>1. /\ Plan(a).op = "export" /\ Plan(a).in = <<one(dbs)>>
            /\ Plan(a).out = File(DirPart(one(dbs)), one(dbs).kind,
                                  one(dbs).prov, "bin")
        BY <1>3, <2>2 DEF Convert
      <3>2. IsExport(Plan(a)) /\ Plan(a).out.ext = "bin"
        BY <2>1, <3>1 DEF IsExport, File
      <3> QED  BY <1>0, <3>1, <3>2 DEF IsPlan, Unplanned
    <2>3. CASE one(dbs).kind \notin Exportable
      BY <1>3, <2>3 DEF Convert, Skip, IsPlan, Unplanned
    <2> QED  BY <2>2, <2>3
  <1>4. ASSUME NEW op, NEW kinds \in {Kinds2, Kinds4}, NEW k,
               Match(a, dbs, kinds), Plan(a) = Combine(op, a, dbs, kinds, k)
        PROVE  /\ Plan(a).op = op
               /\ Plan(a).out.ext = "db" /\ Plan(a).out.kind = k
               /\ Len(Plan(a).in) = Len(kinds)
               /\ \A n \in 1..Len(kinds) :
                    /\ IsInput(Plan(a).in[n], kinds[n], "db")
                    /\ Plan(a).in[n].prov = Plan(a).out.prov
    <2>1. /\ Plan(a).op = op
          /\ Plan(a).in = [n \in 1..Len(kinds) |-> The(a, dbs, kinds[n])]
          /\ Plan(a).out = OutDb(a, dbs, k)
      BY <1>4 DEF Combine
    <2>2. Len(kinds) \in 1..4 /\ kinds[1] = "C"
      BY <1>4 DEF Kinds2, Kinds4
    <2>3. ASSUME NEW n \in 1..Len(kinds)
          PROVE  /\ IsInput(The(a, dbs, kinds[n]), kinds[n], "db")
                 /\ The(a, dbs, kinds[n]).prov = The(a, dbs, "C").prov
      <3>1. \A m \in 1..Len(kinds) : \E i \in dbs : a[i].kind = kinds[m]
        BY <1>4 DEF Match
      <3>2. PICK i \in dbs : The(a, dbs, kinds[n]) = a[i]
        BY <1>0, <3>1, TheIs
      <3>3. PICK j \in dbs : The(a, dbs, "C") = a[j]
        <4>1. \E m \in dbs : a[m].kind = "C"
          BY <2>2, <3>1
        <4> QED  BY <1>0, <4>1, TheIs
      <3>4. IsInput(The(a, dbs, kinds[n]), kinds[n], "db")
        BY <1>0, <3>1, TheIs
      <3> QED  BY <1>4, <3>2, <3>3, <3>4 DEF Match
    <2>4. Len(Plan(a).in) = Len(kinds)
      BY <2>1, <2>2
    <2> QED  BY <2>1, <2>3, <2>4 DEF OutDb, File
  <1>5. CASE Plan(a) = Combine("combine2", a, dbs, Kinds2, "C_CR")
    <2>1. CASE Match(a, dbs, Kinds2)
      <3>1. IsCombine2(Plan(a)) /\ Plan(a).out.ext = "db"
        BY <1>4, <1>5, <2>1 DEF IsCombine2, Kinds2
      <3> QED  BY <1>0, <3>1 DEF IsPlan, IsCombine2, Unplanned
    <2>2. CASE ~ Match(a, dbs, Kinds2)
      BY <1>5, <2>2 DEF Combine, NoPlan, IsPlan, Unplanned
    <2> QED  BY <2>1, <2>2
  <1>6. CASE Plan(a) = Combine("combine4", a, dbs, Kinds4, "C_CR_Toll")
    <2>1. CASE Match(a, dbs, Kinds4)
      <3>1. IsCombine4(Plan(a)) /\ Plan(a).out.ext = "db"
        BY <1>4, <1>6, <2>1 DEF IsCombine4, Kinds4
      <3> QED  BY <1>0, <3>1 DEF IsPlan, IsCombine4, Unplanned
    <2>2. CASE ~ Match(a, dbs, Kinds4)
      BY <1>6, <2>2 DEF Combine, NoPlan, IsPlan, Unplanned
    <2> QED  BY <2>1, <2>2
  <1> QED  BY <1>1, <1>2, <1>3, <1>5, <1>6 DEF Plan

-----------------------------------------------------------------------------
(* The invariant *)

LEMMA InvIs == Inv => TypeOK /\ OneProvince
  BY DEF Inv, FsOK, Command, Control, PcInv, MemInv, TypeOK

LEMMA InvInit == Init => Inv
  <1> SUFFICES ASSUME Init PROVE Inv
    OBVIOUS
  <1>1. FsOK
    BY WorldsAssumption DEF Init, FsOK, OneProvince
  <1>2. /\ plan = IF argv \in ArgLists THEN Plan(argv) ELSE NoPlan
        /\ IsPlan(plan)
    BY PlanOfNothing DEF Init, IsPlan, NoPlan, Unplanned
  <1>3. Command
    BY <1>1, <1>2, BoundsAssumption DEF Init, FsOK, Command
  <1>4. Control /\ PcInv
    <2>1. ok \in BOOLEAN /\ failed \in BOOLEAN
      BY Zenon DEF Init
    <2> QED  BY <2>1 DEF Init, Control, PcInv, Combining
  <1>5. MemInv
    <2>1. IsTables(mem)
      BY NoTables, Zenon DEF Init
    <2>2. pc = "idle"
      BY DEF Init
    <2> QED  BY <2>1, <2>2 DEF MemInv
  <1> QED  BY <1>1, <1>3, <1>4, <1>5 DEF Inv

(* A database named on the command line, once it is opened.                *)
LEMMA OpenedIs ==
  ASSUME FsOK, NEW p \in Paths, p.ext = "db"
  PROVE  /\ IsContent(p, Created(fs[p]))
         /\ Whole(p, Created(fs[p]).tables)
         /\ IsTables(Created(fs[p]).tables)
         /\ fs' = [fs EXCEPT ![p] = Created(@)] => FsOK'
  <1>1. IsContent(p, fs[p]) /\ (fs[p] # Absent => Whole(p, fs[p].tables))
    BY DEF FsOK, OneProvince
  <1>2. /\ IsContent(p, Created(fs[p]))
        /\ Whole(p, Created(fs[p]).tables)
        /\ IsTables(Created(fs[p]).tables)
    BY <1>1, CreatedIs
  <1>3. ASSUME fs' = [fs EXCEPT ![p] = Created(@)]  PROVE FsOK'
    <2>1. fs' = [fs EXCEPT ![p] = Created(fs[p])]
      BY <1>3
    <2> QED  BY <1>2, <2>1, FsPut
  <1> QED  BY <1>2, <1>3

(* A command goes on with the files, arguments and plan it has.            *)
LEMMA CommandStays ==
  ASSUME Command, UNCHANGED command
  PROVE  Command'
  BY DEF Command, command

(* A command that ends leaves nothing to be kept.                          *)
LEMMA Stopped ==
  ASSUME Inv, NEW r \in BOOLEAN, Stop(r), FsOK', UNCHANGED command,
         IsTables(mem'), failed' \in BOOLEAN
  PROVE  Inv'
  <1>1. Command'
    BY CommandStays DEF Inv
  <1>2. Control' /\ PcInv' /\ MemInv'
    BY DEF Stop, Control, PcInv, MemInv, Combining
  <1> QED  BY <1>1, <1>2 DEF Inv

(* Calls of the combine functions.                                         *)
LEMMA CallsIs ==
  ASSUME IsPlan(plan), plan.op \in {"combine2", "combine4"}
  PROVE  /\ Len(plan.in) = IF plan.op = "combine2" THEN 2 ELSE 4
         /\ Calls = IF plan.op = "combine4" THEN 4
                    ELSE IF pc = "copy" THEN 1 ELSE 2
         /\ \A n \in 1..Len(plan.in) :
              /\ plan.in[n] \in Paths /\ plan.in[n].ext = "db"
              /\ plan.in[n].prov = plan.out.prov
              /\ plan.in[n].kind = IF plan.op = "combine2" THEN Kinds2[n]
                                   ELSE Kinds4[n]
         /\ plan.out \in Paths /\ plan.out.ext = "db"
         /\ plan.out.kind = IF plan.op = "combine2" THEN "C_CR" ELSE "C_CR_Toll"
  <1>1. IsCombine2(plan) \/ IsCombine4(plan)
    BY DEF IsPlan, IsImport, IsExport, Unplanned
  <1>2. plan.out \in Paths /\ plan.out.ext = "db"
    BY DEF IsPlan, IsExport, Unplanned
  <1> QED  BY <1>1, <1>2 DEF IsCombine2, IsCombine4, IsInput, Calls

(* What a call of the combine functions comes to: the function returns, it *)
(* makes the next call of the phase, or it begins the next phase, which    *)
(* combine_db_C_CR_Toll does only when all the calls succeeded.            *)
LEMMA CalledIs ==
  ASSUME Inv, pc \in Combining, NEW good \in BOOLEAN,
         NEW next \in {"copy", "detach", "save"}, Called(good, next),
         UNCHANGED command, failed' \in BOOLEAN
  PROVE  LET g == IF good THEN grp \cup {step} ELSE grp
         IN  /\ Control' /\ PcInv'
             /\ \/ pc' = "idle"
                \/ pc' = pc /\ grp' = g /\ (good \/ plan.op = "combine4")
                   /\ step < Calls
                \/ pc' = next /\ g = 1..Calls /\ (good \/ plan.op = "combine4")
                   /\ grp' = {} /\ step = Calls
  <1> DEFINE g == IF good THEN grp \cup {step} ELSE grp
  <1>1. /\ plan' = plan /\ plan.op \in {"combine2", "combine4"}
        /\ IsPlan(plan) /\ IsPlan(plan') /\ step <= Calls
    BY DEF Inv, PcInv, Command, command
  <1>2. /\ Calls = IF plan.op = "combine4" THEN 4
                    ELSE IF pc = "copy" THEN 1 ELSE 2
        /\ Calls' = IF plan.op = "combine4" THEN 4
                    ELSE IF pc' = "copy" THEN 1 ELSE 2
    <2>1. Calls' = IF plan'.op = "combine4" THEN 4
                   ELSE IF pc' = "copy" THEN 1 ELSE 2
      <3>1. Len(plan'.in) = IF plan'.op = "combine2" THEN 2 ELSE 4
        BY <1>1, CallsIs
      <3> QED  BY <1>1, <3>1 DEF Calls
    <2> QED  BY <1>1, <2>1, CallsIs
  <1>3. g \subseteq 1..4 /\ step \in 1..4 /\ ok \in BOOLEAN
    BY DEF Inv, Control
  <1>4. CASE Stop(FALSE)
    <2>1. ok' \in BOOLEAN
      BY <1>4, Zenon DEF Stop
    <2> QED  BY <1>1, <1>4, <2>1 DEF Stop, Control, PcInv, Combining
  <1>5. CASE /\ good \/ plan.op = "combine4"
             /\ step < Calls
             /\ step' = step + 1
             /\ grp' = g
             /\ UNCHANGED <<pc, ok>>
    <2>1. Control'
      BY <1>2, <1>3, <1>5 DEF Inv, Control
    <2>2. PcInv'
      BY <1>1, <1>2, <1>3, <1>5 DEF Inv, PcInv, Combining, Unplanned
    <2> QED  BY <1>5, <2>1, <2>2
  <1>6. CASE /\ good \/ plan.op = "combine4"
             /\ step = Calls
             /\ g = 1..Calls
             /\ GoOn(next)
    <2>1. Control'
      BY <1>3, <1>6 DEF GoOn, Control
    <2>2. PcInv'
      BY <1>1, <1>2, <1>6 DEF GoOn, PcInv, Combining, Unplanned
    <2> QED  BY <1>6, <2>1, <2>2 DEF GoOn
  <1> QED  BY <1>4, <1>5, <1>6 DEF Called

-----------------------------------------------------------------------------
(* The steps *)

LEMMA EditStep == Inv /\ Edit => Inv'
  <1> SUFFICES ASSUME Inv, Edit PROVE Inv'
    OBVIOUS
  <1>1. PICK p \in Paths :
          /\ p.ext = "mid"
          /\ fs' = [fs EXCEPT ![p] =
                      Mid((IF fs[p] = Absent THEN 0 ELSE fs[p].ver) + 1)]
    BY DEF Edit
  <1> DEFINE v == IF fs[p] = Absent THEN 0 ELSE fs[p].ver
  <1>2. v + 1 \in Nat \ {0}
    <2>1. IsContent(p, fs[p])
      BY DEF Inv, FsOK
    <2> QED  BY <1>1, <2>1 DEF IsContent
  <1>3. FsOK'
    <2>1. IsContent(p, Mid(v + 1))
      BY <1>1, <1>2 DEF IsContent, Mid
    <2> QED  BY <1>1, <2>1, FsPut DEF Inv
  <1>4. Command'
    <2>1. /\ plan' = IF argv' \in ArgLists THEN Plan(argv') ELSE NoPlan
          /\ IsPlan(plan')
      BY PlanOfNothing DEF Edit, IsPlan, NoPlan, Unplanned
    <2> QED  BY <2>1 DEF Edit, Inv, Command
  <1>5. Control' /\ PcInv' /\ MemInv'
    BY DEF Edit, Inv, Control, PcInv, MemInv, Combining
  <1> QED  BY <1>3, <1>4, <1>5 DEF Inv

LEMMA StartStep ==
  ASSUME Inv, NEW a \in ArgLists, Start(a)
  PROVE  Inv'
  <1>1. FsOK'
    BY DEF Start, Inv, FsOK, OneProvince
  <1>2. Command'
    <2>1. IsPlan(Plan(a))
      BY PlanIs
    <2>2. runs' \in 0..MaxRuns
      BY BoundsAssumption DEF Start, Inv, Command
    <2> QED  BY <2>1, <2>2 DEF Start, Inv, FsOK, Command
  <1>3. Control' /\ PcInv'
    <2>1. ok' \in BOOLEAN /\ failed' \in BOOLEAN
      <3>1. (plan'.op = "skip") \in BOOLEAN /\ failed' \in BOOLEAN
        BY Zenon DEF Start
      <3>2. ok \in BOOLEAN
        BY DEF Inv, Control
      <3> QED  BY <3>1, <3>2 DEF Start, Stop, GoOn
    <2> QED  BY <2>1 DEF Start, Stop, GoOn, Control, PcInv, Combining
  <1>4. MemInv'
    <2>1. IsTables(mem')
      BY NoTables, Zenon DEF Start
    <2>2. pc' \in {"idle", "open"}
      BY DEF Start, Stop, GoOn
    <2> QED  BY <2>1, <2>2 DEF MemInv
  <1> QED  BY <1>1, <1>2, <1>3, <1>4 DEF Inv

LEMMA OpenDbStep == Inv /\ OpenDb => Inv'
  <1> SUFFICES ASSUME Inv, OpenDb PROVE Inv'
    OBVIOUS
  <1>1. Command' /\ plan' = plan
    BY CommandStays DEF OpenDb, Inv, command
  <1>2. IsPlan(plan) /\ FsOK /\ ok \in BOOLEAN /\ failed \in BOOLEAN
    BY DEF Inv, Command, Control
  <1>3. CASE plan.op = "import" /\ GoOn("import") /\ UNCHANGED fs
    <2>1. mem' = NoTable
      BY <1>3 DEF OpenDb, Opened
    <2>2. FsOK'
      BY <1>2, <1>3 DEF FsOK, OneProvince
    <2>3. MemInv'
      BY <1>3, <2>1, NoTables DEF GoOn, MemInv
    <2>4. Control' /\ PcInv'
      BY <1>1, <1>2, <1>3 DEF OpenDb, GoOn, Control, PcInv, Combining, Unplanned
    <2> QED  BY <1>1, <2>2, <2>3, <2>4 DEF Inv
  <1>4. CASE /\ plan.op \in {"combine2", "combine4"}
             /\ GoOn("attach") /\ UNCHANGED fs
    <2>1. mem' = NoTable
      BY <1>4 DEF OpenDb, Opened
    <2>2. FsOK'
      BY <1>2, <1>4 DEF FsOK, OneProvince
    <2>3. MemInv'
      BY <1>4, <2>1, NoTables DEF GoOn, MemInv
    <2>4. Calls' \in {2, 4}
      <3>1. Len(plan.in) \in {2, 4}
        BY <1>2, <1>4, CallsIs
      <3> QED  BY <1>1, <1>4, <3>1 DEF GoOn, Calls
    <2>5. Control' /\ PcInv'
      BY <1>1, <1>2, <1>4, <2>4
      DEF OpenDb, GoOn, Control, PcInv, Combining, Unplanned
    <2> QED  BY <1>1, <2>2, <2>3, <2>5 DEF Inv
  <1>5. CASE /\ plan.op = "export"
             /\ fs' = [fs EXCEPT ![plan.in[1]] = Created(@)]
             /\ GoOn(IF plan.in[1].kind = "C_CR_Toll" THEN "bin" ELSE "select")
    <2>1. plan.in[1] \in Paths /\ plan.in[1].ext = "db"
      BY <1>2, <1>5
      DEF IsPlan, IsExport, IsImport, IsCombine2, IsCombine4, Unplanned
    <2>2. FsOK' /\ IsTables(Created(fs[plan.in[1]]).tables)
      BY <1>2, <1>5, <2>1, OpenedIs
    <2>3. mem' = Created(fs[plan.in[1]]).tables
      BY <1>5 DEF OpenDb, Opened
    <2>4. MemInv'
      BY <1>5, <2>2, <2>3 DEF GoOn, MemInv
    <2>5. Control' /\ PcInv'
      BY <1>1, <1>2, <1>5 DEF OpenDb, GoOn, Control, PcInv, Combining, Unplanned
    <2> QED  BY <1>1, <2>2, <2>4, <2>5 DEF Inv
  <1> QED  BY <1>3, <1>4, <1>5 DEF OpenDb

LEMMA ImportMidStep == Inv /\ ImportMid => Inv'
  <1> SUFFICES ASSUME Inv, ImportMid PROVE Inv'
    OBVIOUS
  <1> DEFINE p == plan.in[1]
             Rows(v) == mem' = Put(mem, p.kind, Text(p, v))
  <1>1. /\ pc = "import" /\ plan.op = "import" /\ plan' = plan
        /\ UNCHANGED command /\ Command'
    BY CommandStays DEF ImportMid, Inv, PcInv, command
  <1>2. FsOK' /\ ok \in BOOLEAN /\ failed \in BOOLEAN /\ failed' \in BOOLEAN
    <2>1. TRUE \in BOOLEAN
      BY Zenon
    <2> QED  BY <2>1 DEF ImportMid, Inv, Control, FsOK, OneProvince
  <1>3. /\ p \in Paths /\ p.ext = "mid" /\ plan.out.kind = p.kind
        /\ plan.out.prov = p.prov /\ p.kind \in Importable
    BY <1>1 DEF Inv, Command, IsPlan, IsImport, IsExport, IsCombine2,
                IsCombine4, IsInput, Unplanned
  <1>4. ASSUME NEW v \in Nat, Rows(v)
        PROVE  /\ IsTables(mem') /\ DOMAIN mem' = Promised(plan.out)
               /\ AllOf(mem', plan.out.prov)
    <2>1. Text(p, v) \in Seq(Origin) /\ OfProvince(Text(p, v), p.prov)
      BY <1>3, TextOf, PathsAssumption
    <2>2. IsTables(mem) /\ DOMAIN mem = {} /\ AllOf(mem, p.prov)
      BY <1>1, <1>3 DEF Inv, MemInv
    <2>3. p.kind \in Named /\ Promised(plan.out) = {p.kind}
      BY <1>3 DEF Importable, Named, Promised, Basic
    <2>4. /\ DOMAIN Put(mem, p.kind, Text(p, v)) = DOMAIN mem \cup {p.kind}
          /\ IsTables(Put(mem, p.kind, Text(p, v)))
      BY <2>1, <2>2, <2>3, PutIn
    <2>5. AllOf(Put(mem, p.kind, Text(p, v)), p.prov)
      BY <2>1, <2>2, PutIn
    <2> QED  BY <1>3, <1>4, <2>2, <2>3, <2>4, <2>5
  <1>5. ASSUME NEW v \in Nat, Rows(v), GoOn("save")  PROVE Inv'
    <2>1. MemInv'
      BY <1>1, <1>4, <1>5 DEF GoOn, MemInv
    <2>2. Control' /\ PcInv'
      BY <1>1, <1>2, <1>5 DEF GoOn, Control, PcInv, Combining, Unplanned
    <2> QED  BY <1>1, <1>2, <2>1, <2>2 DEF Inv
  <1>6. ASSUME Stop(TRUE), IsTables(mem')  PROVE Inv'
    <2>1. TRUE \in BOOLEAN
      BY Zenon
    <2> QED  BY <1>1, <1>2, <1>6, <2>1, Stopped
  <1>7. CASE fs[p] = Absent /\ Rows(0) /\ Stop(TRUE)
    BY <1>4, <1>6, <1>7
  <1>8. CASE fs[p] # Absent /\ Rows(fs[p].ver) /\ GoOn("save")
    <2>1. fs[p].ver \in Nat
      BY <1>3, <1>8 DEF Inv, FsOK, IsContent
    <2> QED  BY <1>5, <1>8, <2>1
  <1>9. CASE UNCHANGED mem /\ Stop(TRUE)
    <2>1. IsTables(mem')
      BY <1>9 DEF Inv, MemInv
    <2> QED  BY <1>6, <1>9, <2>1
  <1>10. CASE Rows(0) /\ GoOn("save")
    BY <1>5, <1>10
  <1> QED  BY <1>7, <1>8, <1>9, <1>10 DEF ImportMid

LEMMA AttachStep == Inv /\ Attach => Inv'
  <1> SUFFICES ASSUME Inv, Attach PROVE Inv'
    OBVIOUS
  <1> DEFINE p == plan.in[step]
  <1>1. /\ pc = "attach" /\ plan.op \in {"combine2", "combine4"} /\ step <= Calls
        /\ plan' = plan /\ UNCHANGED command /\ Command' /\ mem' = mem
    BY CommandStays DEF Attach, Inv, PcInv, Combining, command
  <1>2. p \in Paths /\ p.ext = "db"
    BY <1>1, CallsIs DEF Inv, Command, Control
  <1>3. PICK good \in BOOLEAN :
          /\ Called(good, "copy")
          /\ failed' \in BOOLEAN
          /\ fs' = fs \/ fs' = [fs EXCEPT ![p] = Created(@)]
    <2>1. TRUE \in BOOLEAN /\ FALSE \in BOOLEAN
      BY Zenon
    <2>2. failed' \in BOOLEAN
      BY <2>1 DEF Attach, Inv, Control
    <2> QED  BY <2>1, <2>2 DEF Attach
  <1>4. FsOK'
    <2>1. CASE fs' = fs
      BY <2>1 DEF Inv, FsOK, OneProvince
    <2>2. CASE fs' = [fs EXCEPT ![p] = Created(@)]
      BY <1>2, <2>2, OpenedIs DEF Inv
    <2> QED  BY <1>3, <2>1, <2>2
  <1>5. Control' /\ PcInv' /\ pc' \in {"idle", "attach", "copy"}
        /\ (pc' = "copy" => grp' = {})
    BY <1>1, <1>3, CalledIs DEF Combining
  <1>6. MemInv'
    <2>1. IsTables(mem) /\ DOMAIN mem = {} /\ AllOf(mem, plan.out.prov)
      BY <1>1 DEF Inv, MemInv
    <2>2. {Kinds4[i] : i \in {}} = {}
      OBVIOUS
    <2> QED  BY <1>1, <1>5, <2>1, <2>2 DEF MemInv
  <1> QED  BY <1>1, <1>4, <1>5, <1>6 DEF Inv

LEMMA DetachStep == Inv /\ Detach => Inv'
  <1> SUFFICES ASSUME Inv, Detach PROVE Inv'
    OBVIOUS
  <1>1. /\ pc = "detach" /\ plan' = plan /\ UNCHANGED command /\ Command'
        /\ mem' = mem /\ fs' = fs
    BY CommandStays DEF Detach, Inv, command
  <1>2. PICK good \in BOOLEAN : Called(good, "save") /\ failed' \in BOOLEAN
    <2>1. TRUE \in BOOLEAN /\ FALSE \in BOOLEAN
      BY Zenon
    <2>2. failed' \in BOOLEAN
      BY <2>1 DEF Detach, Inv, Control
    <2> QED  BY <2>1, <2>2 DEF Detach
  <1>3. FsOK'
    BY <1>1 DEF Inv, FsOK, OneProvince
  <1>4. Control' /\ PcInv' /\ pc' \in {"idle", "detach", "save"}
    BY <1>1, <1>2, CalledIs DEF Combining
  <1>5. MemInv'
    BY <1>1, <1>4 DEF Inv, MemInv
  <1> QED  BY <1>1, <1>3, <1>4, <1>5 DEF Inv

(* A call that copies adds the table of its input, which is of the         *)
(* province of the output.                                                 *)
LEMMA CopyStep == Inv /\ Copy => Inv'
  <1> SUFFICES ASSUME Inv, Copy PROVE Inv'
    OBVIOUS
  <1> DEFINE t == IF plan.op = "combine2" THEN "C_CR" ELSE Kinds4[step]
             o == IF plan.op = "combine2"
                  THEN Attached(1).C \o Attached(2).CR ELSE Attached(step)[t]
             here == IF plan.op = "combine2"
                     THEN "C" \in DOMAIN Attached(1) /\ "CR" \in DOMAIN Attached(2)
                     ELSE t \in DOMAIN Attached(step)
  <1>1. /\ pc = "copy" /\ plan.op \in {"combine2", "combine4"} /\ step <= Calls
        /\ plan' = plan /\ UNCHANGED command /\ Command' /\ fs' = fs
        /\ IsTables(mem) /\ AllOf(mem, plan.out.prov)
        /\ DOMAIN mem = IF plan.op = "combine2" THEN {} ELSE {Kinds4[i] : i \in grp}
        /\ step \in 1..4
    BY CommandStays DEF Copy, Inv, PcInv, MemInv, Control, Combining, command
  <1>2. FsOK'
    BY <1>1 DEF Inv, FsOK, OneProvince
  <1>3. ASSUME NEW n \in 1..Len(plan.in)
        PROVE  IsTables(Attached(n)) /\ AllOf(Attached(n), plan.out.prov)
    <2>1. plan.in[n] \in Paths /\ plan.in[n].ext = "db"
          /\ plan.in[n].prov = plan.out.prov
      BY <1>1, CallsIs DEF Inv, Command
    <2> QED  BY <2>1, OpenedIs, WholeIs DEF Attached, Inv
  <1>4. /\ t \in Named
        /\ here => o \in Seq(Origin) /\ OfProvince(o, plan.out.prov)
    <2>1. CASE plan.op = "combine2"
      <3>1. Len(plan.in) = 2
        BY <1>1, <2>1, CallsIs DEF Inv, Command
      <3>2. ASSUME here
            PROVE  /\ Attached(1).C \in Seq(Origin)
                   /\ Attached(2).CR \in Seq(Origin)
                   /\ OfProvince(Attached(1).C, plan.out.prov)
                   /\ OfProvince(Attached(2).CR, plan.out.prov)
        BY <1>3, <2>1, <3>1, <3>2 DEF IsTables, AllOf
      <3> QED  BY <2>1, <3>2, ConcatOf DEF Named
    <2>2. CASE plan.op = "combine4"
      <3>1. Len(plan.in) = 4
        BY <1>1, <2>2, CallsIs DEF Inv, Command
      <3>2. t \in Named
        BY <1>1, <2>2 DEF Kinds4, Named, Basic
      <3> QED  BY <1>1, <1>3, <2>2, <3>1, <3>2 DEF IsTables, AllOf
    <2> QED  BY <1>1, <2>1, <2>2
  <1>5. ok \in BOOLEAN /\ failed \in BOOLEAN /\ TRUE \in BOOLEAN /\ FALSE \in BOOLEAN
    BY Zenon DEF Inv, Control
  <1>6. CASE here /\ mem' = Put(mem, t, o) /\ Called(TRUE, "detach") /\ UNCHANGED failed
    <2>1. /\ Control' /\ PcInv'
          /\ \/ pc' = "idle"
             \/ pc' = pc /\ grp' = grp \cup {step} /\ step < Calls
             \/ pc' = "detach" /\ grp \cup {step} = 1..Calls /\ grp' = {}
      BY <1>1, <1>5, <1>6, CalledIs DEF Combining
    <2>2. IsTables(mem') /\ AllOf(mem', plan.out.prov)
          /\ DOMAIN mem' = DOMAIN mem \cup {t}
      <3> HIDE DEF t, o, here
      <3> QED  BY <1>1, <1>4, <1>6, PutIn
    <2>3. CASE plan.op = "combine2"
      <3>1. Calls = 1 /\ plan.out.kind = "C_CR"
        BY <1>1, <2>3, CallsIs DEF Inv, Command
      <3>2. pc' \in {"idle", "detach"}
        BY <1>1, <2>1, <3>1
      <3>3. DOMAIN mem' = Promised(plan.out)
        BY <1>1, <2>2, <2>3, <3>1 DEF Promised
      <3>4. MemInv'
        BY <1>1, <2>2, <3>2, <3>3 DEF MemInv
      <3> QED  BY <1>1, <1>2, <2>1, <3>4 DEF Inv
    <2>4. CASE plan.op = "combine4"
      <3>1. Calls = 4 /\ plan.out.kind = "C_CR_Toll"
        BY <1>1, <2>4, CallsIs DEF Inv, Command
      <3>2. DOMAIN mem' = {Kinds4[i] : i \in grp \cup {step}}
        BY <1>1, <2>2, <2>4
      <3>3. {Kinds4[i] : i \in 1..4} = Promised(plan.out)
        BY <3>1 DEF Kinds4, Promised, Basic
      <3>4. MemInv'
        BY <1>1, <2>1, <2>2, <2>4, <3>1, <3>2, <3>3 DEF MemInv
      <3> QED  BY <1>1, <1>2, <2>1, <3>4 DEF Inv
    <2> QED  BY <1>1, <2>3, <2>4
  <1>7. CASE Called(FALSE, "detach") /\ UNCHANGED mem /\ failed' \in BOOLEAN
    <2>1. /\ Control' /\ PcInv'
          /\ \/ pc' = "idle"
             \/ pc' = pc /\ grp' = grp /\ plan.op = "combine4"
             \/ pc' = "detach" /\ grp = 1..Calls /\ plan.op = "combine4"
      BY <1>1, <1>5, <1>7, CalledIs DEF Combining
    <2>2. plan.op = "combine4" => Calls = 4 /\ plan.out.kind = "C_CR_Toll"
      BY <1>1, CallsIs DEF Inv, Command
    <2>3. plan.op = "combine4" => {Kinds4[i] : i \in 1..4} = Promised(plan.out)
      BY <2>2 DEF Kinds4, Promised, Basic
    <2>4. MemInv'
      BY <1>1, <1>7, <2>1, <2>2, <2>3 DEF MemInv
    <2> QED  BY <1>1, <1>2, <2>1, <2>4 DEF Inv
  <1> QED
    <2>1. Called(FALSE, "detach") /\ failed' = TRUE => failed' \in BOOLEAN
      BY <1>5
    <2> QED  BY <1>5, <1>6, <1>7, <2>1 DEF Copy

LEMMA SaveStep == Inv /\ Save => Inv'
  <1> SUFFICES ASSUME Inv, Save PROVE Inv'
    OBVIOUS
  <1>1. /\ pc = "save" /\ plan.op \in {"import", "combine2", "combine4"}
        /\ plan' = plan /\ UNCHANGED command /\ Command' /\ mem' = mem
    BY CommandStays DEF Save, Inv, PcInv, command
  <1>2. plan.out \in Paths /\ plan.out.ext = "db"
    BY <1>1 DEF Inv, Command, IsPlan, IsExport, Unplanned
  <1>3. /\ IsTables(mem) /\ ok \in BOOLEAN /\ failed \in BOOLEAN
        /\ TRUE \in BOOLEAN /\ FALSE \in BOOLEAN
    BY Zenon DEF Inv, MemInv, Control
  <1>4. CASE /\ fs' = [fs EXCEPT ![plan.out] = Created(@)]
             /\ GoOn("backup") /\ UNCHANGED failed
    <2>1. FsOK'
      BY <1>2, <1>4, OpenedIs DEF Inv
    <2>2. Control' /\ PcInv'
      BY <1>1, <1>3, <1>4 DEF GoOn, Control, PcInv, Combining, Unplanned
    <2>3. MemInv'
      BY <1>1, <1>4 DEF GoOn, Inv, MemInv
    <2> QED  BY <1>1, <2>1, <2>2, <2>3 DEF Inv
  <1>5. CASE Stop(FALSE) /\ failed' = TRUE /\ UNCHANGED fs
    <2>1. FsOK'
      BY <1>5 DEF Inv, FsOK, OneProvince
    <2> QED  BY <1>1, <1>3, <1>5, <2>1, Stopped
  <1> QED  BY <1>4, <1>5 DEF Save

LEMMA BackupStep == Inv /\ Backup => Inv'
  <1> SUFFICES ASSUME Inv, Backup PROVE Inv'
    OBVIOUS
  <1>1. /\ pc = "backup" /\ plan.op \in {"import", "combine2", "combine4"}
        /\ plan' = plan /\ UNCHANGED command /\ Command' /\ mem' = mem
    BY CommandStays DEF Backup, Inv, PcInv, command
  <1>2. plan.out \in Paths /\ plan.out.ext = "db"
    BY <1>1 DEF Inv, Command, IsPlan, IsExport, Unplanned
  <1>3. /\ IsTables(mem) /\ DOMAIN mem = Promised(plan.out)
        /\ AllOf(mem, plan.out.prov)
    BY <1>1 DEF Inv, MemInv
  <1>4. failed \in BOOLEAN /\ TRUE \in BOOLEAN
    BY Zenon DEF Inv, Control
  <1>5. FsOK'
    <2>1. CASE fs' = [fs EXCEPT ![plan.out] = Db(mem)]
      BY <1>2, <1>3, <2>1, DbIs, FsPut DEF Inv
    <2>2. CASE fs' = fs
      BY <2>2 DEF Inv, FsOK, OneProvince
    <2> QED  BY <2>1, <2>2 DEF Backup
  <1>6. PICK r \in BOOLEAN : Stop(r) /\ failed' \in BOOLEAN
    BY <1>4 DEF Backup
  <1> QED  BY <1>1, <1>3, <1>5, <1>6, Stopped

LEMMA SelectStep == Inv /\ Select => Inv'
  <1> SUFFICES ASSUME Inv, Select PROVE Inv'
    OBVIOUS
  <1>1. /\ pc = "select" /\ plan.op = "export" /\ plan' = plan
        /\ UNCHANGED command /\ Command' /\ mem' = mem /\ fs' = fs
    BY CommandStays DEF Select, Inv, PcInv, command
  <1>2. /\ FsOK' /\ IsTables(mem')
    BY <1>1 DEF Inv, FsOK, OneProvince, MemInv
  <1>3. /\ ok \in BOOLEAN /\ failed \in BOOLEAN
        /\ TRUE \in BOOLEAN /\ FALSE \in BOOLEAN
    BY Zenon DEF Inv, Control
  <1>4. CASE GoOn("bin") /\ UNCHANGED failed
    BY <1>1, <1>2, <1>3, <1>4
    DEF GoOn, Inv, Control, PcInv, MemInv, Combining, Unplanned
  <1>5. CASE Stop(FALSE) /\ failed' \in BOOLEAN
    BY <1>1, <1>2, <1>3, <1>5, Stopped
  <1> QED  BY <1>3, <1>4, <1>5 DEF Select

LEMMA OpenBinStep == Inv /\ OpenBin => Inv'
  <1> SUFFICES ASSUME Inv, OpenBin PROVE Inv'
    OBVIOUS
  <1>1. /\ pc = "bin" /\ plan.op = "export" /\ plan' = plan
        /\ UNCHANGED command /\ Command' /\ mem' = mem
    BY CommandStays DEF OpenBin, Inv, PcInv, command
  <1>2. plan.out \in Paths /\ plan.out.ext = "bin"
    BY <1>1 DEF Inv, Command, IsPlan, IsExport, IsImport, IsCombine2,
                IsCombine4, Unplanned
  <1>3. /\ IsTables(mem') /\ ok \in BOOLEAN /\ failed \in BOOLEAN
        /\ TRUE \in BOOLEAN /\ FALSE \in BOOLEAN
    BY <1>1, Zenon DEF Inv, MemInv, Control
  <1>4. CASE /\ fs' = [fs EXCEPT ![plan.out] = Bin(NoTable, FALSE)]
             /\ GoOn("write") /\ UNCHANGED failed
    <2>1. IsContent(plan.out, Bin(NoTable, FALSE))
      BY <1>2, <1>3, NoTables DEF IsContent, Bin
    <2>2. FsOK'
      BY <1>2, <1>4, <2>1, FsPut DEF Inv
    <2>3. Control' /\ PcInv'
      BY <1>1, <1>3, <1>4 DEF GoOn, Control, PcInv, Combining, Unplanned
    <2>4. MemInv'
      BY <1>3, <1>4 DEF GoOn, MemInv
    <2> QED  BY <1>1, <2>2, <2>3, <2>4 DEF Inv
  <1>5. CASE Stop(FALSE) /\ failed' = TRUE /\ UNCHANGED fs
    <2>1. FsOK'
      BY <1>5 DEF Inv, FsOK, OneProvince
    <2> QED  BY <1>1, <1>3, <1>5, <2>1, Stopped
  <1> QED  BY <1>4, <1>5 DEF OpenBin

LEMMA WriteStep == Inv /\ Write => Inv'
  <1> SUFFICES ASSUME Inv, Write PROVE Inv'
    OBVIOUS
  <1>1. /\ pc = "write" /\ plan.op = "export" /\ plan' = plan
        /\ UNCHANGED command /\ Command' /\ mem' = mem
    BY CommandStays DEF Write, Inv, PcInv, command
  <1>2. plan.out \in Paths /\ plan.out.ext = "bin"
    BY <1>1 DEF Inv, Command, IsPlan, IsExport, IsImport, IsCombine2,
                IsCombine4, Unplanned
  <1>3. /\ IsTables(mem') /\ IsTables(mem) /\ failed \in BOOLEAN
        /\ TRUE \in BOOLEAN /\ FALSE \in BOOLEAN
    BY <1>1, Zenon DEF Inv, MemInv, Control
  <1>4. PICK w \in BOOLEAN, r \in BOOLEAN :
          /\ fs' = [fs EXCEPT ![plan.out] = Bin(mem, w)]
          /\ Stop(r) /\ failed' \in BOOLEAN
    BY <1>3 DEF Write
  <1>5. IsContent(plan.out, Bin(mem, w))
    BY <1>2, <1>3 DEF IsContent, Bin
  <1>6. FsOK'
    BY <1>2, <1>4, <1>5, FsPut DEF Inv
  <1> QED  BY <1>1, <1>3, <1>4, <1>6, Stopped

LEMMA KilledStep == Inv /\ Killed => Inv'
  <1> SUFFICES ASSUME Inv, Killed PROVE Inv'
    OBVIOUS
  <1>1. FsOK' /\ IsTables(mem') /\ UNCHANGED command
    BY DEF Killed, Inv, FsOK, OneProvince, MemInv
  <1>2. failed' \in BOOLEAN /\ FALSE \in BOOLEAN
    BY Zenon DEF Killed
  <1> QED  BY <1>1, <1>2, Stopped DEF Killed

LEMMA StutterStep == Inv /\ UNCHANGED vars => Inv'
  <1> SUFFICES ASSUME Inv, UNCHANGED vars PROVE Inv'
    OBVIOUS
  <1>1. FsOK' /\ Command' /\ Control' /\ MemInv'
    BY DEF vars, Inv, FsOK, OneProvince, Command, Control, MemInv
  <1>2. PcInv'
    BY DEF vars, Inv, PcInv, Calls
  <1> QED  BY <1>1, <1>2 DEF Inv

-----------------------------------------------------------------------------
LEMMA InvHolds == Spec => []Inv
  <1>1. Init => Inv
    BY InvInit
  <1>2. Inv /\ [Next]_vars => Inv'
    <2> SUFFICES ASSUME Inv, [Next]_vars PROVE Inv'
      OBVIOUS
    <2>1. CASE Edit
      BY <2>1, EditStep
    <2>2. CASE \E a \in ArgLists : Start(a)
      BY <2>2, StartStep
    <2>3. CASE Run
      BY <2>3, OpenDbStep, ImportMidStep, AttachStep, CopyStep, DetachStep,
         SaveStep, BackupStep, SelectStep, OpenBinStep, WriteStep DEF Run
    <2>4. CASE Killed
      BY <2>4, KilledStep
    <2>5. CASE UNCHANGED vars
      BY <2>5, StutterStep
    <2> QED  BY <2>1, <2>2, <2>3, <2>4, <2>5 DEF Next
  <1> QED  BY <1>1, <1>2, PTL DEF Spec

(* Every variable keeps its type and every file its format, for every set  *)
(* of paths, command lines and initial files.                              *)
THEOREM TypeCorrect == Spec => []TypeOK
  <1>1. Inv => TypeOK
    BY InvIs
  <1> QED  BY <1>1, InvHolds, PTL

(* A database holds nothing, or all the tables that its name promises and  *)
(* only rows of its own province: do_argv, combine_db_C_CR and             *)
(* combine_db_C_CR_Toll, whatever fails and whenever the program is killed.*)
THEOREM NeverMixed == Spec => []OneProvince
  <1>1. Inv => OneProvince
    BY InvIs
  <1> QED  BY <1>1, InvHolds, PTL

-----------------------------------------------------------------------------
(* Whole commands *)

(* The arguments with an extension, and the inputs of a plan.              *)
ArgsOf(a, e) == {p \in Paths : p.ext = e /\ \E i \in 1..Len(a) : a[i] = p}

Inputs(q) == {q.in[n] : n \in 1..Len(q.in)}

ReadsArgs(q, a) ==
  /\ q.op = "import" => ArgsOf(a, "mid") = {q.in[1]} /\ ArgsOf(a, "db") = {}
  /\ q.op = "export" => ArgsOf(a, "db") = {q.in[1]} /\ ArgsOf(a, "mid") = {}
  /\ q.op \in {"combine2", "combine4"} =>
       ArgsOf(a, "db") = Inputs(q) /\ ArgsOf(a, "mid") = {}

LEMMA WithExtFinite ==
  ASSUME NEW a \in Seq(Paths), NEW e
  PROVE  /\ IsFiniteSet(WithExt(a, e))
         /\ ArgsOf(a, e) = {a[i] : i \in WithExt(a, e)}
  <1>1. WithExt(a, e) \subseteq 1..Len(a)
    BY DEF WithExt
  <1>2. IsFiniteSet(1..Len(a))
    BY FS_Interval
  <1>3. IsFiniteSet(WithExt(a, e))
    BY <1>1, <1>2, FS_Subset
  <1>4. \A i \in 1..Len(a) : a[i] \in Paths
    OBVIOUS
  <1> QED  BY <1>3, <1>4 DEF ArgsOf, WithExt

(* One argument of an extension is all the arguments of that extension.    *)
LEMMA OneArg ==
  ASSUME NEW a \in Seq(Paths), NEW e, Cardinality(WithExt(a, e)) = 1
  PROVE  ArgsOf(a, e) = {a[CHOOSE i \in WithExt(a, e) : TRUE]}
  <1>1. PICK x : WithExt(a, e) = {x}
    BY WithExtFinite, FS_Singleton
  <1>2. (CHOOSE i \in WithExt(a, e) : TRUE) = x
    BY <1>1
  <1> QED  BY <1>1, <1>2, WithExtFinite

LEMMA NoArg ==
  ASSUME NEW a \in Seq(Paths), NEW e, WithExt(a, e) = {}
  PROVE  ArgsOf(a, e) = {}
  BY WithExtFinite

(* As many arguments as kinds, and one of each kind: no others.            *)
LEMMA Pigeonhole ==
  ASSUME NEW a \in Seq(Paths), NEW e, NEW kinds \in {Kinds2, Kinds4},
         Cardinality(WithExt(a, e)) = Len(kinds),
         \A n \in 1..Len(kinds) : \E i \in WithExt(a, e) : a[i].kind = kinds[n]
  PROVE  ArgsOf(a, e) =
           {The(a, WithExt(a, e), kinds[n]) : n \in 1..Len(kinds)}
  <1> DEFINE I == WithExt(a, e)
             N == Len(kinds)
             w == [n \in 1..N |-> CHOOSE i \in I : a[i].kind = kinds[n]]
             J == {w[n] : n \in 1..N}
  <1>1. N \in Nat /\ \A m, n \in 1..N : kinds[m] = kinds[n] => m = n
    BY DEF Kinds2, Kinds4
  <1>2. \A n \in 1..N : w[n] \in I /\ a[w[n]].kind = kinds[n]
    OBVIOUS
  <1> HIDE DEF N
  <1>3. w \in [1..N -> J]
    OBVIOUS
  <1>31. \A n \in 1..N : w[n] = CHOOSE i \in I : a[i].kind = kinds[n]
    OBVIOUS
  <1> HIDE DEF w
  <1>4. \A m, n \in 1..N : w[m] = w[n] => m = n
    BY <1>1, <1>2
  <1>5. w \in Bijection(1..N, J)
    BY <1>3, <1>4, Fun_IsBij
  <1>6. IsFiniteSet(1..N) /\ Cardinality(1..N) = N
    BY <1>1, FS_Interval
  <1>7. Cardinality(J) = N
    <2>1. ExistsBijection(1..N, J)
      BY <1>5 DEF ExistsBijection
    <2> HIDE DEF J
    <2> QED  BY <1>6, <2>1, FS_Bijection
  <1>8. J \subseteq I
    BY <1>2
  <1>9. I = J
    <2>1. IsFiniteSet(I) /\ Cardinality(I) = N
      BY WithExtFinite DEF N
    <2> HIDE DEF I, J
    <2> QED  BY <1>7, <1>8, <2>1, FS_Subset
  <1>10. ArgsOf(a, e) = {a[i] : i \in I}
    BY WithExtFinite
  <1>11. \A n \in 1..N : a[w[n]] = The(a, I, kinds[n])
    BY <1>31 DEF The
  <1>12. {a[i] : i \in J} = {a[w[n]] : n \in 1..N}
    OBVIOUS
  <1>13. {a[w[n]] : n \in 1..N} = {The(a, I, kinds[n]) : n \in 1..N}
    <2> HIDE DEF I
    <2> QED  BY <1>11
  <1>14. ArgsOf(a, e) = {The(a, I, kinds[n]) : n \in 1..N}
    <2> HIDE DEF I, J
    <2> QED  BY <1>9, <1>10, <1>12, <1>13
  <1> QED  BY <1>14 DEF N

LEMMA ArgsOfPlan ==
  ASSUME NEW a \in ArgLists
  PROVE  ReadsArgs(Plan(a), a)
  <1> DEFINE mids == WithExt(a, "mid")
             dbs  == WithExt(a, "db")
             one(I) == a[CHOOSE i \in I : TRUE]
  <1>0. a \in Seq(Paths)
    BY ArgListsAssumption
  <1>1. CASE Plan(a) = NoPlan
    BY <1>1 DEF ReadsArgs, NoPlan
  <1>2. CASE /\ dbs = {} /\ Cardinality(mids) = 1
             /\ Plan(a) = Convert("import", one(mids), Importable, "db")
    <2>1. ArgsOf(a, "mid") = {one(mids)} /\ ArgsOf(a, "db") = {}
      BY <1>0, <1>2, OneArg, NoArg
    <2>2. \/ Plan(a).op = "skip"
          \/ Plan(a).op = "import" /\ Plan(a).in = <<one(mids)>>
      BY <1>2 DEF Convert, Skip
    <2> QED  BY <2>1, <2>2 DEF ReadsArgs
  <1>3. CASE /\ mids = {} /\ Cardinality(dbs) = 1
             /\ Plan(a) = Convert("export", one(dbs), Exportable, "bin")
    <2>1. ArgsOf(a, "db") = {one(dbs)} /\ ArgsOf(a, "mid") = {}
      BY <1>0, <1>3, OneArg, NoArg
    <2>2. \/ Plan(a).op = "skip"
          \/ Plan(a).op = "export" /\ Plan(a).in = <<one(dbs)>>
      BY <1>3 DEF Convert, Skip
    <2> QED  BY <2>1, <2>2 DEF ReadsArgs
  <1>4. ASSUME NEW op \in {"combine2", "combine4"}, NEW k,
               NEW kinds \in {Kinds2, Kinds4}, mids = {},
               Cardinality(dbs) = Len(kinds),
               Plan(a) = Combine(op, a, dbs, kinds, k)
        PROVE  ReadsArgs(Plan(a), a)
    <2>1. CASE Match(a, dbs, kinds)
      <3>1. /\ Plan(a).op = op
            /\ Plan(a).in = [n \in 1..Len(kinds) |-> The(a, dbs, kinds[n])]
        BY <1>4, <2>1 DEF Combine
      <3>2. Len(Plan(a).in) = Len(kinds)
        BY <3>1 DEF Kinds2, Kinds4
      <3>3. ArgsOf(a, "db") = {The(a, dbs, kinds[n]) : n \in 1..Len(kinds)}
        BY <1>0, <1>4, <2>1, Pigeonhole DEF Match
      <3>4. ArgsOf(a, "db") = Inputs(Plan(a)) /\ ArgsOf(a, "mid") = {}
        BY <1>0, <1>4, <3>1, <3>2, <3>3, NoArg DEF Inputs
      <3> QED  BY <3>1, <3>4 DEF ReadsArgs
    <2>2. CASE ~ Match(a, dbs, kinds)
      BY <1>1, <1>4, <2>2 DEF Combine
    <2> QED  BY <2>1, <2>2
  <1>5. CASE /\ mids = {} /\ Cardinality(dbs) = 2
             /\ Plan(a) = Combine("combine2", a, dbs, Kinds2, "C_CR")
    BY <1>4, <1>5 DEF Kinds2
  <1>6. CASE /\ mids = {} /\ Cardinality(dbs) = 4
             /\ Plan(a) = Combine("combine4", a, dbs, Kinds4, "C_CR_Toll")
    BY <1>4, <1>6 DEF Kinds4
  <1> QED  BY <1>1, <1>2, <1>3, <1>5, <1>6 DEF Plan

-----------------------------------------------------------------------------
(* Which files a command changes *)

(* The plan of a command under way, by its operation.                      *)
LEMMA Running ==
  ASSUME Inv, plan.op \notin Unplanned
  PROVE  /\ argv \in ArgLists /\ plan.out \in Paths
         /\ ReadsArgs(plan, argv)
         /\ \A e : Args(e) = ArgsOf(argv, e)
         /\ plan.op \in {"import", "export", "combine2", "combine4"}
         /\ plan.op = "import" => IsImport(plan) /\ plan.out.ext = "db"
         /\ plan.op = "export" => IsExport(plan) /\ plan.out.ext = "bin"
         /\ plan.op = "combine2" => IsCombine2(plan) /\ plan.out.ext = "db"
         /\ plan.op = "combine4" => IsCombine4(plan) /\ plan.out.ext = "db"
  <1>1. Command
    BY DEF Inv
  <1>2. argv \in ArgLists /\ plan = Plan(argv)
    BY <1>1 DEF Command, NoPlan, Unplanned
  <1>3. ReadsArgs(plan, argv)
    BY <1>2, ArgsOfPlan
  <1>4. \A e : Args(e) = ArgsOf(argv, e)
    BY DEF Args, ArgsOf
  <1> QED  BY <1>1, <1>2, <1>3, <1>4
           DEF Command, IsPlan, IsImport, IsExport, IsCombine2, IsCombine4,
               Unplanned

(* The output is no argument that is read.                                 *)
LEMMA OutIsNoInput ==
  ASSUME Inv, plan.op \notin Unplanned
  PROVE  /\ plan.out \notin Args("mid") \cup Args("db")
         /\ \A n \in 1..Len(plan.in) :
              plan.op # "import" => plan.in[n] \in Args("db")
  <1>1. CASE plan.op = "import"
    <2>1. Args("db") = {} /\ Args("mid") = {plan.in[1]}
      BY <1>1, Running DEF ReadsArgs
    <2>2. plan.out.ext = "db" /\ plan.in[1].ext = "mid"
      BY <1>1, Running DEF IsImport, IsInput
    <2> QED  BY <1>1, <2>1, <2>2
  <1>2. CASE plan.op = "export"
    <2>1. Args("mid") = {} /\ Args("db") = {plan.in[1]}
      BY <1>2, Running DEF ReadsArgs
    <2>2. plan.out.ext = "bin" /\ plan.in[1].ext = "db" /\ Len(plan.in) = 1
      BY <1>2, Running DEF IsExport
    <2> QED  BY <2>1, <2>2
  <1>3. CASE plan.op = "combine2"
    <2>1. Args("mid") = {} /\ Args("db") = Inputs(plan)
      BY <1>3, Running DEF ReadsArgs
    <2>2. \A n \in 1..Len(plan.in) : plan.in[n].kind # plan.out.kind
      BY <1>3, Running DEF IsCombine2, IsInput, Kinds2
    <2> QED  BY <2>1, <2>2 DEF Inputs
  <1>4. CASE plan.op = "combine4"
    <2>1. Args("mid") = {} /\ Args("db") = Inputs(plan)
      BY <1>4, Running DEF ReadsArgs
    <2>2. \A n \in 1..Len(plan.in) : plan.in[n].kind # plan.out.kind
      BY <1>4, Running DEF IsCombine4, IsInput, Kinds4
    <2> QED  BY <2>1, <2>2 DEF Inputs
  <1> QED  BY <1>1, <1>2, <1>3, <1>4, Running

(* The lines of InputsUntouched, for one step.                             *)
Untouched == pc # "idle" => \A p \in Paths : fs'[p] # fs[p] => MayChange(p)

(* A step that puts something else into one file.                          *)
LEMMA OneFile ==
  ASSUME Inv, NEW q \in Paths, NEW x, fs' = [fs EXCEPT ![q] = x]
  PROVE  \A p \in Paths : fs'[p] # fs[p] => p = q /\ x # fs[q] /\ fs'[q] = x
  BY DEF Inv, FsOK

LEMMA OutputChanges ==
  ASSUME Inv, pc # "idle", NEW x, fs' = [fs EXCEPT ![plan.out] = x]
  PROVE  Untouched
  <1>1. plan.op \notin Unplanned
    BY DEF Inv, PcInv
  <1>2. plan.out \in Paths /\ plan.out \notin Args("mid") \cup Args("db")
    BY <1>1, Running, OutIsNoInput
  <1>3. \A p \in Paths : fs'[p] # fs[p] => p = plan.out
    BY <1>2, OneFile
  <1> QED  BY <1>2, <1>3 DEF Untouched, MayChange

LEMMA InputCreated ==
  ASSUME Inv, NEW n \in 1..Len(plan.in), plan.op \notin Unplanned,
         plan.op # "import", fs' = [fs EXCEPT ![plan.in[n]] = Created(@)]
  PROVE  Untouched
  <1>1. plan.in[n] \in Args("db") /\ plan.in[n] \in Paths
    BY OutIsNoInput DEF Args
  <1>2. fs' = [fs EXCEPT ![plan.in[n]] = Created(fs[plan.in[n]])]
    OBVIOUS
  <1>3. ASSUME NEW p \in Paths, fs'[p] # fs[p]
        PROVE  p \in Args("db") /\ fs[p] = Absent /\ fs'[p] = Db(NoTable)
    <2>1. p = plan.in[n] /\ fs'[p] = Created(fs[p]) /\ Created(fs[p]) # fs[p]
      BY <1>1, <1>2, <1>3, OneFile
    <2> QED  BY <1>1, <2>1 DEF Created
  <1> QED  BY <1>3 DEF Untouched, MayChange

LEMMA UntouchedStep == Inv /\ [Next]_vars => Untouched \/ UNCHANGED vars
  <1> SUFFICES ASSUME Inv, Next, pc # "idle" PROVE Untouched
    BY DEF Untouched
  <1>1. plan.op \notin Unplanned
    BY DEF Inv, PcInv
  <1>2. CASE UNCHANGED fs
    BY <1>2 DEF Untouched
  <1>3. CASE OpenDb
    <2>1. CASE plan.op = "export" /\ fs' = [fs EXCEPT ![plan.in[1]] = Created(@)]
      <3>1. 1 \in 1..Len(plan.in)
        BY <1>1, <2>1, Running DEF IsExport
      <3> QED  BY <1>1, <2>1, <3>1, InputCreated
    <2> QED  BY <1>2, <1>3, <2>1 DEF OpenDb
  <1>4. CASE Attach
    <2>1. step \in 1..Len(plan.in)
      <3>1. /\ plan.op \in {"combine2", "combine4"} /\ step <= Calls
            /\ step \in 1..4
        BY <1>4 DEF Attach, Inv, PcInv, Control, Combining
      <3>2. Calls = Len(plan.in) /\ Len(plan.in) \in Nat
        BY <1>4, <3>1, CallsIs DEF Attach, Calls, Inv, Command
      <3> QED  BY <3>1, <3>2
    <2>2. plan.op # "import"
      BY <1>4 DEF Attach, Inv, PcInv, Combining
    <2> QED  BY <1>1, <1>2, <1>4, <2>1, <2>2, InputCreated DEF Attach
  <1>5. CASE Save \/ Backup \/ OpenBin \/ Write
    <2>1. \/ UNCHANGED fs
          \/ \E x : fs' = [fs EXCEPT ![plan.out] = x]
      <3>1. CASE Save
        <4>1. \/ UNCHANGED fs
              \/ fs' = [fs EXCEPT ![plan.out] = Created(fs[plan.out])]
          BY <3>1 DEF Save
        <4> QED  BY <4>1
      <3>2. CASE Backup \/ OpenBin \/ Write
        BY <3>2 DEF Backup, OpenBin, Write
      <3> QED  BY <1>5, <3>1, <3>2
    <2> QED  BY <1>2, <2>1, OutputChanges
  <1>6. CASE ImportMid \/ Copy \/ Detach \/ Select \/ Killed
    BY <1>2, <1>6 DEF ImportMid, Copy, Detach, Select, Killed
  <1> QED  BY <1>2, <1>3, <1>4, <1>5, <1>6 DEF Next, Run, Edit, Start

(* Whatever happens in a command, no .mid or .db file it was given is      *)
(* changed, and no other file but its output: the names that do_argv makes *)
(* for the outputs, for every command line and every set of paths.         *)
THEOREM InputsAreKept == Spec => InputsUntouched
  <1>1. Inv /\ [Next]_vars => [Untouched]_vars
    BY UntouchedStep
  <1> QED  BY <1>1, InvHolds, PTL DEF Spec, InputsUntouched, Untouched
-----------------------------------------------------------------------------
(* What a command in which nothing fails leaves *)

(* What a command in which nothing has failed has done to the files: the   *)
(* output holds x, the databases in S are there, and the other files are   *)
(* as they were.                                                           *)
Files(f, S, x) ==
  \A p \in Paths : f[p] = CASE p = plan.out -> x
                            [] p \in S      -> Created(start[p])
                            [] OTHER        -> start[p]

Old == start[plan.out]

(* The calls of the phase before this one have succeeded.                  *)
AllCalled == grp = 1..(step - 1)

(* Where it is, phase by phase: the files, and the tables in memory, which *)
(* are those of the result once all of them are copied.                    *)
Track ==
  /\ pc \in {"open", "import"} => Files(fs, {}, Old) /\ mem = NoTable
  /\ pc = "attach" =>
       /\ Files(fs, {plan.in[n] : n \in 1..(step - 1)}, Old)
       /\ mem = NoTable /\ AllCalled
  /\ pc = "copy" /\ plan.op = "combine2" =>
       step = 1 /\ grp = {} /\ mem = NoTable
  /\ pc = "copy" /\ plan.op = "combine4" =>
       /\ grp = {i \in 1..(step - 1) : Has(Kinds4[i])}
       /\ mem = [k \in {Kinds4[i] : i \in grp} |-> Table(k)]
  /\ pc = "detach" => AllCalled
  /\ pc \in {"copy", "detach", "save", "select", "bin"} =>
       Files(fs, Args("db"), Old)
  /\ pc = "backup" => Files(fs, Args("db"), Created(Old))
  /\ pc = "write" => Files(fs, Args("db"), Bin(NoTable, FALSE))
  /\ pc = "select" =>
       /\ mem = Created(start[plan.in[1]]).tables
       /\ plan.in[1].kind # "C_CR_Toll"
  /\ pc \in {"detach", "save", "backup"} => Result = Db(mem)
  /\ pc \in {"bin", "write"} => Result = Bin(mem, TRUE)
  /\ pc = "idle" => Files(fs, Args("db"), Result)

OnTrack == ~failed /\ plan.op \notin Unplanned => Track

(* The arguments by their kind.                                            *)
LEMMA InputIs ==
  ASSUME Inv, plan.op \notin Unplanned
  PROVE  /\ plan.op \in {"import", "export"} =>
              /\ Args("mid") \cup Args("db") = {plan.in[1]}
              /\ (CHOOSE q \in Args("mid") \cup Args("db") : TRUE) = plan.in[1]
         /\ plan.op = "import" => Args("db") = {}
         /\ plan.op = "export" =>
              Args("db") = {plan.in[1]} /\ Input(plan.in[1].kind) = plan.in[1]
         /\ plan.op = "combine2" =>
              /\ Args("db") = Inputs(plan) /\ Len(plan.in) = 2
              /\ Input("C") = plan.in[1] /\ Input("CR") = plan.in[2]
         /\ plan.op = "combine4" =>
              /\ Args("db") = Inputs(plan) /\ Len(plan.in) = 4
              /\ \A n \in 1..4 : Input(Kinds4[n]) = plan.in[n]
  <1>1. CASE plan.op = "import"
    <2>1. Args("db") = {} /\ Args("mid") = {plan.in[1]}
      BY <1>1, Running DEF ReadsArgs
    <2> QED  BY <1>1, <2>1
  <1>2. CASE plan.op = "export"
    <2>1. Args("mid") = {} /\ Args("db") = {plan.in[1]}
      BY <1>2, Running DEF ReadsArgs
    <2> QED  BY <1>2, <2>1 DEF Input
  <1>3. CASE plan.op = "combine2"
    <2>1. /\ Args("db") = Inputs(plan) /\ Len(plan.in) = 2
          /\ \A n \in 1..2 : plan.in[n].kind = Kinds2[n]
      BY <1>3, Running DEF ReadsArgs, IsCombine2, IsInput
    <2>2. Inputs(plan) = {plan.in[1], plan.in[2]}
      BY <2>1 DEF Inputs
    <2>3. plan.in[1].kind = "C" /\ plan.in[2].kind = "CR"
      BY <2>1 DEF Kinds2
    <2> QED  BY <1>3, <2>1, <2>2, <2>3 DEF Input
  <1>4. CASE plan.op = "combine4"
    <2>1. /\ Args("db") = Inputs(plan) /\ Len(plan.in) = 4
          /\ \A n \in 1..4 : plan.in[n].kind = Kinds4[n]
      BY <1>4, Running DEF ReadsArgs, IsCombine4, IsInput
    <2>2. Inputs(plan) = {plan.in[n] : n \in 1..4}
      BY <2>1 DEF Inputs
    <2>3. \A m, n \in 1..4 : Kinds4[m] = Kinds4[n] => m = n
      BY DEF Kinds4
    <2>4. ASSUME NEW n \in 1..4
          PROVE  Input(Kinds4[n]) = plan.in[n]
      <3>1. \A p \in Args("db") : p.kind = Kinds4[n] <=> p = plan.in[n]
        BY <2>1, <2>2, <2>3
      <3>2. plan.in[n] \in Args("db")
        BY <2>1, <2>2
      <3> QED  BY <3>1, <3>2 DEF Input
    <2> QED  BY <1>4, <2>1, <2>4
  <1> QED  BY <1>1, <1>2, <1>3, <1>4

(* What the output is to hold, by the operation.                           *)
LEMMA ResultIs ==
  ASSUME Inv, plan.op \notin Unplanned
  PROVE  /\ plan.op = "import" =>
              Result = IF start[plan.in[1]] = Absent THEN Old
                       ELSE Db(Put(NoTable, plan.in[1].kind,
                                   Text(plan.in[1], start[plan.in[1]].ver)))
         /\ plan.op = "export" =>
              Result = IF plan.in[1].kind = "C_CR_Toll" \/ Has(plan.in[1].kind)
                       THEN Bin(Created(start[plan.in[1]]).tables, TRUE)
                       ELSE Old
         /\ plan.op = "combine2" =>
              Result = IF Has("C") /\ Has("CR")
                       THEN Db(Put(NoTable, "C_CR", Table("C") \o Table("CR")))
                       ELSE Old
         /\ plan.op = "combine4" =>
              Result = IF \A k \in Basic : Has(k)
                       THEN Db([k \in Basic |-> Table(k)]) ELSE Old
  <1>1. CASE plan.op \in {"import", "export"}
    <2>1. (CHOOSE q \in Args("mid") \cup Args("db") : TRUE) = plan.in[1]
      BY <1>1, InputIs
    <2> DEFINE c == CHOOSE q \in Args("mid") \cup Args("db") : TRUE
    <2>2. CASE plan.op = "import"
      <3>1. Result = IF start[c] = Absent THEN Old
                     ELSE Db(Put(NoTable, c.kind, Text(c, start[c].ver)))
        BY <2>2 DEF Result, Old
      <3> HIDE DEF c
      <3>2. c = plan.in[1]
        BY <2>1 DEF c
      <3> QED  BY <2>2, <3>1, <3>2
    <2>3. CASE plan.op = "export"
      <3>1. Result = IF c.kind = "C_CR_Toll" \/ Has(c.kind)
                     THEN Bin(Created(start[c]).tables, TRUE) ELSE Old
        BY <2>3 DEF Result, Old
      <3> HIDE DEF c
      <3>2. c = plan.in[1]
        BY <2>1 DEF c
      <3> QED  BY <2>3, <3>1, <3>2
    <2> QED  BY <1>1, <2>2, <2>3
  <1>2. CASE plan.op \in {"combine2", "combine4"}
    BY <1>2 DEF Result, Old
  <1> QED  BY <1>1, <1>2, Running

(* An input that is there with its table.                                  *)
LEMMA HasIs ==
  ASSUME NEW k
  PROVE  /\ Has(k) <=> k \in DOMAIN Created(start[Input(k)]).tables
         /\ Has(k) => Created(start[Input(k)]).tables[k] = Table(k)
  <1>1. CASE start[Input(k)] = Absent
    <2>1. Created(start[Input(k)]).tables = NoTable
      BY <1>1 DEF Created, Db
    <2> QED  BY <1>1, <2>1, NoTables DEF Has
  <1>2. CASE start[Input(k)] # Absent
    BY <1>2 DEF Created, Has, Table
  <1> QED  BY <1>1, <1>2

(* What does not change while a command is at work.                        *)
LEMMA Stays ==
  ASSUME UNCHANGED command
  PROVE  /\ plan' = plan /\ start' = start /\ Result' = Result /\ Old' = Old
         /\ \A e : Args(e)' = Args(e)
         /\ \A k : Has(k)' = Has(k) /\ Table(k)' = Table(k)
         /\ \A f, S, x : Files(f, S, x)' = Files(f, S, x)
  BY DEF command, Result, Old, Args, Has, Table, Input, Files

(* A step of a command in which nothing has failed.                        *)
AtWork == Inv /\ Track /\ plan.op \notin Unplanned /\ UNCHANGED command

(* An input is opened and created, or the output is written.               *)
LEMMA InputOpened ==
  ASSUME Inv, plan.op \notin Unplanned, NEW S, NEW q \in Args("db"),
         Files(fs, S, Old), fs' = [fs EXCEPT ![q] = Created(@)]
  PROVE  Files(fs', S \cup {q}, Old)
  <1>1. q \in Paths /\ q # plan.out /\ DOMAIN fs = Paths
    BY OutIsNoInput DEF Args, Inv, FsOK
  <1>2. Created(Created(start[q])) = Created(start[q])
    BY DEF Created, Db, Absent
  <1>3. fs[q] \in {start[q], Created(start[q])}
    BY <1>1 DEF Files
  <1>4. fs'[q] = Created(start[q])
    BY <1>1, <1>2, <1>3
  <1>5. \A p \in Paths : p # q => fs'[p] = fs[p]
    BY <1>1
  <1> QED  BY <1>1, <1>4, <1>5 DEF Files

LEMMA OutputWritten ==
  ASSUME Inv, plan.op \notin Unplanned, NEW S, NEW x, NEW y,
         plan.out \notin S, Files(fs, S, x), fs' = [fs EXCEPT ![plan.out] = y]
  PROVE  Files(fs', S, y)
  <1>1. plan.out \in Paths /\ DOMAIN fs = Paths
    BY Running DEF Inv, FsOK
  <1>2. fs'[plan.out] = y /\ \A p \in Paths : p # plan.out => fs'[p] = fs[p]
    BY <1>1
  <1>3. ASSUME NEW p \in Paths
        PROVE  fs'[p] = CASE p = plan.out -> y
                          [] p \in S      -> Created(start[p])
                          [] OTHER        -> start[p]
    <2>1. CASE p = plan.out
      BY <1>2, <2>1
    <2>2. CASE p # plan.out /\ p \in S
      <3>1. fs[p] = Created(start[p])
        BY <2>2 DEF Files
      <3> QED  BY <1>2, <2>2, <3>1
    <2>3. CASE p # plan.out /\ p \notin S
      <3>1. fs[p] = start[p]
        BY <2>3 DEF Files
      <3> QED  BY <1>2, <2>3, <3>1
    <2> QED  BY <2>1, <2>2, <2>3
  <1> QED  BY <1>3 DEF Files

(* What an input holds, before and after it is created.                    *)
LEMMA InputHolds ==
  ASSUME Inv, plan.op \notin Unplanned, NEW S, NEW x, Files(fs, S, x),
         NEW q \in Args("mid") \cup Args("db")
  PROVE  /\ q \notin S => fs[q] = start[q]
         /\ q \in S => fs[q] = Created(start[q])
         /\ q \in Paths
  BY OutIsNoInput DEF Files, Args

LEMMA OpenDbTrack ==
  ASSUME AtWork, OpenDb
  PROVE  Track'
  <1> USE DEF AtWork
  <1>1. Files(fs, {}, Old) /\ mem = NoTable
    BY DEF OpenDb, Track
  <1>2. CASE plan.op = "import" /\ GoOn("import") /\ UNCHANGED fs
    <2>1. mem' = NoTable
      BY <1>2 DEF OpenDb, Opened
    <2>2. pc' = "import" /\ Files(fs, {}, Old)'
      BY <1>1, <1>2, Stays DEF GoOn
    <2> QED  BY <2>1, <2>2 DEF Track
  <1>3. CASE plan.op \in {"combine2", "combine4"} /\ GoOn("attach") /\ UNCHANGED fs
    <2>1. mem' = NoTable
      BY <1>3 DEF OpenDb, Opened
    <2>2. pc' = "attach" /\ step' = 1 /\ grp' = {}
      BY <1>3 DEF GoOn
    <2>3. {plan.in[n] : n \in 1..(step - 1)}' = {} /\ AllCalled'
      BY <2>2 DEF AllCalled
    <2>4. Files(fs, {}, Old)'
      BY <1>1, <1>3, Stays
    <2> QED  BY <2>1, <2>2, <2>3, <2>4 DEF Track
  <1>4. CASE /\ plan.op = "export"
             /\ fs' = [fs EXCEPT ![plan.in[1]] = Created(@)]
             /\ GoOn(IF plan.in[1].kind = "C_CR_Toll" THEN "bin" ELSE "select")
    <2>1. /\ Args("db") = {plan.in[1]} /\ Input(plan.in[1].kind) = plan.in[1]
      BY <1>4, InputIs
    <2>2. Files(fs', Args("db"), Old)
      <3>1. Files(fs', {} \cup {plan.in[1]}, Old)
        BY <1>1, <1>4, <2>1, InputOpened
      <3> QED  BY <2>1, <3>1
    <2>3. Files(fs, Args("db"), Old)'
      BY <2>2, Stays
    <2>4. mem' = Created(start[plan.in[1]]).tables
      <3>1. fs[plan.in[1]] = start[plan.in[1]]
        BY <1>1, <2>1, InputHolds
      <3> QED  BY <1>4, <3>1 DEF OpenDb, Opened
    <2>5. CASE plan.in[1].kind = "C_CR_Toll"
      <3>1. Result = Bin(mem', TRUE)
        BY <1>4, <2>4, <2>5, ResultIs
      <3>2. Result' = Bin(mem, TRUE)'
        BY <3>1, Stays
      <3>3. pc' = "bin"
        BY <1>4, <2>5 DEF GoOn
      <3> QED  BY <2>3, <3>2, <3>3 DEF Track
    <2>6. CASE plan.in[1].kind # "C_CR_Toll"
      <3>1. pc' = "select"
        BY <1>4, <2>6 DEF GoOn
      <3> QED  BY <2>3, <2>4, <2>6, <3>1, Stays DEF Track
    <2> QED  BY <2>5, <2>6
  <1> QED  BY <1>2, <1>3, <1>4 DEF OpenDb

LEMMA ImportMidTrack ==
  ASSUME AtWork, ImportMid, ~failed'
  PROVE  Track'
  <1> USE DEF AtWork
  <1> DEFINE p == plan.in[1]
  <1>1. Files(fs, {}, Old) /\ mem = NoTable /\ plan.op = "import" /\ fs' = fs
    BY DEF ImportMid, Track, Inv, PcInv
  <1>2. Args("db") = {} /\ p \in Args("mid") \cup Args("db")
    BY <1>1, InputIs
  <1>3. fs[p] = start[p]
    BY <1>1, <1>2, InputHolds
  <1>4. Files(fs, Args("db"), Old)'
    BY <1>1, <1>2, Stays
  <1>5. CASE fs[p] = Absent /\ Stop(TRUE)
    <2>1. Result = Old
      BY <1>1, <1>3, <1>5, ResultIs
    <2>2. pc' = "idle" /\ Result' = Old'
      BY <1>5, <2>1, Stays DEF Stop
    <2> QED  BY <1>4, <2>2 DEF Track
  <1>6. CASE /\ fs[p] # Absent /\ GoOn("save")
             /\ mem' = Put(mem, p.kind, Text(p, fs[p].ver))
    <2>1. Result = Db(mem')
      BY <1>1, <1>3, <1>6, ResultIs
    <2>2. pc' = "save" /\ Result' = Db(mem)'
      BY <1>6, <2>1, Stays DEF GoOn
    <2> QED  BY <1>4, <2>2 DEF Track
  <1> QED  BY <1>5, <1>6 DEF ImportMid

(* What a successful call comes to.                                        *)
LEMMA CallIs ==
  ASSUME NEW next, Called(TRUE, next), AllCalled, step \in Nat \ {0}, Calls \in Nat
  PROVE  \/ /\ step < Calls /\ pc' = pc
            /\ step' = step + 1 /\ AllCalled'
         \/ step = Calls /\ pc' = next /\ step' = 1 /\ grp' = {}
  <1>1. grp \cup {step} = 1..step
    BY DEF AllCalled
  <1>2. CASE step < Calls /\ step' = step + 1 /\ grp' = grp \cup {step} /\ pc' = pc
    <2>1. AllCalled'
      BY <1>1, <1>2 DEF AllCalled
    <2> QED  BY <1>2, <2>1
  <1>3. CASE step = Calls /\ GoOn(next)
    BY <1>3 DEF GoOn
  <1> QED  BY <1>1, <1>2, <1>3 DEF Called

LEMMA CallsOf ==
  ASSUME Inv, pc \in Combining
  PROVE  /\ plan.op \in {"combine2", "combine4"} /\ plan.op \notin Unplanned
         /\ step \in Nat \ {0} /\ step \in 1..Len(plan.in) /\ step <= Calls
         /\ Calls = IF pc = "copy" /\ plan.op = "combine2" THEN 1
                    ELSE Len(plan.in)
         /\ Len(plan.in) = IF plan.op = "combine2" THEN 2 ELSE 4
         /\ Args("db") = {plan.in[n] : n \in 1..Len(plan.in)}
  <1>1. /\ plan.op \in {"combine2", "combine4"} /\ plan.op \notin Unplanned
        /\ step <= Calls /\ step \in 1..4
    BY DEF Inv, PcInv, Control, Unplanned
  <1>2. Len(plan.in) = IF plan.op = "combine2" THEN 2 ELSE 4
    BY <1>1, CallsIs DEF Inv, Command
  <1>3. Args("db") = {plan.in[n] : n \in 1..Len(plan.in)}
    BY <1>1, InputIs DEF Inputs
  <1> QED  BY <1>1, <1>2, <1>3 DEF Calls

LEMMA AttachTrack ==
  ASSUME AtWork, Attach, ~failed'
  PROVE  Track'
  <1> USE DEF AtWork
  <1> DEFINE S == {plan.in[n] : n \in 1..(step - 1)}
  <1>1. /\ pc = "attach" /\ mem' = mem /\ mem = NoTable /\ AllCalled
        /\ Files(fs, S, Old)
        /\ fs' = [fs EXCEPT ![plan.in[step]] = Created(@)]
        /\ Called(TRUE, "copy")
    BY DEF Attach, Track
  <1>2. /\ plan.op \in {"combine2", "combine4"}
        /\ step \in 1..Len(plan.in) /\ step \in Nat \ {0}
        /\ Calls = Len(plan.in) /\ Len(plan.in) \in Nat
        /\ Args("db") = {plan.in[n] : n \in 1..Len(plan.in)}
    BY <1>1, CallsOf DEF Combining
  <1>3. Files(fs', {plan.in[n] : n \in 1..step}, Old)
    <2>1. S \cup {plan.in[step]} = {plan.in[n] : n \in 1..step}
      BY <1>2
    <2>2. plan.in[step] \in Args("db")
      BY <1>2
    <2>3. Files(fs', S \cup {plan.in[step]}, Old)
      BY <1>1, <2>2, InputOpened
    <2> QED  BY <2>1, <2>3
  <1>4. CASE /\ step < Calls /\ pc' = pc
             /\ step' = step + 1 /\ AllCalled'
    <2>1. step' - 1 = step /\ plan' = plan
      BY <1>2, <1>4, Stays
    <2>2. S' = {plan.in[n] : n \in 1..step}
      BY <2>1
    <2>3. Files(fs, S, Old)'
      BY <1>3, <2>2, Stays
    <2> QED  BY <1>1, <1>4, <2>3 DEF Track
  <1>5. CASE step = Calls /\ pc' = "copy" /\ step' = 1 /\ grp' = {}
    <2>1. Files(fs', Args("db"), Old)
      BY <1>2, <1>3, <1>5
    <2>2. Files(fs, Args("db"), Old)'
      BY <2>1, Stays
    <2>3. {i \in 1..(step - 1) : Has(Kinds4[i])}' = {}
      BY <1>5
    <2>4. [k \in {Kinds4[i] : i \in grp} |-> Table(k)]' = NoTable
      <3>1. {Kinds4[i] : i \in grp}' = {}
        BY <1>5
      <3> QED  BY <3>1 DEF NoTable
    <2> QED  BY <1>1, <1>5, <2>2, <2>3, <2>4 DEF Track
  <1> QED  BY <1>1, <1>2, <1>4, <1>5, CallIs

(* The tables of an attached input are those it had at the start.          *)
LEMMA AttachedIs ==
  ASSUME AtWork, pc = "copy", NEW n \in 1..Len(plan.in)
  PROVE  /\ Attached(n) = Created(start[plan.in[n]]).tables
         /\ LET k == plan.in[n].kind
            IN  Has(k) <=> k \in DOMAIN Attached(n)
         /\ LET k == plan.in[n].kind
            IN  Has(k) => Attached(n)[k] = Table(k)
  <1> USE DEF AtWork
  <1>1. Files(fs, Args("db"), Old) /\ plan.in[n] \in Args("db")
    BY CallsOf DEF Track, Combining
  <1>2. fs[plan.in[n]] = Created(start[plan.in[n]])
    BY <1>1, InputHolds
  <1>3. Created(Created(start[plan.in[n]])) = Created(start[plan.in[n]])
    BY DEF Created, Db, Absent
  <1>4. Attached(n) = Created(start[plan.in[n]]).tables
    BY <1>2, <1>3 DEF Attached
  <1>5. Input(plan.in[n].kind) = plan.in[n]
    <2>1. CASE plan.op = "combine2"
      <3>1. n \in {1, 2} /\ plan.in[n].kind = Kinds2[n]
        BY <2>1, CallsOf, CallsIs DEF Combining, Inv, Command
      <3> QED  BY <2>1, <3>1, InputIs DEF Kinds2
    <2>2. CASE plan.op = "combine4"
      <3>1. n \in 1..4 /\ plan.in[n].kind = Kinds4[n]
        BY <2>2, CallsOf, CallsIs DEF Combining, Inv, Command
      <3> QED  BY <2>2, <3>1, InputIs
    <2> QED  BY <2>1, <2>2, CallsOf DEF Combining
  <1> QED  BY <1>4, <1>5, HasIs

(* The join of the two inputs, if both have their table.                   *)
LEMMA Copy2Track ==
  ASSUME AtWork, Copy, ~failed', plan.op = "combine2"
  PROVE  Track'
  <1> USE DEF AtWork
  <1>1. /\ pc = "copy" /\ fs' = fs /\ step = 1 /\ grp = {} /\ mem = NoTable
        /\ Files(fs, Args("db"), Old)
    BY DEF Copy, Track
  <1>2. Calls = 1 /\ Len(plan.in) = 2
    BY <1>1, CallsOf DEF Combining
  <1>3. plan.in[1].kind = "C" /\ plan.in[2].kind = "CR"
    BY Running DEF IsCombine2, IsInput, Kinds2
  <1>4. /\ Has("C") <=> "C" \in DOMAIN Attached(1)
        /\ Has("C") => Attached(1).C = Table("C")
    BY <1>1, <1>2, <1>3, AttachedIs
  <1>5. /\ Has("CR") <=> "CR" \in DOMAIN Attached(2)
        /\ Has("CR") => Attached(2).CR = Table("CR")
    BY <1>1, <1>2, <1>3, AttachedIs
  <1>6. Files(fs, Args("db"), Old)'
    BY <1>1, Stays
  <1>7. CASE /\ Has("C") /\ Has("CR")
             /\ mem' = Put(mem, "C_CR", Attached(1).C \o Attached(2).CR)
             /\ Called(TRUE, "detach")
    <2>1. pc' = "detach" /\ step' = 1 /\ grp' = {}
      BY <1>1, <1>2, <1>7 DEF Called, GoOn
    <2>2. Result = Db(mem')
      BY <1>1, <1>4, <1>5, <1>7, ResultIs
    <2>3. Result' = Db(mem)'
      BY <2>2, Stays
    <2> QED  BY <1>6, <2>1, <2>3 DEF Track, AllCalled
  <1>8. CASE ~ (Has("C") /\ Has("CR")) /\ Called(FALSE, "detach")
    <2>1. Result' = Old'
      BY <1>8, ResultIs, Stays
    <2>2. pc' = "idle"
      BY <1>8 DEF Called, Stop
    <2> QED  BY <1>6, <2>1, <2>2 DEF Track
  <1>9. "C_CR" \notin DOMAIN mem
    BY <1>1, NoTables
  <1> QED  BY <1>4, <1>5, <1>7, <1>8, <1>9 DEF Copy

(* The four tables one by one; the result is not saved unless all of them  *)
(* were there.                                                             *)
LEMMA Copy4Track ==
  ASSUME AtWork, Copy, ~failed', plan.op = "combine4"
  PROVE  Track'
  <1> USE DEF AtWork
  <1> DEFINE t == Kinds4[step]
             Done(n) == {i \in 1..n : Has(Kinds4[i])}
             Tables(G) == [k \in {Kinds4[i] : i \in G} |-> Table(k)]
  <1>1. /\ pc = "copy" /\ fs' = fs /\ grp = Done(step - 1) /\ mem = Tables(grp)
        /\ Files(fs, Args("db"), Old)
    BY DEF Copy, Track
  <1>2. Calls = 4 /\ Len(plan.in) = 4 /\ step \in 1..4
    BY <1>1, CallsOf DEF Combining
  <1>3. plan.in[step].kind = t
    BY <1>2, Running DEF IsCombine4, IsInput
  <1>4. /\ Has(t) <=> t \in DOMAIN Attached(step)
        /\ Has(t) => Attached(step)[t] = Table(t)
    BY <1>1, <1>2, <1>3, AttachedIs
  <1>5. t \notin DOMAIN mem
    <2>1. \A i \in 1..4 : Kinds4[i] = t => i = step
      BY <1>2 DEF Kinds4
    <2>2. \A i \in grp : i \in 1..4 /\ i # step
      BY <1>1, <1>2
    <2> QED  BY <1>1, <2>1, <2>2
  <1>6. Files(fs, Args("db"), Old)'
    BY <1>1, Stays
  <1>7. /\ \A n : (Done(n))' = Done(n)
        /\ \A G : (Tables(G))' = Tables(G)
    BY Stays
  <1>8. PICK good \in BOOLEAN :
          /\ Called(good, "detach")
          /\ good <=> Has(t)
          /\ mem' = IF good THEN Put(mem, t, Table(t)) ELSE mem
    <2>1. TRUE \in BOOLEAN /\ FALSE \in BOOLEAN
      BY Zenon
    <2>2. \/ /\ Has(t) /\ mem' = Put(mem, t, Attached(step)[t])
             /\ Called(TRUE, "detach")
          \/ ~ Has(t) /\ mem' = mem /\ Called(FALSE, "detach")
      BY <1>4, <1>5 DEF Copy
    <2>3. CASE Has(t)
      <3>1. mem' = Put(mem, t, Table(t)) /\ Called(TRUE, "detach")
        BY <1>4, <2>2, <2>3
      <3> QED  BY <2>1, <2>3, <3>1
    <2>4. CASE ~ Has(t)
      BY <2>1, <2>2, <2>4
    <2> QED  BY <2>3, <2>4
  <1>9. (IF good THEN grp \cup {step} ELSE grp) = Done(step)
    BY <1>1, <1>2, <1>8
  <1>10. mem' = Tables(Done(step))
    <2>1. CASE good
      <3>1. mem' = Put(mem, t, Table(t)) /\ Done(step) = grp \cup {step}
        BY <1>8, <1>9, <2>1
      <3>2. DOMAIN mem = {Kinds4[i] : i \in grp}
        BY <1>1
      <3>3. {Kinds4[i] : i \in grp \cup {step}} = DOMAIN mem \cup {t}
        BY <3>2
      <3> QED  BY <1>1, <3>1, <3>2, <3>3 DEF Put
    <2>2. CASE ~ good
      BY <1>1, <1>8, <1>9, <2>2
    <2> QED  BY <2>1, <2>2
  <1>11. CASE step < Calls /\ step' = step + 1 /\ grp' = Done(step) /\ pc' = pc
    <2>1. grp' = Done(step' - 1) /\ mem' = Tables(grp')
      BY <1>2, <1>10, <1>11
    <2> QED  BY <1>1, <1>6, <1>7, <1>11, <2>1, Stays DEF Track
  <1>12. CASE step = Calls /\ Done(step) = 1..Calls /\ GoOn("detach")
    <2>1. \A k \in Basic : Has(k)
      BY <1>2, <1>12 DEF Basic, Kinds4
    <2>2. {Kinds4[i] : i \in Done(step)} = Basic
      BY <1>2, <1>12 DEF Basic, Kinds4
    <2>3. Result = Db(mem')
      BY <1>10, <2>1, <2>2, ResultIs
    <2>4. Result' = Db(mem)'
      BY <2>3, Stays
    <2>5. pc' = "detach" /\ step' = 1 /\ grp' = {}
      BY <1>12 DEF GoOn
    <2> QED  BY <1>6, <2>4, <2>5 DEF Track, AllCalled
  <1>13. CASE step = Calls /\ Done(step) # 1..Calls /\ Stop(FALSE)
    <2>1. \E i \in 1..4 : ~ Has(Kinds4[i])
      BY <1>2, <1>13
    <2>2. \E k \in Basic : ~ Has(k)
      BY <2>1 DEF Basic, Kinds4
    <2>3. Result' = Old' /\ pc' = "idle"
      BY <1>13, <2>2, ResultIs, Stays DEF Stop
    <2> QED  BY <1>6, <2>3 DEF Track
  <1> QED  BY <1>2, <1>8, <1>9, <1>11, <1>12, <1>13 DEF Called

LEMMA DetachTrack ==
  ASSUME AtWork, Detach, ~failed'
  PROVE  Track'
  <1> USE DEF AtWork
  <1>1. /\ pc = "detach" /\ fs' = fs /\ mem' = mem /\ AllCalled
        /\ Files(fs, Args("db"), Old) /\ Result = Db(mem)
        /\ Called(TRUE, "save")
    BY DEF Detach, Track
  <1>2. Calls \in Nat /\ step \in Nat \ {0}
    BY <1>1, CallsOf DEF Combining
  <1>3. Files(fs, Args("db"), Old)' /\ Result' = Db(mem)'
    BY <1>1, Stays
  <1>4. (pc' = "detach" /\ AllCalled') \/ pc' = "save"
    BY <1>1, <1>2, CallIs
  <1> QED  BY <1>3, <1>4 DEF Track

LEMMA OutputTrack ==
  ASSUME AtWork, Save \/ Backup \/ Select \/ OpenBin \/ Write, ~failed'
  PROVE  Track'
  <1> USE DEF AtWork
  <1>0. plan.out \notin Args("db")
    BY OutIsNoInput
  <1>1. CASE Save
    <2>1. /\ fs' = [fs EXCEPT ![plan.out] = Created(fs[plan.out])]
          /\ pc' = "backup" /\ mem' = mem /\ Result = Db(mem)
          /\ Files(fs, Args("db"), Old)
      BY <1>1 DEF Save, GoOn, Track
    <2>2. fs[plan.out] = Old
      BY <1>0, <2>1, Running DEF Files
    <2>3. Files(fs', Args("db"), Created(Old))
      BY <1>0, <2>1, <2>2, OutputWritten
    <2>4. Files(fs, Args("db"), Created(Old))' /\ Result' = Db(mem)'
      BY <2>1, <2>3, Stays
    <2> QED  BY <2>1, <2>4 DEF Track
  <1>2. CASE Backup
    <2>1. /\ fs' = [fs EXCEPT ![plan.out] = Result] /\ pc' = "idle"
          /\ Files(fs, Args("db"), Created(Old))
      BY <1>2 DEF Backup, Stop, Track
    <2>2. Files(fs', Args("db"), Result)
      BY <1>0, <2>1, OutputWritten
    <2>3. Files(fs, Args("db"), Result)'
      BY <2>2, Stays
    <2> QED  BY <2>1, <2>3 DEF Track
  <1>3. CASE Select
    <2> DEFINE k == plan.in[1].kind
    <2>1. /\ fs' = fs /\ mem' = mem /\ Files(fs, Args("db"), Old)
          /\ mem = Created(start[plan.in[1]]).tables /\ k # "C_CR_Toll"
          /\ plan.op = "export"
          /\ \/ k \in DOMAIN mem /\ pc' = "bin"
             \/ k \notin DOMAIN mem /\ pc' = "idle"
      BY <1>3 DEF Select, GoOn, Stop, Track, Inv, PcInv
    <2>2. Has(k) <=> k \in DOMAIN mem
      BY <2>1, InputIs, HasIs
    <2>3. Result = IF k \in DOMAIN mem THEN Bin(mem, TRUE) ELSE Old
      BY <2>1, <2>2, ResultIs
    <2>4. /\ Files(fs, Args("db"), Old)'
          /\ k \in DOMAIN mem => Result' = Bin(mem, TRUE)'
          /\ k \notin DOMAIN mem => Result' = Old'
      BY <2>1, <2>3, Stays
    <2> QED  BY <2>1, <2>4 DEF Track
  <1>4. CASE OpenBin
    <2>1. /\ fs' = [fs EXCEPT ![plan.out] = Bin(NoTable, FALSE)]
          /\ pc' = "write" /\ mem' = mem /\ Result = Bin(mem, TRUE)
          /\ Files(fs, Args("db"), Old)
      BY <1>4 DEF OpenBin, GoOn, Track
    <2>2. Files(fs', Args("db"), Bin(NoTable, FALSE))
      BY <1>0, <2>1, OutputWritten
    <2>3. Files(fs, Args("db"), Bin(NoTable, FALSE))' /\ Result' = Bin(mem, TRUE)'
      BY <2>1, <2>2, Stays
    <2> QED  BY <2>1, <2>3 DEF Track
  <1>5. CASE Write
    <2>1. /\ fs' = [fs EXCEPT ![plan.out] = Result] /\ pc' = "idle"
          /\ Files(fs, Args("db"), Bin(NoTable, FALSE))
      BY <1>5 DEF Write, Stop, Track
    <2>2. Files(fs', Args("db"), Result)
      BY <1>0, <2>1, OutputWritten
    <2>3. Files(fs, Args("db"), Result)'
      BY <2>2, Stays
    <2> QED  BY <2>1, <2>3 DEF Track
  <1> QED  BY <1>1, <1>2, <1>3, <1>4, <1>5

(* A new command finds the files as they are, and knows of no tables.      *)
LEMMA StartTrack ==
  ASSUME Inv, NEW a \in ArgLists, Start(a), plan'.op \notin Unplanned
  PROVE  Track'
  <1>1. fs' = fs /\ start' = fs /\ mem' = NoTable /\ pc' = "open"
    BY DEF Start, GoOn
  <1>2. Files(fs, {}, Old)'
    <2>1. \A p \in Paths : fs'[p] = CASE p = plan'.out -> start'[plan'.out]
                                      [] p \in {}      -> Created(start'[p])
                                      [] OTHER         -> start'[p]
      BY <1>1
    <2> QED  BY <2>1 DEF Files, Old
  <1> QED  BY <1>1, <1>2 DEF Track

LEMMA OnTrackStep == Inv /\ Inv' /\ OnTrack /\ [Next]_vars => OnTrack'
  <1> SUFFICES ASSUME Inv, OnTrack, [Next]_vars,
                      ~failed', plan'.op \notin Unplanned
               PROVE  Track'
    BY DEF OnTrack
  <1>1. CASE Edit
    BY <1>1 DEF Edit, NoPlan, Unplanned
  <1>2. CASE \E a \in ArgLists : Start(a)
    BY <1>2, StartTrack
  <1>3. CASE Run
    <2>1. UNCHANGED command
      BY <1>3 DEF Run, OpenDb, ImportMid, Attach, Copy, Detach, Save, Backup,
                  Select, OpenBin, Write
    <2>2. ~failed
      BY <1>3 DEF Run, OpenDb, ImportMid, Attach, Copy, Detach, Save, Backup,
                  Select, OpenBin, Write
    <2>3. AtWork
      BY <2>1, <2>2 DEF AtWork, OnTrack, command
    <2>4. plan.op \in {"combine2", "combine4"} \/ ~Copy
      BY DEF Copy, Inv, PcInv, Combining
    <2> QED  BY <1>3, <2>3, <2>4, OpenDbTrack, ImportMidTrack, AttachTrack,
                Copy2Track, Copy4Track, DetachTrack, OutputTrack DEF Run
  <1>4. CASE Killed
    BY <1>4 DEF Killed
  <1>5. CASE UNCHANGED vars
    <2>1. Track /\ UNCHANGED command
      BY <1>5 DEF vars, command, OnTrack
    <2>2. /\ fs' = fs /\ pc' = pc /\ step' = step /\ grp' = grp /\ mem' = mem
          /\ plan' = plan /\ start' = start
      BY <1>5 DEF vars
    <2>3. /\ Args("db")' = Args("db") /\ Result' = Result /\ Old' = Old
          /\ AllCalled' = AllCalled
          /\ \A k : Has(k)' = Has(k) /\ Table(k)' = Table(k)
          /\ \A f, S, x : Files(f, S, x)' = Files(f, S, x)
      BY <2>1, <2>2, Stays DEF AllCalled
    <2>4. /\ {i \in 1..(step - 1) : Has(Kinds4[i])}'
                = {i \in 1..(step - 1) : Has(Kinds4[i])}
          /\ [k \in {Kinds4[i] : i \in grp} |-> Table(k)]'
                = [k \in {Kinds4[i] : i \in grp} |-> Table(k)]
      BY <2>2, <2>3
    <2> QED  BY <2>1, <2>2, <2>3, <2>4 DEF Track
  <1> QED  BY <1>1, <1>2, <1>3, <1>4, <1>5 DEF Next

(* What a command in which nothing fails leaves in the files is what its   *)
(* arguments ask for: do_argv and the three operations, for every command  *)
(* line, every set of paths and whatever earlier commands left there.      *)
THEOREM CleanRunsDeliver == Spec => []CleanRunDelivers
  <1>1. Init => OnTrack
    BY DEF Init, OnTrack, NoPlan, Unplanned
  <1>2. Inv /\ Inv' /\ OnTrack /\ [Next]_vars => OnTrack'
    BY OnTrackStep
  <1>3. Inv /\ OnTrack => CleanRunDelivers
    <2> SUFFICES ASSUME Inv, OnTrack, pc = "idle", ~failed,
                        plan.op \notin Unplanned, NEW p \in Paths
                 PROVE  fs[p] = CASE p = plan.out     -> Result
                                  [] p \in Args("db") -> Created(start[p])
                                  [] OTHER            -> start[p]
      BY DEF CleanRunDelivers
    <2>1. Files(fs, Args("db"), Result)
      BY DEF OnTrack, Track
    <2> QED  BY <2>1 DEF Files
  <1> QED  BY <1>1, <1>2, <1>3, InvHolds, PTL DEF Spec
=============================================================================
