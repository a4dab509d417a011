------------------------------ MODULE Compiler -------------------------------
(***************************************************************************)
(* The program addonc as its user meets it: one command after the other in *)
(* a few directories.  do_argv (addon/src/cm_db.cpp) picks the operation   *)
(* from the names of the arguments; the operation imports a .mid file into *)
(* a .db file, combines .db files into one, or exports a .db file to a     *)
(* .bin file.  Any step of it may fail, and the program may be killed.     *)
(*                                                                         *)
(* MidImport and CondExport hold the two long operations in detail; here   *)
(* each is a single step.                                                  *)
(***************************************************************************)
EXTENDS Integers, Sequences, FiniteSets

CONSTANTS
  Provinces,  \* the province names of PROVINCE_PTN
  NoProv,     \* "province" of a name without one
  Cwd, Root,  \* the current directory, written without '/', and "/"
  Dirs,       \* other directories
  Paths,      \* the paths there are
  ArgLists,   \* the command lines that are used
  Worlds,     \* the file systems to start from
  MaxVersion, \* bound on the edits of a .mid file
  MaxRuns     \* bound on the commands

Basic  == {"C", "CR", "Toll_ETA", "Toll_Pattern"}
Named  == Basic \cup {"N", "HW_Junction", "C_CR", "C_CR_Toll"}

(* parse_path and the patterns: what a path says to the program.  "other"  *)
(* is a base name that matches nothing.                                    *)
PathType ==
  [dir : Dirs \cup {Cwd, Root}, kind : Named \cup {"other"},
   prov : Provinces \cup {NoProv}, ext : {"mid", "db", "bin", "other"}]

(* Contents of a file: a .mid text by its version; a database by the       *)
(* origin of its tables, the texts a table was made from (version 0: some  *)
(* rows of the text were lost); an export by the database it was made from.*)
Origin  == [prov : Provinces \cup {NoProv}, ver : Nat]
Absent  == [is |-> "absent"]
Mid(v)  == [is |-> "mid", ver |-> v]
Db(f)   == [is |-> "db", tables |-> f]
Bin(f, w) == [is |-> "bin", from |-> f, whole |-> w]
NoTable == [t \in {} |-> Absent]

IsTables(f) ==
  /\ DOMAIN f \subseteq Named
  /\ \A t \in DOMAIN f : f[t] \in Seq(Origin)

(* What a path may hold; only the program and its user write these files.  *)
IsContent(p, x) ==
  \/ x = Absent
  \/ p.ext = "mid" /\ x.is = "mid" /\ x.ver \in Nat \ {0}
  \/ p.ext = "db" /\ x.is = "db" /\ IsTables(x.tables)
  \/ p.ext = "bin" /\ x.is = "bin" /\ IsTables(x.from) /\ x.whole \in BOOLEAN

(* What the name of a database promises: nothing yet, or all its tables,   *)
(* and all of its own province.                                            *)
Whole(p, f) ==
  LET tables == IF p.kind = "C_CR_Toll" THEN Basic ELSE {p.kind}
  IN  /\ DOMAIN f \in {{}, tables}
      /\ \A t \in DOMAIN f : \A i \in DOMAIN f[t] : f[t][i].prov = p.prov

ASSUME ProvincesAssumption == NoProv \notin Provinces
ASSUME PathsAssumption     == Paths \subseteq PathType
ASSUME ArgListsAssumption  == ArgLists \subseteq Seq(Paths)
ASSUME BoundsAssumption    == MaxVersion \in Nat /\ MaxRuns \in Nat
ASSUME WorldsAssumption    ==
  \A w \in Worlds :
    /\ DOMAIN w = Paths
    /\ \A p \in Paths :
         /\ IsContent(p, w[p])
         /\ p.ext = "db" /\ w[p] # Absent => Whole(p, w[p].tables)

VARIABLES
  fs,      \* the files
  runs,    \* commands started
  argv,    \* the arguments of the command
  plan,    \* what do_argv makes of them
  pc,      \* the step the command is at, "idle" between commands
  step,    \* number of the input the step is at
  grp,     \* grp_ret: the inputs for which the step succeeded
  mem,     \* the tables of the open database
  ok,      \* the result
  start,   \* the files when the command started (history)
  failed   \* whether something failed in it (history)

vars == <<fs, runs, argv, plan, pc, step, grp, mem, ok, start, failed>>

-----------------------------------------------------------------------------
(* do_argv *)

(* The directory part; it is empty for the root directory as well.         *)
DirPart(p) == IF p.dir = Root THEN Cwd ELSE p.dir

(* vecMid, vecDB: the positions of the arguments with an extension.        *)
WithExt(a, e) == {i \in 1..Len(a) : a[i].ext = e}

(* The common directory of the arguments, else the current one.            *)
OutDir(a, I) ==
  IF \A i, j \in I : DirPart(a[i]) = DirPart(a[j])
  THEN DirPart(a[CHOOSE i \in I : TRUE]) ELSE Cwd

(* Fault: the provinces are not compared.                                  *)
MatchKinds(a, I, kinds) ==
  \A n \in 1..Len(kinds) : \E i \in I : a[i].kind = kinds[n]

(* The inputs of a combination, as many as there are kinds: one of each    *)
(* kind, all of one province.                                              *)
Match(a, I, kinds) ==
  /\ \A n \in 1..Len(kinds) : \E i \in I : a[i].kind = kinds[n]
  /\ \A i, j \in I : a[i].prov = a[j].prov

(* The argument of a kind; when Match holds there is only one.             *)
The(a, I, k) == a[CHOOSE i \in I : a[i].kind = k]

File(d, k, pr, e) == [dir |-> d, kind |-> k, prov |-> pr, ext |-> e]

(* Fault: the result is saved under the name of an input.                  *)
OutInput(a, I, k) == File(OutDir(a, I), "C", The(a, I, "C").prov, "db")

OutDb(a, I, k) == File(OutDir(a, I), k, The(a, I, "C").prov, "db")

Kinds2 == <<"C", "CR">>
Kinds4 == <<"C", "CR", "Toll_ETA", "Toll_Pattern">>

(* Names import_mid and parse_db have a function for.                      *)
Importable == Basic \cup {"N", "HW_Junction"}
Exportable == {"CR", "Toll_ETA", "Toll_Pattern", "C_CR_Toll", "HW_Junction"}

(* "none": do_argv returns false at once; "skip": import_mid or parse_db   *)
(* knows no function for the name and returns true.                        *)
NoPlan  == [op |-> "none", in |-> <<>>]
Skip(p) == [op |-> "skip", in |-> <<p>>]

(* Fault: the arguments are taken to be in the order of the kinds.         *)
CombineInOrder(op, a, I, kinds, k) ==
  IF Match(a, I, kinds) THEN [op |-> op, in |-> a, out |-> OutDb(a, I, k)]
  ELSE NoPlan

Combine(op, a, I, kinds, k) ==
  IF Match(a, I, kinds)
  THEN [op  |-> op,
        in  |-> [n \in 1..Len(kinds) |-> The(a, I, kinds[n])],
        out |-> OutDb(a, I, k)]
  ELSE NoPlan

(* Fault: the output has the name of the input.                            *)
ConvertInPlace(op, p, kinds, e) ==
  IF p.kind \in kinds THEN [op |-> op, in |-> <<p>>, out |-> p] ELSE Skip(p)

(* One file in, one file of the same name next to it out.                  *)
Convert(op, p, kinds, e) ==
  IF p.kind \in kinds
  THEN [op |-> op, in |-> <<p>>, out |-> File(DirPart(p), p.kind, p.prov, e)]
  ELSE Skip(p)

Plan(a) ==
  LET mids == WithExt(a, "mid")
      dbs  == WithExt(a, "db")
      one(I) == a[CHOOSE i \in I : TRUE]
  IN  CASE mids # {} /\ dbs # {} -> NoPlan
        [] dbs = {} /\ Cardinality(mids) = 1 ->
             Convert("import", one(mids), Importable, "db")
        [] mids = {} /\ Cardinality(dbs) = 1 ->
             Convert("export", one(dbs), Exportable, "bin")
        [] mids = {} /\ Cardinality(dbs) = 2 ->
             Combine("combine2", a, dbs, Kinds2, "C_CR")
        [] mids = {} /\ Cardinality(dbs) = 4 ->
             Combine("combine4", a, dbs, Kinds4, "C_CR_Toll")
        [] OTHER -> NoPlan

Unplanned == {"none", "skip"}

ASSUME OutputsAssumption ==
  \A a \in ArgLists : Plan(a).op \notin Unplanned => Plan(a).out \in Paths

-----------------------------------------------------------------------------
(* The tables of the database that open_db opens: an empty one in memory,  *)
(* or the file to export, which is created when it is not there.           *)
Created(x) == IF x = Absent THEN Db(NoTable) ELSE x

(* Fault: the result is built in the output file.                          *)
OpenedOutput(q, f) ==
  IF q.op = "export" THEN Created(f[q.in[1]]).tables
  ELSE Created(f[q.out]).tables

Opened(q, f) ==
  IF q.op = "export" THEN Created(f[q.in[1]]).tables ELSE NoTable

Text(p, v) == <<[prov |-> p.prov, ver |-> v]>>

Put(f, t, o) == [x \in DOMAIN f \cup {t} |-> IF x = t THEN o ELSE f[x]]

(* Tables of an attached file.                                             *)
Attached(i) == Created(fs[plan.in[i]]).tables

Init ==
  /\ fs \in Worlds
  /\ start = fs
  /\ runs = 0
  /\ argv = <<>>
  /\ plan = NoPlan
  /\ pc = "idle"
  /\ step = 1
  /\ grp = {}
  /\ mem = NoTable
  /\ ok = FALSE
  /\ failed = FALSE

command == <<runs, argv, plan, start>>

(* The command returns r.                                                  *)
Stop(r) == pc' = "idle" /\ ok' = r /\ step' = 1 /\ grp' = {}

GoOn(next) == pc' = next /\ step' = 1 /\ grp' = {} /\ ok' = ok

(* The user writes a new version of a .mid file.                           *)
Edit ==
  /\ pc = "idle"
  /\ \E p \in Paths :
       /\ p.ext = "mid"
       /\ LET v == IF fs[p] = Absent THEN 0 ELSE fs[p].ver
          IN  v < MaxVersion /\ fs' = [fs EXCEPT ![p] = Mid(v + 1)]
  /\ argv' = <<>>
  /\ plan' = NoPlan
  /\ UNCHANGED <<runs, start, pc, step, grp, mem, ok, failed>>

Start(a) ==
  /\ pc = "idle"
  /\ runs < MaxRuns
  /\ runs' = runs + 1
  /\ argv' = a
  /\ plan' = Plan(a)
  /\ start' = fs
  /\ failed' = FALSE
  /\ mem' = NoTable
  /\ \/ plan'.op \in Unplanned /\ Stop(plan'.op = "skip")
     \/ plan'.op \notin Unplanned /\ GoOn("open")
  /\ UNCHANGED fs

(* open_db.  When it throws the program ends: Killed.                      *)
OpenDb ==
  /\ pc = "open"
  /\ mem' = Opened(plan, fs)
  /\ \/ plan.op = "import" /\ GoOn("import") /\ UNCHANGED fs
     \/ plan.op \in {"combine2", "combine4"} /\ GoOn("attach") /\ UNCHANGED fs
     \/ /\ plan.op = "export"
        /\ fs' = [fs EXCEPT ![plan.in[1]] = Created(@)]
        /\ GoOn(IF plan.in[1].kind = "C_CR_Toll" THEN "bin" ELSE "select")
  /\ UNCHANGED <<command, failed>>

(* open_mid_X: a text that cannot be opened or a table that cannot be made *)
(* is no error of import_mid; lost rows, or a statement that cannot be     *)
(* prepared, do not even keep it from saving.                              *)
ImportMid ==
  /\ pc = "import"
  /\ LET p == plan.in[1]
         Rows(v) == mem' = Put(mem, p.kind, Text(p, v))
     IN  \/ fs[p] = Absent /\ Rows(0) /\ Stop(TRUE) /\ UNCHANGED failed
         \/ fs[p] # Absent /\ Rows(fs[p].ver) /\ GoOn("save") /\ UNCHANGED failed
         \/ UNCHANGED mem /\ Stop(TRUE) /\ failed' = TRUE
         \/ Rows(0) /\ GoOn("save") /\ failed' = TRUE
  /\ UNCHANGED <<fs, command>>

-----------------------------------------------------------------------------
(* combine_db_C_CR stops at the first call that fails; combine_db_C_CR_Toll*)
(* makes all calls of a phase and then asks whether all of them succeeded. *)
Calls == IF pc = "copy" /\ plan.op = "combine2" THEN 1 ELSE Len(plan.in)

Called(good, next) ==
  LET g == IF good THEN grp \cup {step} ELSE grp
  IN  \/ ~good /\ plan.op = "combine2" /\ Stop(FALSE)
      \/ /\ good \/ plan.op = "combine4"
         /\ step < Calls
         /\ step' = step + 1
         /\ grp' = g
         /\ UNCHANGED <<pc, ok>>
      \/ /\ good \/ plan.op = "combine4"
         /\ step = Calls
         /\ IF g = 1..Calls THEN GoOn(next) ELSE Stop(FALSE)

(* Attaching a file that is not there creates it.                          *)
Attach ==
  /\ pc = "attach"
  /\ \/ /\ fs' = [fs EXCEPT ![plan.in[step]] = Created(@)]
        /\ Called(TRUE, "copy")
        /\ UNCHANGED failed
     \/ Called(FALSE, "copy") /\ failed' = TRUE /\ UNCHANGED fs
  /\ UNCHANGED <<command, mem>>

(* create table ... as select: C joined with CR, or the table of the input *)
(* as it is.                                                               *)
Copy ==
  /\ pc = "copy"
  /\ LET t == IF plan.op = "combine2" THEN "C_CR" ELSE Kinds4[step]
         here == IF plan.op = "combine2"
                 THEN "C" \in DOMAIN Attached(1) /\ "CR" \in DOMAIN Attached(2)
                 ELSE t \in DOMAIN Attached(step)
         good == here /\ t \notin DOMAIN mem
     IN  \/ /\ good
            /\ mem' = Put(mem, t, IF plan.op = "combine2"
                                  THEN Attached(1).C \o Attached(2).CR
                                  ELSE Attached(step)[t])
            /\ Called(TRUE, "detach")
            /\ UNCHANGED failed
         \/ ~good /\ Called(FALSE, "detach") /\ UNCHANGED <<mem, failed>>
         \/ Called(FALSE, "detach") /\ failed' = TRUE /\ UNCHANGED mem
  /\ UNCHANGED <<fs, command>>

Detach ==
  /\ pc = "detach"
  /\ \/ Called(TRUE, "save") /\ UNCHANGED failed
     \/ Called(FALSE, "save") /\ failed' = TRUE
  /\ UNCHANGED <<fs, command, mem>>

(* backup: opening the destination creates it, ...                         *)
Save ==
  /\ pc = "save"
  /\ \/ /\ fs' = [fs EXCEPT ![plan.out] = Created(@)]
        /\ GoOn("backup")
        /\ UNCHANGED failed
     \/ Stop(FALSE) /\ failed' = TRUE /\ UNCHANGED fs
  /\ UNCHANGED <<command, mem>>

(* ... then all pages are copied in one transaction, whose result is not   *)
(* looked at.                                                              *)
Backup ==
  /\ pc = "backup"
  /\ \/ /\ fs' = [fs EXCEPT ![plan.out] = Db(mem)]
        /\ Stop(TRUE)
        /\ UNCHANGED failed
     \/ UNCHANGED fs /\ failed' = TRUE /\ \E r \in BOOLEAN : Stop(r)
  /\ UNCHANGED <<command, mem>>

-----------------------------------------------------------------------------
(* The exports of one table prepare their select before they truncate the  *)
(* output; that of the combined database truncates it first, and a missing *)
(* table makes it empty.                                                   *)
Select ==
  /\ pc = "select"
  /\ \/ plan.in[1].kind \in DOMAIN mem /\ GoOn("bin") /\ UNCHANGED failed
     \/ plan.in[1].kind \notin DOMAIN mem /\ Stop(FALSE) /\ UNCHANGED failed
     \/ Stop(FALSE) /\ failed' = TRUE
  /\ UNCHANGED <<fs, command, mem>>

OpenBin ==
  /\ pc = "bin"
  /\ \/ /\ fs' = [fs EXCEPT ![plan.out] = Bin(NoTable, FALSE)]
        /\ GoOn("write")
        /\ UNCHANGED failed
     \/ Stop(FALSE) /\ failed' = TRUE /\ UNCHANGED fs
  /\ UNCHANGED <<command, mem>>

(* A row that cannot be read ends the table, a write that fails is not     *)
(* noticed, and a number that cannot be read ends the program.             *)
Write ==
  /\ pc = "write"
  /\ \/ /\ fs' = [fs EXCEPT ![plan.out] = Bin(mem, TRUE)]
        /\ Stop(TRUE)
        /\ UNCHANGED failed
     \/ /\ fs' = [fs EXCEPT ![plan.out] = Bin(mem, FALSE)]
        /\ \E r \in BOOLEAN : Stop(r)
        /\ failed' = TRUE
  /\ UNCHANGED <<command, mem>>

(* The program is killed, or an exception nobody catches ends it.          *)
Killed ==
  /\ pc # "idle"
  /\ Stop(FALSE)
  /\ failed' = TRUE
  /\ UNCHANGED <<fs, command, mem>>

Run == \/ OpenDb \/ ImportMid \/ Attach \/ Copy \/ Detach
       \/ Save \/ Backup \/ Select \/ OpenBin \/ Write

Next == Edit \/ (\E a \in ArgLists : Start(a)) \/ Run \/ Killed

Spec == Init /\ [][Next]_vars

-----------------------------------------------------------------------------
(* Every variable keeps its type, and a file its format.                   *)
TypeOK ==
  /\ DOMAIN fs = Paths /\ \A p \in Paths : IsContent(p, fs[p])
  /\ DOMAIN start = Paths /\ \A p \in Paths : IsContent(p, start[p])
  /\ runs \in 0..MaxRuns
  /\ argv \in ArgLists \cup {<<>>}
  /\ plan = IF argv \in ArgLists THEN Plan(argv) ELSE NoPlan
  /\ pc \in {"idle", "open", "import", "attach", "copy", "detach", "save",
             "backup", "select", "bin", "write"}
  /\ pc # "idle" => plan.op \notin Unplanned
  /\ step \in 1..4
  /\ grp \subseteq 1..4
  /\ IsTables(mem)
  /\ ok \in BOOLEAN
  /\ failed \in BOOLEAN

(* A database holds either nothing or all the tables its name promises,    *)
(* <province>_C_CR_Toll.db all four of them, and all of its own province,  *)
(* whatever was named on the command line, whatever failed and whenever    *)
(* the program was killed: do_argv and the two combine functions.          *)
OneProvince ==
  \A p \in Paths : p.ext = "db" /\ fs[p] # Absent => Whole(p, fs[p].tables)

(* What a command is for, by its arguments as a set, given the files it    *)
(* finds.                                                                  *)
Args(e) == {p \in Paths : p.ext = e /\ \E i \in 1..Len(argv) : argv[i] = p}

Input(k) == CHOOSE p \in Args("db") : p.kind = k

Has(k) == start[Input(k)] # Absent /\ k \in DOMAIN start[Input(k)].tables

Table(k) == start[Input(k)].tables[k]

Result ==
  LET old == start[plan.out]
      p   == CHOOSE q \in Args("mid") \cup Args("db") : TRUE
  IN  CASE plan.op = "import" ->
             IF start[p] = Absent THEN old
             ELSE Db(Put(NoTable, p.kind, Text(p, start[p].ver)))
        [] plan.op = "combine2" ->
             IF Has("C") /\ Has("CR")
             THEN Db(Put(NoTable, "C_CR", Table("C") \o Table("CR"))) ELSE old
        [] plan.op = "combine4" ->
             IF \A k \in Basic : Has(k) THEN Db([k \in Basic |-> Table(k)])
             ELSE old
        [] plan.op = "export" ->
             IF p.kind = "C_CR_Toll" \/ Has(p.kind)
             THEN Bin(Created(start[p]).tables, TRUE) ELSE old

(* A command in which nothing fails leaves in its output exactly what its  *)
(* arguments ask for, in whatever order they are given and whatever        *)
(* earlier commands, killed ones too, have left there; an input that is    *)
(* missing or lacks its table leaves the output as it was.  The other      *)
(* files keep their contents, but a missing database is created empty.     *)
CleanRunDelivers ==
  pc = "idle" /\ ~failed /\ plan.op \notin Unplanned =>
    \A p \in Paths :
      fs[p] = CASE p = plan.out      -> Result
                [] p \in Args("db")  -> Created(start[p])
                [] OTHER             -> start[p]

(* No step of a command, not even of one that fails, changes a .mid or .db *)
(* file named on its command line or a file other than its output, but that*)
(* a missing database is created empty (the names do_argv gives to the     *)
(* outputs).  Arguments of other kinds are not read; a .bin file among them*)
(* may be the output.                                                      *)
MayChange(p) ==
  \/ p = plan.out /\ p \notin Args("mid") \cup Args("db")
  \/ p \in Args("db") /\ fs[p] = Absent /\ fs'[p] = Db(NoTable)

InputsUntouched ==
  [][pc # "idle" => \A p \in Paths : fs'[p] # fs[p] => MayChange(p)]_vars

(* The comment of import_mid (addon/src/cm_db.cpp:820-822): the result true*)
(* means that the import is OK.  It is also returned when the text is not  *)
(* there and when nothing was copied to the output.                        *)
ImportOkMeansSaved ==
  pc = "idle" /\ ok /\ plan.op = "import" =>
    LET p == plan.in[1] IN
      /\ start[p] # Absent
      /\ fs[plan.out] = Db(Put(NoTable, p.kind, Text(p, start[p].ver)))
=============================================================================
