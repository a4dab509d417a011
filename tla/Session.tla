------------------------------- MODULE Session -------------------------------
(***************************************************************************)
(* The life of one CCmDatabase object and of the CCmSqlite it owns: which  *)
(* database is open, which statements exist, which of them the list m_stmt *)
(* will finalize, and which pointers to statements are kept from one call  *)
(* to the next (addon/src/cm_db.cpp, addon/src/cm_sqlite.cpp).             *)
(*                                                                         *)
(* The program makes one call on each of its objects, but cm_import_mid,   *)
(* cm_parse_db and cm_argv (includes/addon.h) may be called any number of  *)
(* times in a process, which then lives on after an object is gone; and    *)
(* the class lets any call follow any other.  What a call reads from a     *)
(* table and writes to a file is left to the other modules: here a step    *)
(* finds a row or it does not.                                             *)
(***************************************************************************)
EXTENDS Integers, Sequences, FiniteSets

CONSTANTS
  Paths,     \* paths of databases
  KindOf,    \* KindOf[p]: what the base name of p makes parse_db do
  Mem,       \* the database in memory
  NoDb,      \* no database
  MaxCalls   \* bound: calls made on the object

Single == {"CR", "Toll_ETA", "Toll_Pattern", "HW_Junction"}
Joined == {"C", "CR", "Toll_ETA", "Toll_Pattern"}

ASSUME PathsAssumption ==
  /\ Mem \notin Paths /\ NoDb \notin Paths /\ Mem # NoDb
  /\ KindOf \in [Paths -> Single \cup {"C_CR_Toll", "none"}]
ASSUME MaxCallsAssumption == MaxCalls \in Nat

VARIABLES
  m_db,     \* the database the object has open, or NoDb
  stmts,    \* all statements ever created; a pointer is a position, 0 is null
  list,     \* m_stmt of the CCmSqlite: the statements it will finalize
  cached,   \* m_stmtSelectCR and its three sisters, by table
  local,    \* the four pointers of parse_db_C_CR_Toll
  call,     \* the call in progress: its path and kind
  pc,       \* control
  calls,    \* calls made
  fetched   \* history: for each row fetched, the path asked for and the
            \* database read

vars == <<m_db, stmts, list, cached, local, call, pc, calls, fetched>>

Null     == 0
NoCall   == [path |-> NoDb, kind |-> "none"]
Stmt     == [db : Paths \cup {Mem}, table : Single \cup {"C", "insert"},
             st : {"ready", "row", "done"}, finalized : Nat]
Pointer  == 0..Len(stmts)
NoLocals == [t \in Joined |-> Null]

-----------------------------------------------------------------------------
(* CCmSqlite *)

(* create_statement: a statement that cannot be prepared is null and not   *)
(* listed.  The new pointer is Len(stmts').                                *)
Create(t) ==
  /\ stmts' = Append(stmts, [db |-> m_db, table |-> t, st |-> "ready",
                             finalized |-> 0])
  /\ list' = Append(list, Len(stmts) + 1)

(* Fault: a statement that could not be prepared is listed as well. *)
CreateNullListed ==
  /\ list' = Append(list, Null)
  /\ UNCHANGED stmts

CreateNull == UNCHANGED <<stmts, list>>

(* step_row and reset *)
Stepped(s, st) == [stmts EXCEPT ![s].st = st]

(* std::remove closes the gap of the one place s has in the list.          *)
Without(l, s) ==
  LET p == CHOOSE k \in 1..Len(l) : l[k] = s
  IN  [k \in 1..(Len(l) - 1) |-> IF k < p THEN l[k] ELSE l[k + 1]]

(* Fault: the last statement is taken from the list, whichever it is. *)
RemoveLast(s) ==
  IF s = Null \/ list = <<>> THEN list ELSE SubSeq(list, 1, Len(list) - 1)

(* The places of a statement in the list. *)
Places(s) == {k \in 1..Len(list) : list[k] = s}

(* remove_statement: the list forgets it; it is not finalized. *)
Removed(s) ==
  IF s = Null \/ Places(s) = {} THEN list ELSE Without(list, s)

-----------------------------------------------------------------------------
Init ==
  /\ m_db = NoDb
  /\ stmts = <<>>
  /\ list = <<>>
  /\ cached = [t \in Single |-> Null]
  /\ local = NoLocals
  /\ call = NoCall
  /\ pc = "idle"
  /\ calls = 0
  /\ fetched = {}

(* Fault: a database that is open already does not stop open_db. *)
OpensAnyway(path) == TRUE

(* open_db opens nothing when something is open. *)
Opens(path) == m_db = NoDb

(* A call: the database is opened, or the call is over at once (refused,   *)
(* or an exception of the constructor of CCmSqlite).                       *)
Begin(path, kind, start) ==
  /\ pc = "idle"
  /\ calls < MaxCalls
  /\ calls' = calls + 1
  /\ \/ /\ Opens(path)
        /\ m_db' = path
        /\ pc' = start
        /\ call' = IF start = "idle" THEN NoCall
                   ELSE [path |-> path, kind |-> kind]
     \/ UNCHANGED <<m_db, pc, call>>
  /\ UNCHANGED <<stmts, list, cached, local, fetched>>

ImportMid == Begin(Mem, "insert", "insert")

(* The combinations open the database in memory and use no statement. *)
Combine == Begin(Mem, "none", "idle")

ParseDb(path) ==
  LET kind == KindOf[path] IN
    /\ kind # "none"
    /\ Begin(path, kind, IF kind = "C_CR_Toll" THEN "selectC" ELSE "select")

(* The end of a call, normal or by an exception that the caller catches.   *)
Return == /\ pc' = "idle"
          /\ call' = NoCall
          /\ local' = NoLocals

(* open_mid: the statement stays in the list. *)
Insert ==
  /\ pc = "insert"
  /\ Create("insert") \/ CreateNull
  /\ Return
  /\ UNCHANGED <<m_db, cached, calls, fetched>>

-----------------------------------------------------------------------------
(* The exports of a single table *)

(* The statement that is looked at before one is created: parse_db_CR      *)
(* looks at that of Toll_ETA.                                              *)
Guard(k) == cached[IF k = "CR" THEN "Toll_ETA" ELSE k]

Select ==
  LET k == call.kind IN
    /\ pc = "select"
    /\ \/ /\ Guard(k) = Null
          /\ \/ Create(k) /\ cached' = [cached EXCEPT ![k] = Len(stmts) + 1]
             \/ CreateNull /\ cached' = [cached EXCEPT ![k] = Null]
       \/ Guard(k) # Null /\ UNCHANGED <<stmts, list, cached>>
    /\ IF cached'[k] = Null THEN Return
       ELSE pc' = "rows" /\ UNCHANGED <<call, local>>
    /\ UNCHANGED <<m_db, calls, fetched>>

(* The file cannot be opened. *)
NoFile ==
  /\ pc = "rows"
  /\ stmts[cached[call.kind]].st = "ready"
  /\ Return
  /\ UNCHANGED <<m_db, stmts, list, cached, calls, fetched>>

Fetch(s) == fetched' = fetched \cup {[asked |-> call.path, from |-> stmts[s].db,
                                      table |-> stmts[s].table, kind |-> call.kind]}

Row ==
  LET s == cached[call.kind] IN
    /\ pc = "rows"
    /\ stmts' = Stepped(s, "row")
    /\ Fetch(s)
    /\ UNCHANGED <<m_db, list, cached, local, call, pc, calls>>

(* The last step and the reset. *)
LastRow ==
  LET s == cached[call.kind] IN
    /\ pc = "rows"
    /\ stmts' = Stepped(s, "ready")
    /\ Return
    /\ UNCHANGED <<m_db, list, cached, calls, fetched>>

-----------------------------------------------------------------------------
(* parse_db_C_CR_Toll *)

SelectC ==
  /\ pc = "selectC"
  /\ \/ /\ Create("C")
        /\ local' = [local EXCEPT !["C"] = Len(stmts) + 1]
        /\ pc' = "C"
        /\ UNCHANGED call
     \/ CreateNull /\ Return
  /\ UNCHANGED <<m_db, cached, calls, fetched>>

(* The next row of C has a CRID, a CondID or both. *)
RowC ==
  /\ pc = "C"
  /\ stmts' = Stepped(local["C"], "row")
  /\ Fetch(local["C"])
  /\ pc' \in {"CR", "Toll_ETA"}
  /\ UNCHANGED <<m_db, list, cached, local, call, calls>>

(* Fault: the loop may be left after a row ("row_num >= 5", 1783). *)
LeaveC ==
  /\ pc = "C"
  /\ pc' = "remove"
  /\ stmts' \in {stmts, Stepped(local["C"], "done")}
  /\ UNCHANGED <<m_db, list, cached, local, call, calls, fetched>>

EndOfC ==
  /\ pc = "C"
  /\ stmts' = Stepped(local["C"], "done")
  /\ pc' = "remove"
  /\ UNCHANGED <<m_db, list, cached, local, call, calls, fetched>>

(* In the loop over the rows of a joined table. *)
InRows == [CR |-> "CR rows", Toll_ETA |-> "Toll_ETA rows",
           Toll_Pattern |-> "Toll_Pattern rows"]

After(t) == CASE t = "CR"           -> {"C", "Toll_ETA"}
              [] t = "Toll_ETA"     -> {"Toll_Pattern"}
              [] t = "Toll_Pattern" -> {"C"}

(* A joined table: the statement is created or reset, bound, and stepped   *)
(* until there is no row.                                                  *)
JoinStart ==
  /\ pc \in Joined \ {"C"}
  /\ \/ /\ local[pc] = Null
        /\ \/ /\ Create(pc)
              /\ local' = [local EXCEPT ![pc] = Len(stmts) + 1]
              /\ pc' = InRows[pc]
           \/ CreateNull /\ UNCHANGED local /\ pc' \in After(pc)
     \/ /\ local[pc] # Null
        /\ stmts' = Stepped(local[pc], "ready")
        /\ pc' = InRows[pc]
        /\ UNCHANGED <<list, local>>
  /\ UNCHANGED <<m_db, cached, call, calls, fetched>>

JoinRow(t) ==
  /\ pc = InRows[t]
  /\ stmts' = Stepped(local[t], "row")
  /\ Fetch(local[t])
  /\ UNCHANGED <<m_db, list, cached, local, call, pc, calls>>

JoinEnd(t) ==
  /\ pc = InRows[t]
  /\ stmts' = Stepped(local[t], "done")
  /\ pc' \in After(t)
  /\ UNCHANGED <<m_db, list, cached, local, call, calls, fetched>>

Order == <<"C", "CR", "Toll_ETA", "Toll_Pattern">>

(* The four statements are removed, C first. *)
Remove ==
  LET left == {n \in 1..4 : local[Order[n]] # Null}
      t    == Order[CHOOSE n \in left : \A k \in left : n <= k]
  IN  /\ pc = "remove"
      /\ IF left = {} THEN Return /\ UNCHANGED list
         ELSE /\ list' = Removed(local[t])
              /\ local' = [local EXCEPT ![t] = Null]
              /\ UNCHANGED <<pc, call>>
      /\ UNCHANGED <<m_db, stmts, cached, calls, fetched>>

(* A number that does not convert: the exception leaves the call. *)
OnRow == pc \in {"rows", "CR", "Toll_ETA"} \cup {InRows[t] : t \in DOMAIN InRows}

Throw ==
  /\ OnRow
  /\ \E s \in 1..Len(stmts) : stmts[s].st = "row"
  /\ Return
  /\ UNCHANGED <<m_db, stmts, list, cached, calls, fetched>>

-----------------------------------------------------------------------------
(* ~CCmDatabase deletes the CCmSqlite, which deletes the statements in its *)
(* list; it does not close the connection.                                 *)
Times(s) == Cardinality(Places(s))

Destroy ==
  /\ pc = "idle"
  /\ pc' = "gone"
  /\ stmts' = [s \in 1..Len(stmts) |->
                 [stmts[s] EXCEPT !.finalized = @ + Times(s)]]
  /\ list' = <<>>
  /\ m_db' = NoDb
  /\ UNCHANGED <<cached, local, call, calls, fetched>>

Gone == pc = "gone" /\ UNCHANGED vars

Next ==
  \/ ImportMid \/ Combine \/ (\E p \in Paths : ParseDb(p))
  \/ Insert \/ Select \/ NoFile \/ Row \/ LastRow
  \/ SelectC \/ RowC \/ EndOfC \/ JoinStart
  \/ (\E t \in Joined \ {"C"} : JoinRow(t) \/ JoinEnd(t))
  \/ Remove \/ Throw \/ Destroy \/ Gone

Spec == Init /\ [][Next]_vars

-----------------------------------------------------------------------------
(* Properties *)

(* Every pointer is null or a statement that was created, and the list of  *)
(* CCmSqlite never holds the null pointer of a statement that could not be *)
(* prepared (create_statement, cm_sqlite.cpp:83-101).                      *)
TypeOK ==
  /\ m_db \in Paths \cup {Mem, NoDb}
  /\ stmts \in Seq(Stmt)
  /\ list \in Seq(1..Len(stmts))
  /\ cached \in [Single -> Pointer]
  /\ local \in [Joined -> Pointer]
  /\ call.path \in Paths \cup {Mem, NoDb}
  /\ call.kind \in Single \cup {"C_CR_Toll", "insert", "none"}
  /\ pc \in {"idle", "gone", "insert", "select", "rows", "selectC", "remove"}
             \cup Joined \cup {InRows[t] : t \in DOMAIN InRows}
  /\ calls \in 0..MaxCalls

(* Whatever calls were made before, and however they ended, a file is      *)
(* written from the database the call was asked to export, and from the    *)
(* table its name stands for.  The statements outlive the call that made   *)
(* them (1263-1265 and its sisters) and one of them is guarded by the      *)
(* pointer of another (1262): it is open_db (1159), which opens one        *)
(* database in the life of an object, that keeps them apart.               *)
OwnData ==
  \A f \in fetched : /\ f.from = f.asked
                     /\ f.kind \in Single => f.table = f.kind

(* A statement the code still has a pointer to is in the list exactly      *)
(* once, so that an exception at this point leaks nothing and nothing is   *)
(* finalized twice (create_statement, remove_statement, cm_sqlite.cpp:     *)
(* 83-114).                                                                *)
InUseIsListed ==
  pc # "gone" =>
    \A s \in {cached[t] : t \in Single} \cup {local[t] : t \in Joined} :
      s # Null => Times(s) = 1

(* An object that is gone leaves no read transaction behind: what it did   *)
(* not finalize, the statements that parse_db_C_CR_Toll removed from the   *)
(* list (1790-1793), had been stepped to the end.  Otherwise the database  *)
(* would stay locked for the rest of the process.                          *)
GoneHoldsNothing ==
  pc = "gone" =>
    \A s \in 1..Len(stmts) :
      \/ stmts[s].finalized = 1
      \/ stmts[s].finalized = 0 /\ stmts[s].st # "row"
=============================================================================
