----------------------------- MODULE CondExport ------------------------------
(***************************************************************************)
(* The export of the combined database <province>_C_CR_Toll.db to a .bin   *)
(* file: the two overloads of CCmDatabase::parse_db_C_CR_Toll and the      *)
(* statements they step (addon/src/cm_db.cpp, cm_sqlite.cpp).              *)
(*                                                                         *)
(* Every row of table C that names a condition or a CR becomes one record: *)
(* a header unit, at most one Toll ETA unit, at most one Toll Pattern unit *)
(* and at most 15 CR units, 16 bytes each.  The rows to join are found by  *)
(* three statements that are created at their first use and kept, reset    *)
(* and bound anew, for the rows after it.                                  *)
(***************************************************************************)
EXTENDS CondData, FiniteSets

CONSTANTS
  Databases,  \* the contents the .db file may have
  OldBin,     \* what the .bin file holds before the export
  Leftover,   \* what an uninitialised 4 bit lane_num may hold
  Faulty      \* those of them on which sqlite3_step may fail at any row

ASSUME DatabasesAssumption == \A d \in Databases : IsDatabase(d)
ASSUME LeftoverAssumption  == Leftover \subseteq 0..15 /\ Leftover # {}
ASSUME FaultyAssumption    == Faulty \subseteq Databases

VARIABLES
  db,      \* the open database, only read
  pc,      \* control: next step of parse_db_C_CR_Toll
  tab,     \* the table the current C row is being joined with
  c,       \* stmt_sel_C
  sel,     \* stmt_sel_CR, stmt_sel_TollETA, stmt_sel_TollPattern
  found,   \* the rows of each joined table read for the current C row
  os,      \* the units written so far
  rownum,  \* row_num
  bin,     \* the string returned: the units of the whole file
  file,    \* the .bin file
  ok       \* the result returned

vars == <<db, pc, tab, c, sel, found, os, rownum, bin, file, ok>>

-----------------------------------------------------------------------------
(* Statements, as SQLite lets the wrapper use them *)

(* "st" is "null" without a statement, "ready" once prepared or reset,     *)
(* "row" on a row and "done" after the last one; pos is the row it is on.  *)
Null     == [st |-> "null",  key |-> NoId, pos |-> 0]
Prepared == [st |-> "ready", key |-> NoId, pos |-> 0]

(* create_statement: the SQL does not compile without the table.           *)
Create(t) == IF t \in DOMAIN db THEN Prepared ELSE Null

(* Fault: the statement is not reset.                                      *)
NoReset(s) == s

Reset(s) == [s EXCEPT !.st = "ready", !.pos = 0]

(* Binding fails, unnoticed, on a statement that was stepped and not reset.*)
BindText(s, k) == IF s.st = "ready" THEN [s EXCEPT !.key = k] ELSE s

(* Fault: bound before it is reset.                                        *)
BindThenReset(s, t, k) ==
  IF s.st = "null" THEN IF Create(t).st = "null" THEN Create(t)
                        ELSE BindText(Create(t), k)
  ELSE Reset(BindText(s, k))

(* Reset or create, then bind.                                             *)
Rebind(s, t, k) ==
  LET r == IF s.st = "null" THEN Create(t) ELSE Reset(s) IN
  IF r.st = "null" THEN r ELSE BindText(r, k)

(* step_row over the rows in hits: a statement that is done starts again,  *)
(* and a failed step looks to the caller like the end of the rows.         *)
StepRow(s, hits) ==
  LET from == IF s.st = "done" THEN 0 ELSE s.pos
      rest == {i \in hits : i > from}
      done == [s EXCEPT !.st = "done"]
      row(i) == [s EXCEPT !.st = "row", !.pos = i]
  IN  (IF db \in Faulty \/ rest = {} THEN {done} ELSE {}) \cup
      {row(i) : i \in {i \in rest : \A j \in rest : i <= j}}

-----------------------------------------------------------------------------
(* Units of the stream *)

(* lane_num has 4 bits and is not set when there is no lane.               *)
LaneNum(n) == IF n = 0 THEN Leftover ELSE {n % 16}

(* Fault: an ETA unit is written for a row whose lanes did not fit.        *)
RecordUnflagged(d, i, rows, g) ==
  LET n   == CountCR(Len(rows["CR"]))
      one == Len(rows["Toll_ETA"]) = 1
      eta == one /\ LanesFit(d["Toll_ETA"][rows["Toll_ETA"][1]])
      ptn == Len(rows["Toll_Pattern"]) = 1
  IN  <<HeaderUnit(i, n, IF eta THEN 1 ELSE 0, IF ptn THEN 1 ELSE 0)>>
      \o (IF one THEN <<EtaUnit(rows["Toll_ETA"][1],
                                Lanes(d["Toll_ETA"][rows["Toll_ETA"][1]]), g)>>
                 ELSE <<>>)
      \o (IF ptn THEN <<PatternUnit(rows["Toll_Pattern"][1])>> ELSE <<>>)
      \o [k \in 1..n |-> CRUnit(rows["CR"][k])]

(***************************************************************************)
(* The units of one record, from the rows read for it.  The first CRs are  *)
(* kept; two Toll ETA rows or two patterns are as good as none.            *)
(***************************************************************************)
Record(d, i, rows, g) ==
  LET n   == CountCR(Len(rows["CR"]))
      eta == /\ Len(rows["Toll_ETA"]) = 1
             /\ LanesFit(d["Toll_ETA"][rows["Toll_ETA"][1]])
      ptn == Len(rows["Toll_Pattern"]) = 1
  IN  <<HeaderUnit(i, n, IF eta THEN 1 ELSE 0, IF ptn THEN 1 ELSE 0)>>
      \o (IF eta THEN <<EtaUnit(rows["Toll_ETA"][1],
                                Lanes(d["Toll_ETA"][rows["Toll_ETA"][1]]), g)>>
                 ELSE <<>>)
      \o (IF ptn THEN <<PatternUnit(rows["Toll_Pattern"][1])>> ELSE <<>>)
      \o [k \in 1..n |-> CRUnit(rows["CR"][k])]

(* The lane numbers the rows read allow.                                   *)
LaneNums(d, rows) ==
  IF rows["Toll_ETA"] = <<>> THEN {0}
  ELSE LaneNum(Lanes(d["Toll_ETA"][rows["Toll_ETA"][1]]))

-----------------------------------------------------------------------------
Nothing == [t \in Joined |-> <<>>]

Init ==
  /\ db \in Databases
  /\ pc = "open"
  /\ tab = "CR"
  /\ c = Null
  /\ sel = [t \in Joined |-> Null]
  /\ found = Nothing
  /\ os = <<>>
  /\ rownum = 0
  /\ bin = <<>>
  /\ file = OldBin
  /\ ok = FALSE

(* Fault: the file is opened without being truncated.                      *)
OpenBinKeeps ==
  /\ pc = "open"
  /\ pc' \in {"prepare", "end"}
  /\ UNCHANGED <<db, tab, c, sel, found, os, rownum, bin, file, ok>>

(* Opening the ofstream truncates the file.                                *)
OpenBin ==
  /\ pc = "open"
  /\ \/ pc' = "prepare" /\ file' = <<>>
     \/ pc' = "end" /\ UNCHANGED file
  /\ UNCHANGED <<db, tab, c, sel, found, os, rownum, bin, ok>>

(* Without table C the string stays empty, and it is written all the same. *)
PrepareC ==
  /\ pc = "prepare"
  /\ c' = Create("C")
  /\ pc' = IF c'.st = "null" THEN "save" ELSE "next"
  /\ UNCHANGED <<db, tab, sel, found, os, rownum, bin, file, ok>>

(* The next row of C; a bad number in it ends the program.                 *)
StepC ==
  /\ pc = "next"
  /\ c' \in StepRow(c, Selected(db))
  /\ pc' = IF c'.st = "done" THEN "finish"
           ELSE IF db["C"][c'.pos].bad THEN "abort" ELSE "select"
  /\ tab' = "CR"
  /\ found' = Nothing
  /\ UNCHANGED <<db, sel, os, rownum, bin, file, ok>>

(* The ID of the current C row that the table is searched for.             *)
Key(t) == IF t = "CR" THEN db["C"][c.pos].crid ELSE db["C"][c.pos].cond

(* On to the next table, or to the record.                                 *)
Advance ==
  IF tab = "Toll_Pattern" THEN pc' = "write" /\ UNCHANGED tab
  ELSE pc' = "select" /\ tab' = IF tab = "CR" THEN "Toll_ETA"
                                ELSE "Toll_Pattern"

SkipTable ==
  /\ pc = "select"
  /\ Key(tab) = NoId
  /\ Advance
  /\ UNCHANGED <<db, c, sel, found, os, rownum, bin, file, ok>>

(* Fault: a missing table is tried again at once.                          *)
SelectUntilThere ==
  /\ pc = "select"
  /\ Key(tab) # NoId
  /\ sel' = [sel EXCEPT ![tab] = Rebind(@, tab, Key(tab))]
  /\ pc' = IF sel'[tab].st = "null" THEN "select" ELSE "scan"
  /\ UNCHANGED <<db, tab, c, found, os, rownum, bin, file, ok>>

Select ==
  /\ pc = "select"
  /\ Key(tab) # NoId
  /\ sel' = [sel EXCEPT ![tab] = Rebind(@, tab, Key(tab))]
  /\ IF sel'[tab].st = "null" THEN Advance
     ELSE pc' = "scan" /\ UNCHANGED tab
  /\ UNCHANGED <<db, c, found, os, rownum, bin, file, ok>>

StepJoined ==
  /\ pc = "scan"
  /\ \E s \in StepRow(sel[tab], Hits(db, tab, sel[tab].key)) :
       /\ sel' = [sel EXCEPT ![tab] = s]
       /\ IF s.st = "done" THEN Advance /\ UNCHANGED found
          ELSE /\ found' = [found EXCEPT ![tab] = Append(@, s.pos)]
               /\ pc' = IF db[tab][s.pos].bad THEN "abort" ELSE "scan"
               /\ UNCHANGED tab
  /\ UNCHANGED <<db, c, os, rownum, bin, file, ok>>

WriteRecord ==
  /\ pc = "write"
  /\ \E g \in LaneNums(db, found) : os' = os \o Record(db, c.pos, found, g)
  /\ rownum' = rownum + 1
  /\ pc' = "next"
  /\ UNCHANGED <<db, tab, c, sel, found, bin, file, ok>>

Finish ==
  /\ pc = "finish"
  /\ bin' = <<FileHeader(rownum, Len(os))>> \o os
  /\ pc' = "save"
  /\ UNCHANGED <<db, tab, c, sel, found, os, rownum, file, ok>>

(* The write may stop short, on a full disk; nobody looks.                 *)
SaveBin ==
  /\ pc = "save"
  /\ \E n \in 0..Len(bin) : file' = SubSeq(bin, 1, n)
  /\ ok' = TRUE
  /\ pc' = "end"
  /\ UNCHANGED <<db, tab, c, sel, found, os, rownum, bin>>

Stopped == pc \in {"end", "abort"} /\ UNCHANGED vars

Next ==
  \/ OpenBin
  \/ PrepareC
  \/ StepC
  \/ SkipTable
  \/ Select
  \/ StepJoined
  \/ WriteRecord
  \/ Finish
  \/ SaveBin
  \/ Stopped

Spec == Init /\ [][Next]_vars /\ WF_vars(Next)

-----------------------------------------------------------------------------
(* Properties *)

Rows(d, t) == IF t \in DOMAIN d THEN DOMAIN d[t] ELSE {}

Statement(t) ==
  [st : {"null", "ready", "row", "done"}, key : Id, pos : {0} \cup Rows(db, t)]

Unit ==
       [unit : {"record"}, src : Rows(db, "C"), cnt : 0..15, eta : 0..1,
        ptn : 0..1]
  \cup [unit : {"eta"}, src : Rows(db, "Toll_ETA"), num : 0..15, lanes : Nat]
  \cup [unit : {"ptn"}, src : Rows(db, "Toll_Pattern")]
  \cup [unit : {"cr"}, src : Rows(db, "CR")]

TypeOK ==
  /\ IsDatabase(db)
  /\ pc \in {"open", "prepare", "next", "select", "scan", "write", "finish",
             "save", "end", "abort"}
  /\ tab \in Joined
  /\ c \in Statement("C")
  /\ DOMAIN sel = Joined /\ \A t \in Joined : sel[t] \in Statement(t)
  /\ DOMAIN found = Joined /\ \A t \in Joined : found[t] \in Seq(Rows(db, t))
  /\ os \in Seq(Unit)
  /\ rownum \in Nat
  /\ ok \in BOOLEAN

Headers == {i \in 1..Len(os) : os[i].unit = "record"}

(* The units of a record, by its header h, and what the k-th after h is.   *)
Size(h) == 1 + h.eta + h.ptn + h.cnt

Expected(h, k) ==
  IF k <= h.eta THEN "eta" ELSE IF k <= h.eta + h.ptn THEN "ptn" ELSE "cr"

(* The index after the last unit of the record that starts at i.           *)
After(i) == i + Size(os[i])

(***************************************************************************)
(* A reader that knows only the counts and flags of the headers finds its  *)
(* way through the stream: a record starts at the first unit, and where    *)
(* one ends another starts or the stream ends, with the units its header   *)
(* announces in between, in the order ETA, pattern, CRs; and the header of *)
(* the file gives the numbers of records and of units                      *)
(* (doc/addoncmpi.md:23-67, cm_db.cpp:1762-1812).                          *)
(***************************************************************************)
Framed ==
  /\ os # <<>> => 1 \in Headers
  /\ \A i \in Headers :
       /\ After(i) = Len(os) + 1 \/ After(i) \in Headers
       /\ \A k \in 1..(Size(os[i]) - 1) :
            os[i + k].unit = Expected(os[i], k)
  /\ bin # <<>> => bin = <<FileHeader(Cardinality(Headers), Len(os))>> \o os

Owns(i, k) == i \in Headers /\ k \in (i + 1)..(After(i) - 1)

(* The table a unit comes from, and the ID its rows are searched for.      *)
TableOf == [cr |-> "CR", eta |-> "Toll_ETA", ptn |-> "Toll_Pattern"]
IdFor(row, u) == IF u = "cr" THEN row.crid ELSE row.cond

(***************************************************************************)
(* Nothing is attributed to the wrong condition, and nothing is skipped in *)
(* between: each record is that of a row of C after the rows of the        *)
(* records before it, each unit in it comes from a row with the condition  *)
(* ID or the CRID of that row, and the units of its kind before it in the  *)
(* record are those of all the earlier rows with that ID, in table order.  *)
(* This holds even when steps fail: the rows of an ID may end too soon     *)
(* then, but a statement never finds rows for the ID of an earlier row and *)
(* never starts in the middle of the table (the resets at                  *)
(* cm_db.cpp:1616-1619, 1684-1687 and 1726-1729).                          *)
(***************************************************************************)
JoinSound ==
  /\ \A i, j \in Headers : i < j => os[i].src < os[j].src
  /\ \A i \in Headers : os[i].src \in Selected(db)
  /\ \A i, k \in 1..Len(os) : Owns(i, k) =>
       LET u    == os[k].unit
           id   == IdFor(db["C"][os[i].src], u)
           hits == Hits(db, TableOf[u], id)
           past == {l \in (i + 1)..(k - 1) : os[l].unit = u}
       IN  /\ id # NoId
           /\ os[k].src \in hits
           /\ {os[l].src : l \in past} = {r \in hits : r < os[k].src}

(***************************************************************************)
(* Whatever interrupts an export, its .bin file does not pass for a        *)
(* complete one: once the file is open, a run that has not returned true   *)
(* leaves it empty, the old content is gone; and after a run that returned *)
(* true the file holds the whole string, or it is empty, or its header     *)
(* announces more units than it holds (cm_db.cpp:1532-1537, 1808-1832).    *)
(***************************************************************************)
CutShows ==
  IF ok THEN \/ file = bin
             \/ file = <<>>
             \/ file[1].unit = "file" /\ Len(file) < 1 + file[1].datsiz
  ELSE pc \notin {"open", "end"} => file = <<>>

(***************************************************************************)
(* The export comes to an end, normally or by an uncaught exception: no    *)
(* loop over a statement starts again after its last row                   *)
(* (cm_db.cpp:1544, 1630, 1701, 1740).                                     *)
(***************************************************************************)
Terminates == <>(pc \in {"end", "abort"})

(***************************************************************************)
(* doc/addoncmpi.md:89-90: a Toll ETA unit holds from 0 to 15 lanes.  So a *)
(* condition with one Toll ETA row of at most 15 lanes has an ETA unit.    *)
(***************************************************************************)
DocLanesKept ==
  \A i \in Headers :
    LET cond == db["C"][os[i].src].cond IN
    \A r \in Rows(db, "Toll_ETA") :
      (/\ cond # NoId /\ Hits(db, "Toll_ETA", cond) = {r}
       /\ Lanes(db["Toll_ETA"][r]) \in 1..15)
      => os[i].eta = 1

(***************************************************************************)
(* doc/addoncmpi.md:42: a record holds at least one CR or one piece of     *)
(* toll information.                                                       *)
(***************************************************************************)
RecordCarriesInfo ==
  \A i \in Headers : os[i].cnt + os[i].eta + os[i].ptn > 0
=============================================================================
