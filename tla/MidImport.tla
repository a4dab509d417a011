------------------------------ MODULE MidImport ------------------------------
(***************************************************************************)
(* The import of one .mid text file into a table of the in-memory          *)
(* database: CCmDatabase::open_mid and the six open_mid_<table> functions  *)
(* that create the table and call it (addon/src/cm_db.cpp).                *)
(*                                                                         *)
(* One INSERT statement is prepared and used for every line: the tokens of *)
(* the line are bound one after the other, the statement is stepped once,  *)
(* and reset.  Neither bindings nor field buffers are cleared in between,  *)
(* and the result of the step is not looked at.  What a line puts into the *)
(* table therefore depends on the lines before it.                         *)
(***************************************************************************)
EXTENDS Integers, Sequences

CONSTANTS
  Text,     \* the non-empty texts a column can hold
  NoText,   \* the empty text
  Kinds,    \* the tables imported: a subset of DOMAIN Schema
  Files     \* Files[k]: the .mid files that may be imported into table k

(***************************************************************************)
(* The tables: number of columns and whether the first one is the primary  *)
(* key.  Every column is declared "text not null".                         *)
(***************************************************************************)
Schema ==
  [ N            |-> [fldnum |-> 13, keyed |-> FALSE],
    C            |-> [fldnum |-> 10, keyed |-> FALSE],
    CR           |-> [fldnum |->  5, keyed |-> FALSE],
    Toll_ETA     |-> [fldnum |->  4, keyed |-> TRUE ],
    Toll_Pattern |-> [fldnum |->  3, keyed |-> TRUE ],
    HW_Junction  |-> [fldnum |-> 11, keyed |-> FALSE] ]

(***************************************************************************)
(* What stands between two commas of a line.  A value in quotes may itself *)
(* hold a comma: std::getline splits it all the same, into a piece that    *)
(* only opens a quotation and one that only closes it.                     *)
(***************************************************************************)
Piece == [quote : {"none", "both", "open", "close"}, text : Text \cup {NoText}]
Line  == Seq(Piece)

ASSUME TextAssumption  == NoText \notin Text
ASSUME KindsAssumption == Kinds \subseteq DOMAIN Schema
ASSUME FilesAssumption == Files \in [Kinds -> SUBSET Seq(Line)]

VARIABLES
  kind,   \* the table imported into
  mid,    \* the lines of the file
  pc,     \* control: next step of open_mid_<kind> / open_mid
  lineno, \* lines read so far
  col,    \* tkn_num: tokens taken from the current line
  field,  \* the buffers field[0..fldnum-1] (numbered from 1 here)
  bound,  \* bound[k]: the buffer parameter k points into, 0 when NULL
  stmt,   \* the INSERT statement: "ready", or "halted" by a step
  table,  \* the rows stored, each with the number of the line it came from
  ok      \* the result returned

vars == <<kind, mid, pc, lineno, col, field, bound, stmt, table, ok>>

Fld     == Schema[kind].fldnum
Columns == 1..Fld

-----------------------------------------------------------------------------
(* Tokens of a line *)

(* _strip_quotes erases up to and including the first quote, then from the *)
(* last quote on: of a piece that only closes a quotation nothing is left. *)
Strip(p) == IF p.quote = "close" THEN NoText ELSE p.text

(* An unquoted piece without text at the end of a line is no token: the    *)
(* string stream is exhausted and std::getline fails.                      *)
Blank(p) == p.quote = "none" /\ p.text = NoText

Tokens(l) ==
  IF l # <<>> /\ Blank(l[Len(l)]) THEN SubSeq(l, 1, Len(l) - 1) ELSE l

-----------------------------------------------------------------------------
(* The statement, as SQLite lets the wrapper use it *)

(* Faults: every token through one buffer; the buffer after the right one. *)
BindSharedBuffer(b, k, buf) ==
  IF stmt = "ready" THEN [b EXCEPT ![k] = 1] ELSE b
BindNextBuffer(b, k, buf) ==
  IF stmt = "ready" THEN [b EXCEPT ![k] = buf + 1] ELSE b

(* sqlite3_bind_text on a statement that was stepped and not reset fails   *)
(* with SQLITE_MISUSE, which bind_text ignores.  The pointer is bound, not *)
(* a copy of the text (the destructor argument is SQLITE_STATIC).          *)
BindText(b, k, buf) == IF stmt = "ready" THEN [b EXCEPT ![k] = buf] ELSE b

(* Fault: the statement is not reset.                                      *)
NoReset(s) == s

(* A reset makes the statement ready; the parameters keep their bindings.  *)
Reset(s) == "ready"

RowBound == [k \in Columns |-> field[bound[k]]]

(* SQLITE_CONSTRAINT: a NULL in a NOT NULL column, or a key already there. *)
Rejected ==
  \/ \E k \in Columns : bound[k] = 0
  \/ /\ Schema[kind].keyed
     /\ \E r \in 1..Len(table) : table[r].vals[1] = RowBound[1]

-----------------------------------------------------------------------------
Init ==
  /\ kind \in Kinds
  /\ mid \in Files[kind]
  /\ pc = "create"
  /\ lineno = 0
  /\ col = 0
  /\ field = [k \in Columns |-> NoText]
  /\ bound = [k \in Columns |-> 0]
  /\ stmt = "ready"
  /\ table = <<>>
  /\ ok = TRUE

(* "create table if not exists": when it fails, open_mid is not called.    *)
CreateTable ==
  /\ pc = "create"
  /\ \/ pc' = "prepare" /\ ok' = TRUE
     \/ pc' = "end" /\ ok' = FALSE
  /\ UNCHANGED <<kind, mid, lineno, col, field, bound, stmt, table>>

(* A statement that cannot be created ends the import without an error.    *)
Prepare ==
  /\ pc = "prepare"
  /\ pc' \in {"open", "end"}
  /\ UNCHANGED <<kind, mid, lineno, col, field, bound, stmt, table, ok>>

OpenFile ==
  /\ pc = "open"
  /\ \/ pc' = "line" /\ UNCHANGED ok
     \/ pc' = "end" /\ ok' = FALSE
  /\ UNCHANGED <<kind, mid, lineno, col, field, bound, stmt, table>>

ReadLine ==
  /\ pc = "line"
  /\ lineno < Len(mid)
  /\ lineno' = lineno + 1
  /\ col' = 0
  /\ pc' = "token"
  /\ UNCHANGED <<kind, mid, field, bound, stmt, table, ok>>

EndOfFile ==
  /\ pc = "line"
  /\ lineno = Len(mid)
  /\ pc' = "end"
  /\ UNCHANGED <<kind, mid, lineno, col, field, bound, stmt, table, ok>>

(* One token into its buffer, and the buffer bound to its parameter.       *)
TakeToken ==
  LET toks == Tokens(mid[lineno]) IN
  /\ pc = "token"
  /\ col < Len(toks)
  /\ col < Fld
  /\ col' = col + 1
  /\ field' = [field EXCEPT ![col'] = Strip(toks[col'])]
  /\ bound' = BindText(bound, col', col')
  /\ UNCHANGED <<kind, mid, pc, lineno, stmt, table, ok>>

(* A token too many is counted, reported, and ends the line.               *)
ExceedFields ==
  /\ pc = "token"
  /\ col = Fld
  /\ col < Len(Tokens(mid[lineno]))
  /\ col' = col + 1
  /\ pc' = "insert"
  /\ UNCHANGED <<kind, mid, lineno, field, bound, stmt, table, ok>>

EndOfLine ==
  /\ pc = "token"
  /\ col = Len(Tokens(mid[lineno]))
  /\ pc' = IF col > 0 THEN "insert" ELSE "line"
  /\ UNCHANGED <<kind, mid, lineno, col, field, bound, stmt, table, ok>>

(* step() and reset(): a row that breaks a constraint is dropped silently. *)
InsertRow ==
  /\ pc = "insert"
  /\ table' = IF Rejected THEN table
              ELSE Append(table, [vals |-> RowBound, line |-> lineno])
  /\ stmt' = Reset("halted")
  /\ pc' = "line"
  /\ UNCHANGED <<kind, mid, lineno, col, field, bound, ok>>

Done == pc = "end" /\ UNCHANGED vars

Next ==
  \/ CreateTable
  \/ Prepare
  \/ OpenFile
  \/ ReadLine
  \/ EndOfFile
  \/ TakeToken
  \/ ExceedFields
  \/ EndOfLine
  \/ InsertRow
  \/ Done

Spec == Init /\ [][Next]_vars

-----------------------------------------------------------------------------
(* Properties *)

Cell == Text \cup {NoText}

TypeOK ==
  /\ kind \in Kinds
  /\ mid \in Files[kind]
  /\ pc \in {"create", "prepare", "open", "line", "token", "insert", "end"}
  /\ lineno \in 0..Len(mid)
  /\ pc \in {"token", "insert"} => lineno >= 1
  /\ col \in 0..(Fld + 1)
  /\ field \in [Columns -> Cell]
  /\ bound \in [Columns -> 0..Fld]
  /\ stmt \in {"ready", "halted"}
  /\ table \in Seq([vals : [Columns -> Cell], line : 1..Len(mid)])
  /\ ok \in BOOLEAN

Supplies(i, k) == k <= Len(Tokens(mid[i]))

(* The last of the first n lines that has a k-th token: one line, or none. *)
LastSupplier(k, n) ==
  {i \in 1..n : Supplies(i, k) /\ \A j \in (i + 1)..n : ~ Supplies(j, k)}

(***************************************************************************)
(* Where a stored row comes from: each of its columns holds the token of   *)
(* that number, of the latest line up to the row's own that has one.  So a *)
(* complete line is stored with its own tokens only, in their columns,     *)
(* whatever incomplete, over-long or refused lines came before it          *)
(* (open_mid, cm_db.cpp:920-950).                                          *)
(***************************************************************************)
RowProvenance ==
  \A r \in 1..Len(table), k \in Columns :
    \E i \in LastSupplier(k, table[r].line) :
      table[r].vals[k] = Strip(Tokens(mid[i])[k])

(* The rows line m may not join: an earlier line took its key.             *)
KeyTaken(m) ==
  /\ Schema[kind].keyed
  /\ \E r \in 1..Len(table) : /\ table[r].line < m
                               /\ table[r].vals[1] = Strip(Tokens(mid[m])[1])

Storable(m) ==
  /\ Tokens(mid[m]) # <<>>
  /\ \A k \in Columns : LastSupplier(k, m) # {}
  /\ ~ KeyTaken(m)

(***************************************************************************)
(* Between two lines the table holds the lines read so far, in their order *)
(* and each once, apart from those that have no token, come before some    *)
(* column was ever given, or repeat a key: a line SQLite refuses does not  *)
(* keep the ones after it out (open_mid, cm_db.cpp:943-947).               *)
(***************************************************************************)
NothingLost ==
  pc \in {"line", "end"} =>
    /\ \A m \in 1..lineno :
         (\E r \in 1..Len(table) : table[r].line = m) <=> Storable(m)
    /\ \A r, s \in 1..Len(table) : r < s => table[r].line < table[s].line

(***************************************************************************)
(* "text not null" in the create table statements (cm_db.cpp:978-990 and   *)
(* so on): a line that leaves a column without a value stores no row.      *)
(***************************************************************************)
ShortLineRejected ==
  \A r \in 1..Len(table) : Len(Tokens(mid[table[r].line])) >= Fld
=============================================================================
