--------------------------- MODULE MidImportProofs ---------------------------
(***************************************************************************)
(* Theorems about the import of a .mid file: its types, where the columns  *)
(* of a stored row come from, and which lines are stored.                  *)
(***************************************************************************)
EXTENDS MidImport, TLAPS

(* The token loop and the step between lines are on a line of the file.    *)
TypeInv == TypeOK /\ stmt = "ready"

LEMMA TokensType ==
  ASSUME NEW l \in Line
  PROVE  Tokens(l) \in Seq(Piece)
  BY DEF Tokens, Line

LEMMA FileType ==
  ASSUME TypeOK
  PROVE  /\ mid \in Seq(Line)
         /\ Fld \in 3..13
  <1>1. kind \in Kinds /\ mid \in Files[kind]
    BY DEF TypeOK
  <1>2. mid \in Seq(Line)
    BY <1>1, FilesAssumption
  <1>3. Fld \in 3..13
    BY <1>1, KindsAssumption DEF Fld, Schema
  <1> QED  BY <1>2, <1>3

LEMMA StripType ==
  ASSUME NEW p \in Piece
  PROVE  Strip(p) \in Cell
  BY DEF Strip, Piece, Cell

LEMMA TypeInit == Init => TypeInv
  <1> SUFFICES ASSUME Init PROVE TypeInv
    OBVIOUS
  <1>1. kind \in Kinds /\ mid \in Files[kind] /\ mid \in Seq(Line)
    BY FilesAssumption DEF Init
  <1>2. Fld \in 3..13
    BY <1>1, KindsAssumption DEF Fld, Schema
  <1> QED  BY <1>1, <1>2 DEF Init, TypeInv, TypeOK, Cell, Columns

LEMMA TypeStep == TypeInv /\ [Next]_vars => TypeInv'
  <1> SUFFICES ASSUME TypeInv, [Next]_vars PROVE TypeInv'
    OBVIOUS
  <1>0. TypeOK /\ stmt = "ready" /\ mid \in Seq(Line) /\ Fld \in 3..13
    BY FileType DEF TypeInv
  <1> USE DEF TypeInv, TypeOK, Fld, Columns
  <1>1. CASE CreateTable
    BY <1>0, <1>1 DEF CreateTable
  <1>2. CASE Prepare
    BY <1>0, <1>2 DEF Prepare
  <1>3. CASE OpenFile
    BY <1>0, <1>3 DEF OpenFile
  <1>4. CASE ReadLine
    BY <1>0, <1>4 DEF ReadLine
  <1>5. CASE EndOfFile
    BY <1>0, <1>5 DEF EndOfFile
  <1>6. CASE TakeToken
    <2> DEFINE toks == Tokens(mid[lineno])
    <2>1. toks \in Seq(Piece) /\ col + 1 \in 1..Len(toks) /\ col + 1 \in Columns
      <3>1. mid[lineno] \in Line
        BY <1>0, <1>6 DEF TakeToken
      <3>2. toks \in Seq(Piece)
        BY <3>1, TokensType
      <3> HIDE DEF toks
      <3>3. col \in Nat /\ col < Len(toks) /\ col < Fld
        BY <1>0, <1>6 DEF TakeToken, toks
      <3>4. PICK n \in Nat : n = Len(toks)
        BY <3>2
      <3>5. col + 1 \in 1..n
        BY <3>3, <3>4
      <3>6. col + 1 \in Columns
        <4>1. PICK w \in 3..13 : w = Fld
          BY <1>0
        <4>2. col + 1 \in 1..w
          <5> HIDE DEF TypeInv, TypeOK, Fld, Columns
          <5> QED  BY <3>3, <4>1
        <4> QED  BY <4>1, <4>2 DEF Columns
      <3> QED  BY <3>2, <3>4, <3>5, <3>6
    <2>2. Strip(toks[col + 1]) \in Cell
      BY <2>1, StripType
    <2>3. BindText(bound, col + 1, col + 1) \in [Columns -> 0..Fld]
      BY <1>0, <2>1 DEF BindText
    <2>4. /\ col' = col + 1
          /\ field' = [field EXCEPT ![col + 1] = Strip(toks[col + 1])]
          /\ bound' = BindText(bound, col + 1, col + 1)
          /\ UNCHANGED <<kind, mid, pc, lineno, stmt, table, ok>>
      BY <1>6 DEF TakeToken
    <2>5. field' \in [Columns -> Cell]
      BY <1>0, <2>1, <2>2, <2>4
    <2> HIDE DEF toks
    <2> QED  BY <1>0, <2>1, <2>3, <2>4, <2>5, SMTT(30)
  <1>7. CASE ExceedFields
    BY <1>0, <1>7 DEF ExceedFields
  <1>8. CASE EndOfLine
    BY <1>0, <1>8 DEF EndOfLine
  <1>9. CASE InsertRow
    <2>1. ~ Rejected => RowBound \in [Columns -> Cell]
      BY <1>0 DEF Rejected, RowBound
    <2>2. lineno \in 1..Len(mid)
      BY <1>0, <1>9 DEF InsertRow
    <2>3. stmt' = "ready"
      BY <1>9 DEF InsertRow, Reset
    <2> DEFINE R == [vals : [Columns -> Cell], line : 1..Len(mid)]
    <2>4. table' \in Seq(R)
      <3>1. CASE Rejected
        BY <1>0, <1>9, <3>1 DEF InsertRow
      <3>2. CASE ~ Rejected
        <4>1. [vals |-> RowBound, line |-> lineno] \in R
          BY <2>1, <2>2, <3>2
        <4>2. table' = Append(table, [vals |-> RowBound, line |-> lineno])
          BY <1>9, <3>2 DEF InsertRow
        <4> HIDE DEF R
        <4>3. table \in Seq(R)
          BY <1>0 DEF R
        <4> QED  BY <4>1, <4>2, <4>3
      <3> QED  BY <3>1, <3>2
    <2> QED  BY <1>0, <1>9, <2>3, <2>4 DEF InsertRow
  <1>10. CASE Done \/ UNCHANGED vars
    BY <1>0, <1>10 DEF Done, vars
  <1> QED  BY <1>1, <1>2, <1>3, <1>4, <1>5, <1>6, <1>7, <1>8, <1>9, <1>10
           DEF Next

(* Every variable of the import keeps its type; in particular no token     *)
(* beyond the columns of the table is ever stored or bound.                *)
THEOREM TypeCorrect == Spec => []TypeOK
  <1>1. TypeInv => TypeOK
    BY DEF TypeInv
  <1> QED  BY TypeInit, TypeStep, <1>1, PTL DEF Spec

-----------------------------------------------------------------------------
(* Provenance *)

(* What column k would hold in a row inserted after the first n lines.     *)
ColumnFrom(k, n) ==
  \/ bound[k] = 0 /\ LastSupplier(k, n) = {}
  \/ /\ bound[k] = k
     /\ \E i \in LastSupplier(k, n) : field[k] = Strip(Tokens(mid[i])[k])

(* The lines whose k-th token has been dealt with.                         *)
LinesTaken(k) == IF pc = "token" /\ k > col THEN lineno - 1 ELSE lineno

BindInv == \A k \in Columns : ColumnFrom(k, LinesTaken(k))

ProvenanceInv == TypeInv /\ BindInv /\ RowProvenance

(* The last supplier of a column after one line more.                      *)
LEMMA LastSupplierStep ==
  ASSUME NEW k, NEW n \in Nat
  PROVE  LastSupplier(k, n + 1) =
           IF Supplies(n + 1, k) THEN {n + 1} ELSE LastSupplier(k, n)
  <1>1. CASE Supplies(n + 1, k)
    <2>1. n + 1 \in LastSupplier(k, n + 1)
      BY <1>1 DEF LastSupplier
    <2>2. \A i \in LastSupplier(k, n + 1) : i = n + 1
      BY <1>1 DEF LastSupplier
    <2> QED  BY <1>1, <2>1, <2>2
  <1>2. CASE ~ Supplies(n + 1, k)
    BY <1>2 DEF LastSupplier
  <1> QED  BY <1>1, <1>2

LEMMA BindStep == TypeInv /\ BindInv /\ [Next]_vars => BindInv'
  <1> SUFFICES ASSUME TypeInv, BindInv, [Next]_vars PROVE BindInv'
    OBVIOUS
  <1>0. TypeOK /\ TypeInv' /\ stmt = "ready" /\ mid \in Seq(Line) /\ Fld \in 3..13
    BY TypeStep, FileType DEF TypeInv
  <1>1. mid' = mid /\ kind' = kind /\ Columns' = Columns
    BY DEF Next, CreateTable, Prepare, OpenFile, ReadLine, EndOfFile, TakeToken,
           ExceedFields, EndOfLine, InsertRow, Done, vars, Columns, Fld
  <1>2. \A k, n : LastSupplier(k, n)' = LastSupplier(k, n)
    BY <1>1 DEF LastSupplier, Supplies
  <1>3. ASSUME NEW k \in Columns, UNCHANGED <<bound, field>>,
               LastSupplier(k, LinesTaken(k)') = LastSupplier(k, LinesTaken(k))
        PROVE  ColumnFrom(k, LinesTaken(k))'
    BY <1>1, <1>2, <1>3 DEF BindInv, ColumnFrom
  <1>4. CASE TakeToken
    <2>0. PICK j \in Columns : j = col + 1
      BY <1>0, <1>4 DEF TakeToken, TypeOK, Columns
    <2> DEFINE toks == Tokens(mid[lineno])
    <2>1. /\ pc = "token" /\ pc' = "token" /\ lineno' = lineno /\ col' = col + 1
          /\ col < Len(toks) /\ col < Fld
          /\ field' = [field EXCEPT ![j] = Strip(toks[j])]
          /\ bound' = [bound EXCEPT ![j] = j]
      BY <1>0, <1>4, <2>0 DEF TakeToken, BindText
    <2>2. col \in Nat /\ j \in Columns /\ lineno \in Nat \ {0}
            /\ field \in [Columns -> Cell] /\ bound \in [Columns -> 0..Fld]
      BY <1>0, <2>0, <2>1 DEF TypeOK
    <2>3. ASSUME NEW k \in Columns, k # j
          PROVE  ColumnFrom(k, LinesTaken(k))'
      <3>1. LinesTaken(k)' = LinesTaken(k) /\ k \in Nat
        BY <1>0, <2>0, <2>1, <2>2, <2>3 DEF LinesTaken, Columns
      <3>2. field'[k] = field[k] /\ bound'[k] = bound[k]
        BY <2>1, <2>2, <2>3
      <3> QED  BY <1>1, <1>2, <3>1, <3>2 DEF BindInv, ColumnFrom
    <2>4. ColumnFrom(j, lineno)'
      <3>1. Supplies(lineno, j)
        <4>1. toks \in Seq(Piece)
          BY <1>0, <2>1, TokensType DEF TypeOK
        <4> HIDE DEF toks
        <4>2. j <= Len(toks)
          BY <2>0, <2>1, <2>2, <4>1
        <4> QED  BY <4>2 DEF Supplies, toks
      <3>2. LastSupplier(j, lineno) = {lineno}
        <4>1. PICK n \in Nat : lineno = n + 1
          BY <2>2
        <4> QED  BY <3>1, <4>1, LastSupplierStep
      <3>3. field'[j] = Strip(toks[j]) /\ bound'[j] = j
        BY <2>1, <2>2
      <3> QED  BY <1>1, <1>2, <2>1, <3>2, <3>3 DEF ColumnFrom
    <2>5. LinesTaken(j)' = lineno
      BY <2>0, <2>1, <2>2 DEF LinesTaken
    <2> QED  BY <1>1, <2>1, <2>3, <2>4, <2>5 DEF BindInv
  <1>5. CASE EndOfLine
    <2> SUFFICES ASSUME NEW k \in Columns PROVE ColumnFrom(k, LinesTaken(k))'
      BY <1>1 DEF BindInv
    <2>1. /\ UNCHANGED <<bound, field>> /\ pc = "token" /\ pc' # "token"
          /\ lineno' = lineno /\ col' = col /\ col = Len(Tokens(mid[lineno]))
      BY <1>5 DEF EndOfLine
    <2>2. LinesTaken(k)' = lineno /\ lineno \in Nat \ {0} /\ k \in Nat
      BY <1>0, <2>1 DEF LinesTaken, TypeOK, Columns
    <2>3. CASE k > col
      <3>1. LinesTaken(k) = lineno - 1 /\ ~ Supplies(lineno, k)
        BY <1>0, <2>1, <2>2, <2>3 DEF LinesTaken, Supplies, TypeOK
      <3>2. LastSupplier(k, lineno) = LastSupplier(k, lineno - 1)
        <4>1. PICK n \in Nat : lineno = n + 1
          BY <2>2
        <4>2. LastSupplier(k, n + 1) = LastSupplier(k, n)
          BY <3>1, <4>1, LastSupplierStep
        <4>3. n = lineno - 1
          BY <4>1, <2>2
        <4> QED  BY <4>1, <4>2, <4>3
      <3> QED  BY <1>3, <2>1, <2>2, <3>1, <3>2
    <2>4. CASE ~ (k > col)
      <3>1. LinesTaken(k) = lineno
        BY <2>4 DEF LinesTaken
      <3> QED  BY <1>3, <2>1, <2>2, <3>1
    <2> QED  BY <2>3, <2>4
  <1>6. CASE ~ TakeToken /\ ~ EndOfLine
    <2> SUFFICES ASSUME NEW k \in Columns PROVE ColumnFrom(k, LinesTaken(k))'
      BY <1>1 DEF BindInv
    <2>1. UNCHANGED <<bound, field>>
      BY <1>6 DEF Next, CreateTable, Prepare, OpenFile, ReadLine, EndOfFile,
                  ExceedFields, InsertRow, Done, vars
    <2>2. LinesTaken(k)' = LinesTaken(k)
      BY <1>0, <1>6 DEF Next, CreateTable, Prepare, OpenFile, ReadLine,
           EndOfFile, ExceedFields, InsertRow, Done, vars, LinesTaken,
           TypeOK, Columns
    <2> QED  BY <1>3, <2>1, <2>2
  <1> QED  BY <1>4, <1>5, <1>6

(* A row is only inserted when no parameter is NULL, so each one points to *)
(* its own buffer.                                                         *)
LEMMA ProvenanceStep == ProvenanceInv /\ [Next]_vars => ProvenanceInv'
  <1> SUFFICES ASSUME ProvenanceInv, [Next]_vars PROVE ProvenanceInv'
    OBVIOUS
  <1>1. TypeInv' /\ BindInv' /\ TypeOK /\ BindInv /\ RowProvenance
    BY TypeStep, BindStep DEF ProvenanceInv, TypeInv
  <1>2. mid' = mid /\ kind' = kind /\ Columns' = Columns
    BY DEF Next, CreateTable, Prepare, OpenFile, ReadLine, EndOfFile, TakeToken,
           ExceedFields, EndOfLine, InsertRow, Done, vars, Columns, Fld
  <1>3. \A k, n : LastSupplier(k, n)' = LastSupplier(k, n)
    BY <1>2 DEF LastSupplier, Supplies
  <1>4. CASE table' = table
    BY <1>1, <1>2, <1>3, <1>4 DEF RowProvenance, ProvenanceInv
  <1>5. CASE table' # table
    <2>1. InsertRow /\ ~ Rejected
      BY <1>5 DEF Next, CreateTable, Prepare, OpenFile, ReadLine, EndOfFile,
                  TakeToken, ExceedFields, EndOfLine, InsertRow, Done, vars
    <2> DEFINE new == [vals |-> RowBound, line |-> lineno]
    <2>2. table' = Append(table, new) /\ pc = "insert"
      BY <2>1 DEF InsertRow
    <2>3. /\ Len(table') = Len(table) + 1 /\ Len(table) \in Nat
          /\ table'[Len(table) + 1] = new
          /\ \A r \in 1..Len(table) : table'[r] = table[r]
      BY <1>1, <2>2 DEF TypeOK
    <2>4. ASSUME NEW k \in Columns
          PROVE  \E i \in LastSupplier(k, lineno) :
                   RowBound[k] = Strip(Tokens(mid[i])[k])
      <3>1. bound[k] # 0
        BY <2>1 DEF Rejected
      <3>2. ColumnFrom(k, lineno)
        BY <1>1, <2>2 DEF BindInv, LinesTaken
      <3> QED  BY <3>1, <3>2 DEF ColumnFrom, RowBound
    <2>5. ASSUME NEW r \in 1..Len(table'), NEW k \in Columns
          PROVE  \E i \in LastSupplier(k, table'[r].line) :
                   table'[r].vals[k] = Strip(Tokens(mid[i])[k])
      <3>1. CASE r \in 1..Len(table)
        BY <1>1, <2>3, <3>1 DEF RowProvenance
      <3>2. CASE r = Len(table) + 1
        BY <2>3, <2>4, <3>2
      <3> QED  BY <2>3, <3>1, <3>2
    <2>6. RowProvenance'
      BY <1>2, <1>3, <2>5 DEF RowProvenance
    <2> QED  BY <1>1, <2>6 DEF ProvenanceInv
  <1> QED  BY <1>4, <1>5

LEMMA ProvenanceInit == Init => ProvenanceInv
  <1> SUFFICES ASSUME Init PROVE ProvenanceInv
    OBVIOUS
  <1>1. RowProvenance
    BY DEF Init, RowProvenance
  <1>2. ASSUME NEW k \in Columns
        PROVE  ColumnFrom(k, LinesTaken(k))
    <2>1. bound[k] = 0 /\ LinesTaken(k) = 0
      BY DEF Init, LinesTaken
    <2>2. LastSupplier(k, 0) = {}
      BY DEF LastSupplier
    <2> QED  BY <2>1, <2>2 DEF ColumnFrom
  <1> QED  BY <1>1, <1>2, TypeInit DEF ProvenanceInv, BindInv

(***************************************************************************)
(* Whatever the files, the texts and the tables: a column of a stored row  *)
(* holds the token of the latest line that had one for it.                 *)
(***************************************************************************)
THEOREM RowsKeepTheirColumns == Spec => []RowProvenance
  <1>1. ProvenanceInv => RowProvenance
    BY DEF ProvenanceInv
  <1> QED  BY ProvenanceInit, ProvenanceStep, <1>1, PTL DEF Spec

-----------------------------------------------------------------------------
(* Completeness *)

(* The lines whose row is stored or given up.                              *)
LinesDone == IF pc \in {"token", "insert"} THEN lineno - 1 ELSE lineno

Stored(m) == \E r \in 1..Len(table) : table[r].line = m

(* The rows are those of lines dealt with, in the order of the lines.      *)
RowsInOrder ==
  /\ \A r \in 1..Len(table) : table[r].line <= LinesDone
  /\ \A r, s \in 1..Len(table) : r < s => table[r].line < table[s].line

(* Only a line with a token gets to the insertion.                         *)
LostInv ==
  /\ ProvenanceInv
  /\ pc = "insert" => Tokens(mid[lineno]) # <<>>
  /\ RowsInOrder
  /\ \A m \in 1..LinesDone : Stored(m) <=> Storable(m)

(* What a step that leaves the rows alone leaves alone.                    *)
LEMMA StorableKept ==
  ASSUME UNCHANGED <<table, mid, kind>>, NEW m
  PROVE  (Stored(m)' <=> Stored(m)) /\ (Storable(m)' <=> Storable(m))
  BY DEF Stored, Storable, KeyTaken, LastSupplier, Supplies, Columns, Fld

LEMMA LineNumber ==
  ASSUME TypeInv, NEW r \in 1..Len(table)
  PROVE  table[r].line \in Nat
  <1> DEFINE R == [vals : [Columns -> Cell], line : 1..Len(mid)]
  <1>1. table \in Seq(R)
    BY DEF TypeInv, TypeOK
  <1>2. table[r] \in R
    <2> HIDE DEF R
    <2> QED  BY <1>1
  <1> QED  BY <1>2

(* The first token of a line that has one is the last of its kind.         *)
LEMMA FirstToken ==
  ASSUME TypeInv, lineno >= 1, Tokens(mid[lineno]) # <<>>
  PROVE  LastSupplier(1, lineno) = {lineno}
  <1>1. mid \in Seq(Line) /\ lineno \in 1..Len(mid)
    BY FileType DEF TypeInv, TypeOK
  <1> DEFINE toks == Tokens(mid[lineno])
  <1>2. toks \in Seq(Piece)
    BY <1>1, TokensType
  <1>3. Supplies(lineno, 1)
    <2> HIDE DEF toks
    <2>1. 1 <= Len(toks)
      BY <1>2 DEF toks
    <2> QED  BY <2>1 DEF Supplies, toks
  <1>4. PICK n \in Nat : lineno = n + 1
    BY <1>1
  <1> QED  BY <1>3, <1>4, LastSupplierStep

(* SQLite refuses exactly the lines that may not join the table.           *)
LEMMA RejectedRows ==
  ASSUME LostInv, pc = "insert"
  PROVE  Rejected <=> ~ Storable(lineno)
  <1>1. /\ TypeInv /\ TypeOK /\ BindInv /\ RowsInOrder
        /\ Tokens(mid[lineno]) # <<>>
    BY DEF LostInv, ProvenanceInv, TypeInv
  <1>2. Fld \in 3..13 /\ lineno \in Nat \ {0} /\ 1 \in Columns
    BY <1>1, FileType DEF TypeOK, Columns
  <1>3. \A k \in Columns : ColumnFrom(k, lineno)
    BY <1>1 DEF BindInv, LinesTaken
  <1>4. \A k \in Columns : bound[k] = 0 <=> LastSupplier(k, lineno) = {}
    <2> TAKE k \in Columns
    <2>1. k # 0
      BY <1>2 DEF Columns
    <2> QED  BY <1>3, <2>1 DEF ColumnFrom
  <1>5. CASE \E k \in Columns : bound[k] = 0
    BY <1>4, <1>5 DEF Rejected, Storable
  <1>6. CASE \A k \in Columns : bound[k] # 0
    <2>1. RowBound[1] = Strip(Tokens(mid[lineno])[1])
      <3>1. LastSupplier(1, lineno) = {lineno}
        BY <1>1, <1>2, FirstToken
      <3>2. bound[1] = 1 /\ field[1] = Strip(Tokens(mid[lineno])[1])
        BY <1>2, <1>3, <1>6, <3>1 DEF ColumnFrom
      <3> QED  BY <1>2, <3>2 DEF RowBound
    <2>2. \A r \in 1..Len(table) : table[r].line < lineno
      <3> TAKE r \in 1..Len(table)
      <3>1. table[r].line <= lineno - 1
        BY <1>1 DEF RowsInOrder, LinesDone
      <3>2. table[r].line \in Nat
        BY <1>1, LineNumber
      <3> QED  BY <1>2, <3>1, <3>2
    <2>3. Rejected <=> KeyTaken(lineno)
      BY <1>6, <2>1, <2>2 DEF Rejected, KeyTaken
    <2>4. Storable(lineno) <=> ~ KeyTaken(lineno)
      BY <1>1, <1>4, <1>6 DEF Storable
    <2> QED  BY <2>3, <2>4
  <1> QED  BY <1>5, <1>6

(* A line that has just been read is not in the table yet.                 *)
LEMMA NotYetStored ==
  ASSUME TypeInv, RowsInOrder, pc \in {"token", "insert"}
  PROVE  /\ \A r \in 1..Len(table) : table[r].line < lineno
         /\ ~ Stored(lineno)
  <1>1. lineno \in Nat
    BY DEF TypeInv, TypeOK
  <1>2. ASSUME NEW r \in 1..Len(table) PROVE table[r].line < lineno
    <2>1. table[r].line \in Nat
      BY LineNumber
    <2>2. table[r].line <= lineno - 1
      BY DEF RowsInOrder, LinesDone
    <2> QED  BY <1>1, <2>1, <2>2
  <1> QED  BY <1>1, <1>2 DEF Stored

LEMMA LostInsert ==
  ASSUME LostInv, InsertRow, ProvenanceInv'
  PROVE  LostInv'
  <1>1. /\ TypeInv /\ TypeOK /\ RowsInOrder /\ pc = "insert"
        /\ \A m \in 1..(lineno - 1) : Stored(m) <=> Storable(m)
    BY DEF LostInv, ProvenanceInv, TypeInv, InsertRow, LinesDone
  <1>2. /\ pc' = "line" /\ UNCHANGED <<kind, mid, lineno>> /\ LinesDone' = lineno
        /\ Columns' = Columns
    BY DEF InsertRow, LinesDone, Columns, Fld
  <1>3. lineno \in Nat \ {0} /\ Len(table) \in Nat
    BY <1>1 DEF TypeOK
  <1>4. \A r \in 1..Len(table) : table[r].line < lineno /\ table[r].line \in Nat
    BY <1>1, NotYetStored, LineNumber
  <1>5. Rejected <=> ~ Storable(lineno)
    BY <1>1, RejectedRows
  <1>6. CASE Rejected
    <2>1. UNCHANGED <<table, mid, kind>>
      BY <1>2, <1>6 DEF InsertRow
    <2>2. \A m : (Stored(m)' <=> Stored(m)) /\ (Storable(m)' <=> Storable(m))
      BY <2>1, StorableKept
    <2>3. ~ Stored(lineno) /\ ~ Storable(lineno)
      BY <1>1, <1>5, <1>6, NotYetStored
    <2>4. \A m \in 1..lineno : Stored(m)' <=> Storable(m)'
      <3> TAKE m \in 1..lineno
      <3>1. m = lineno \/ m \in 1..(lineno - 1)
        BY <1>3
      <3> QED  BY <1>1, <2>2, <2>3, <3>1
    <2>5. RowsInOrder'
      BY <1>1, <1>2, <1>3, <1>4, <2>1 DEF RowsInOrder
    <2> QED  BY <1>2, <2>4, <2>5 DEF LostInv
  <1>7. CASE ~ Rejected
    <2> DEFINE new == [vals |-> RowBound, line |-> lineno]
    <2>1. table' = Append(table, new)
      BY <1>7 DEF InsertRow
    <2>2. /\ Len(table') = Len(table) + 1
          /\ table'[Len(table) + 1] = new /\ new.line = lineno
          /\ \A r \in 1..Len(table) : table'[r] = table[r]
      BY <1>1, <2>1 DEF TypeOK
    <2> HIDE DEF new
    <2>3. \A r \in 1..Len(table') : r \in 1..Len(table) \/ r = Len(table) + 1
      BY <1>3, <2>2
    <2>4. RowsInOrder'
      <3>1. \A r \in 1..Len(table') : table'[r].line <= lineno
        BY <1>3, <1>4, <2>2, <2>3
      <3>2. \A r, s \in 1..Len(table') : r < s => table'[r].line < table'[s].line
        <4> TAKE r, s \in 1..Len(table')
        <4> HAVE r < s
        <4>1. r \in 1..Len(table)
          BY <1>3, <2>2
        <4>2. CASE s \in 1..Len(table)
          BY <1>1, <2>2, <4>1, <4>2 DEF RowsInOrder
        <4>3. CASE s = Len(table) + 1
          BY <1>4, <2>2, <4>1, <4>3
        <4> QED  BY <2>3, <4>2, <4>3
      <3> QED  BY <1>2, <3>1, <3>2 DEF RowsInOrder
    <2>5. \A m \in 1..lineno : KeyTaken(m)' <=> KeyTaken(m)
      <3> TAKE m \in 1..lineno
      <3>1. ~ (lineno < m)
        BY <1>3
      <3>2. Len(table) + 1 \in 1..Len(table') /\ 1..Len(table) \subseteq 1..Len(table')
        BY <1>3, <2>2
      <3> QED  BY <1>2, <2>2, <2>3, <3>1, <3>2 DEF KeyTaken
    <2>6. \A m \in 1..lineno : Storable(m)' <=> Storable(m)
      BY <1>2, <2>5 DEF Storable, LastSupplier, Supplies
    <2>7. \A m \in 1..(lineno - 1) : Stored(m)' <=> Stored(m)
      <3> TAKE m \in 1..(lineno - 1)
      <3>1. m # lineno
        BY <1>3
      <3>2. 1..Len(table) \subseteq 1..Len(table')
        BY <1>3, <2>2
      <3> QED  BY <2>2, <2>3, <3>1, <3>2 DEF Stored
    <2>8. \A m : m = lineno => Stored(m)'
      <3>1. Len(table) + 1 \in 1..Len(table')
        BY <1>3, <2>2
      <3> QED  BY <1>2, <2>2, <3>1 DEF Stored
    <2>9. \A m \in 1..lineno : Stored(m)' <=> Storable(m)'
      <3> TAKE m \in 1..lineno
      <3>1. m = lineno \/ m \in 1..(lineno - 1)
        BY <1>3
      <3>2. CASE m = lineno
        <4>1. Storable(m) /\ Stored(m)'
          BY <1>5, <1>7, <2>8, <3>2
        <4> QED  BY <2>6, <4>1
      <3>3. CASE m \in 1..(lineno - 1)
        BY <1>1, <2>6, <2>7, <3>3
      <3> QED  BY <3>1, <3>2, <3>3
    <2> QED  BY <1>2, <2>4, <2>9 DEF LostInv
  <1> QED  BY <1>6, <1>7

LEMMA LostStep == LostInv /\ [Next]_vars => LostInv'
  <1> SUFFICES ASSUME LostInv, [Next]_vars PROVE LostInv'
    OBVIOUS
  <1>1. ProvenanceInv' /\ ProvenanceInv /\ TypeInv /\ TypeOK /\ RowsInOrder
    BY ProvenanceStep DEF LostInv, ProvenanceInv, TypeInv
  <1>2. \A m \in 1..LinesDone : Stored(m) <=> Storable(m)
    BY DEF LostInv
  <1>3. lineno \in Nat
    BY <1>1 DEF TypeOK
  <1>4. ASSUME UNCHANGED <<table, mid, kind>>, LinesDone' = LinesDone,
               pc' = "insert" => Tokens(mid'[lineno']) # <<>>
        PROVE  LostInv'
    <2>1. \A m : (Stored(m)' <=> Stored(m)) /\ (Storable(m)' <=> Storable(m))
      BY <1>4, StorableKept
    <2> QED  BY <1>1, <1>2, <1>4, <2>1 DEF LostInv, RowsInOrder
  <1>5. CASE CreateTable \/ Prepare \/ OpenFile \/ EndOfFile \/ Done
             \/ TakeToken \/ UNCHANGED vars
    BY <1>4, <1>5 DEF CreateTable, Prepare, OpenFile, EndOfFile, Done, TakeToken,
                      vars, LinesDone, LostInv
  <1>6. CASE ReadLine
    BY <1>3, <1>4, <1>6 DEF ReadLine, LinesDone
  <1>7. ASSUME pc = "token" PROVE Len(Tokens(mid[lineno])) \in Nat
    BY <1>1, <1>7, FileType, TokensType DEF TypeOK
  <1>8. CASE ExceedFields
    <2>1. Tokens(mid[lineno]) # <<>>
      BY <1>1, <1>7, <1>8 DEF ExceedFields, TypeOK
    <2> QED  BY <1>4, <1>8, <2>1 DEF ExceedFields, LinesDone
  <1>9. CASE EndOfLine /\ col > 0
    <2>1. Tokens(mid[lineno]) # <<>>
      BY <1>1, <1>7, <1>9 DEF EndOfLine, TypeOK
    <2> QED  BY <1>4, <1>9, <2>1 DEF EndOfLine, LinesDone
  <1>10. CASE EndOfLine /\ ~ (col > 0)
    <2>1. /\ UNCHANGED <<table, mid, kind, lineno>> /\ LinesDone = lineno - 1
          /\ LinesDone' = lineno /\ pc' = "line" /\ pc = "token"
      BY <1>10 DEF EndOfLine, LinesDone
    <2>2. Tokens(mid[lineno]) = <<>>
      <3>1. Tokens(mid[lineno]) \in Seq(Piece)
        BY <1>1, <2>1, FileType, TokensType DEF TypeOK
      <3>2. Len(Tokens(mid[lineno])) = 0
        BY <1>1, <1>10 DEF EndOfLine, TypeOK
      <3> QED  BY <3>1, <3>2
    <2>3. ~ Stored(lineno) /\ ~ Storable(lineno)
      BY <1>1, <2>1, <2>2, NotYetStored DEF Storable
    <2>4. \A m : (Stored(m)' <=> Stored(m)) /\ (Storable(m)' <=> Storable(m))
      BY <2>1, StorableKept
    <2>5. \A m \in 1..lineno : Stored(m)' <=> Storable(m)'
      <3> TAKE m \in 1..lineno
      <3>1. m = lineno \/ m \in 1..(lineno - 1)
        BY <1>3
      <3> QED  BY <1>2, <2>1, <2>3, <2>4, <3>1
    <2>6. \A r \in 1..Len(table) : table[r].line <= lineno
      <3> TAKE r \in 1..Len(table)
      <3>1. table[r].line < lineno /\ table[r].line \in Nat
        BY <1>1, <2>1, NotYetStored, LineNumber
      <3> QED  BY <1>3, <3>1
    <2> QED  BY <1>1, <2>1, <2>5, <2>6 DEF LostInv, RowsInOrder
  <1>11. CASE InsertRow
    BY <1>1, <1>11, LostInsert
  <1> QED  BY <1>5, <1>6, <1>8, <1>9, <1>10, <1>11 DEF Next

LEMMA LostInit == Init => LostInv
  <1> SUFFICES ASSUME Init PROVE LostInv
    OBVIOUS
  <1>1. LinesDone = 0 /\ Len(table) = 0
    BY DEF Init, LinesDone
  <1> QED  BY <1>1, ProvenanceInit DEF Init, LostInv, RowsInOrder

(***************************************************************************)
(* Whatever the file: between two lines the table holds, once and in       *)
(* order, every line read that SQLite had no reason to refuse, and no      *)
(* other.                                                                  *)
(***************************************************************************)
THEOREM NoLineLost == Spec => []NothingLost
  <1>1. LostInv => NothingLost
    BY DEF LostInv, RowsInOrder, LinesDone, Stored, NothingLost
  <1> QED  BY LostInit, LostStep, <1>1, PTL DEF Spec
=============================================================================
