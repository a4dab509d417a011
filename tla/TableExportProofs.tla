-------------------------- MODULE TableExportProofs --------------------------
(***************************************************************************)
(* Theorems about the export of a single table: every record fits into the *)
(* bytes that are written for it, a call that fails leaves the file of an  *)
(* earlier one alone, and what is written is what the reader of            *)
(* TableReader finds: RecordsReadBack and EveryRowOnce, for tables of any  *)
(* number of rows.                                                         *)
(*                                                                         *)
(* The argument for the reader has three parts.  A record: each field of   *)
(* RowCodec keeps to its bits and no other reaches into them, so the       *)
(* reader gets the value back (RecordSays).  A stream: whatever fails,     *)
(* what is written is a prefix of the records one after the other, the     *)
(* i-th at Pos[i] (Streams).  The reader: he is at Pos[i] when he reaches  *)
(* record i, which in the file of Toll ETA rests on the records before it  *)
(* being read right (StartFixed, StartEta).                                *)
(***************************************************************************)
EXTENDS TableReader, TLAPS, WellFoundedInduction

(* The bits of the first n bytes. *)
Within(n) == 0..(8 * n - 1)

-----------------------------------------------------------------------------
(* The operators of the codecs *)

LEMMA BitsType == \A n : Bits(n) \subseteq 0..30
  BY DEF Bits

(* A field keeps to its w bits at p, whatever value is put into it. *)
LEMMA FieldBound ==
  ASSUME NEW B, NEW p \in Nat, NEW w \in Nat
  PROVE  Field(B, p, w) \subseteq p..(p + w - 1)
  BY DEF Field, Shl, Low

LEMMA UnsetBound ==
  ASSUME NEW left, NEW p \in Nat, NEW w \in Nat
  PROVE  Unset(left, p, w) \subseteq p..(p + w - 1)
  BY DEF Unset

LEMMA TimedBound ==
  ASSUME NEW type, NEW p16, p16 \subseteq 0..15, NEW p32
  PROVE  Timed(type, p16, p32) \subseteq 44..95
  <1>1. Field(Bits(type), 44, 4) \subseteq 44..47
    BY FieldBound
  <1>2. Shl(p16, 48) \subseteq 48..63
    BY DEF Shl
  <1>3. Field(p32, 64, 32) \subseteq 64..95
    BY FieldBound
  <1> QED  BY <1>1, <1>2, <1>3 DEF Timed

LEMMA PeriodBound ==
  ASSUME NEW p, p.shape \in 0..4, NEW left
  PROVE  Period(p, left) \subseteq 44..95
  <1>1. \A M1, M2 : Peri16(M1, M2) \subseteq 0..15
    BY DEF Peri16, Low
  <1>2. {} \subseteq 0..15
    OBVIOUS
  <1>3. CASE p.shape = 0
    BY <1>3, UnsetBound DEF Period
  <1>4. CASE p.shape = 1
    BY <1>1, <1>4, TimedBound DEF Period
  <1>5. CASE p.shape = 2
    BY <1>2, <1>5, TimedBound DEF Period
  <1>6. CASE p.shape = 3
    BY <1>2, <1>6, TimedBound DEF Period
  <1>7. CASE p.shape = 4
    BY <1>7, UnsetBound DEF Period
  <1> QED  BY <1>3, <1>4, <1>5, <1>6, <1>7

LEMMA CRFits ==
  ASSUME NEW r, r.VPeriod.shape \in 0..4, NEW left
  PROVE  CRData(r, left) \subseteq Within(16)
  <1>1. Field(r.CRID, 0, 40) \subseteq 0..39
    BY FieldBound
  <1>2. Field(Bits(r.VPDir), 40, 2) \subseteq 40..41
    BY FieldBound
  <1>3. Field(Approx(r.VP_Appro), 42, 2) \subseteq 42..43
    BY FieldBound
  <1>4. Period(r.VPeriod, left) \subseteq 44..95
    BY PeriodBound
  <1>5. Field(r.Veh_Type, 96, 32) \subseteq 96..127
    BY FieldBound
  <1> QED  BY <1>1, <1>2, <1>3, <1>4, <1>5 DEF CRData, Within

LEMMA LanesType ==
  ASSUME NEW r, r.TollMode \in Seq(Nat), r.TollCard \in Seq(Nat)
  PROVE  Len(Lanes(r)) \in Nat
  <1>1. \A s, t \in Seq(Nat) : Len(s \o t) \in Nat
    OBVIOUS
  <1> QED  BY <1>1 DEF Lanes

LEMMA PaddedHolds ==
  ASSUME NEW n \in Nat
  PROVE  Padded(n) \in Nat /\ Padded(n) >= n
  BY DEF Padded

LEMMA LanesBound ==
  ASSUME NEW r, NEW n \in Nat, n = Len(Lanes(r)), NEW m \in Nat, m >= n
  PROVE  LaneBytes(r) \subseteq 64..(8 * (8 + m) - 1)
  <1> SUFFICES ASSUME NEW k \in 1..n
               PROVE  Field(Bits(Lanes(r)[k]), 56 + 8 * k, 8)
                        \subseteq 64..(8 * (8 + m) - 1)
    BY DEF LaneBytes
  <1>1. Field(Bits(Lanes(r)[k]), 56 + 8 * k, 8)
          \subseteq (56 + 8 * k)..(56 + 8 * k + 8 - 1)
    BY FieldBound
  <1> QED  BY <1>1

LEMMA TollETAHead ==
  ASSUME NEW r, NEW left
  PROVE  Field(r.CondID, 0, 40) \cup Field(Bits(r.TollType), 40, 4)
           \cup LaneNum(r, left) \cup Unset(left, 48, 16) \subseteq 0..63
  <1>1. Field(r.CondID, 0, 40) \subseteq 0..39
    BY FieldBound
  <1>2. Field(Bits(r.TollType), 40, 4) \subseteq 40..43
    BY FieldBound
  <1>3. LaneNum(r, left) \subseteq 44..47
    BY FieldBound, UnsetBound DEF LaneNum
  <1>4. Unset(left, 48, 16) \subseteq 48..63
    BY UnsetBound
  <1> QED  BY <1>1, <1>2, <1>3, <1>4

LEMMA TollETAFits ==
  ASSUME NEW r, Len(Lanes(r)) \in Nat, NEW left
  PROVE  /\ 8 + Padded(Len(Lanes(r))) \in Nat
         /\ TollETAData(r, left) \subseteq Within(8 + Padded(Len(Lanes(r))))
  <1>1. PICK n \in Nat : n = Len(Lanes(r))
    OBVIOUS
  <1>2. PICK m \in Nat : m = Padded(n) /\ m >= n
    BY PaddedHolds
  <1>3. LaneBytes(r) \subseteq 64..(8 * (8 + m) - 1)
    BY <1>1, <1>2, LanesBound
  <1>4. /\ 0..63 \subseteq 0..(8 * (8 + m) - 1)
        /\ 64..(8 * (8 + m) - 1) \subseteq 0..(8 * (8 + m) - 1)
        /\ 8 + m \in Nat
    OBVIOUS
  <1>5. TollETAData(r, left) \subseteq 0..(8 * (8 + m) - 1)
    BY <1>3, <1>4, TollETAHead, Zenon DEF TollETAData
  <1> QED  BY <1>1, <1>2, <1>4, <1>5, Zenon DEF Within

LEMMA TollPatternFits ==
  ASSUME NEW r, NEW left
  PROVE  TollPatternData(r, left) \subseteq Within(16)
  <1>1. Field(r.CondID, 0, 40) \subseteq 0..39
    BY FieldBound
  <1>2. Unset(left, 40, 24) \subseteq 40..63
    BY UnsetBound
  <1>3. Field(r.PaternNo, 64, 32) \subseteq 64..95
    BY FieldBound
  <1>4. Field(r.ArrowNo, 96, 32) \subseteq 96..127
    BY FieldBound
  <1> QED  BY <1>1, <1>2, <1>3, <1>4 DEF TollPatternData, Within

(* The two pieces of the link in fill bits 104 to 143 and no more. *)
LEMMA LinkInBound == \A B : LinkIn(B) \subseteq 104..143
  <1> SUFFICES ASSUME NEW B  PROVE LinkIn(B) \subseteq 104..143
    OBVIOUS
  <1>1. Field(B, 104, 24) \subseteq 104..127
    BY FieldBound
  <1>2. Shl(Low(B, 40) \ (0..23), 104) \subseteq 104..143
    BY DEF Shl, Low
  <1> QED  BY <1>1, <1>2 DEF LinkIn

LEMMA JunctionFits ==
  ASSUME NEW r, NEW left
  PROVE  JunctionData(r, left) \subseteq Within(24)
  <1>1. Field(r.ID, 0, 40) \subseteq 0..39
    BY FieldBound
  <1>2. Unset(left, 40, 8) \subseteq 40..47
    BY UnsetBound
  <1>3. Field(Bits(r.AccessType), 48, 4) \subseteq 48..51
    BY FieldBound
  <1>4. Field(Bits(r.Attr), 52, 4) \subseteq 52..55
    BY FieldBound
  <1>5. Field(Estab(r.Estab_Item), 56, 8) \subseteq 56..63
    BY FieldBound
  <1>6. Field(r.NodeID, 64, 40) \subseteq 64..103
    BY FieldBound
  <1>7. LinkIn(r.inLinkID) \subseteq 104..143
    BY LinkInBound
  <1>8. Field(r.outLinkID, 144, 40) \subseteq 144..183
    BY FieldBound
  <1>9. Unset(left, 184, 8) \subseteq 184..191
    BY UnsetBound
  <1> QED  BY <1>1, <1>2, <1>3, <1>4, <1>5, <1>6, <1>7, <1>8, <1>9
           DEF JunctionData, Within

(* The bits of a record lie in the bytes that are written for it. *)
LEMMA RecordFits ==
  ASSUME table \in Tables, NEW k \in 1..Len(rows), NEW left
  PROVE  /\ Size(rows[k]) \in Nat
         /\ Data(rows[k], left) \subseteq Within(Size(rows[k]))
  <1> DEFINE r == rows[k]
  <1>1. k \in DOMAIN table.rows /\ table.kind \in Kinds
    BY TablesAssumption DEF rows
  <1>2. CASE table.kind = "CR"
    <2>1. r.VPeriod.shape \in 0..4
      BY <1>1, <1>2, RowsAssumption, Zenon DEF rows
    <2>2. CRData(r, left) \subseteq Within(16)
      BY <2>1, CRFits
    <2>3. Size(r) = 16 /\ Data(r, left) = CRData(r, left)
      BY <1>2 DEF Size, Data
    <2> QED  BY <2>2, <2>3
  <1>3. CASE table.kind = "Toll_ETA"
    <2>1. Len(Lanes(r)) \in Nat
      BY <1>1, <1>3, RowsAssumption, LanesType DEF rows
    <2>2. /\ 8 + Padded(Len(Lanes(r))) \in Nat
          /\ TollETAData(r, left) \subseteq Within(8 + Padded(Len(Lanes(r))))
      BY <2>1, TollETAFits, Zenon
    <2>3. /\ Size(r) = 8 + Padded(Len(Lanes(r)))
          /\ Data(r, left) = TollETAData(r, left)
      BY <1>3 DEF Size, Data
    <2> QED  BY <2>2, <2>3, Zenon
  <1>4. CASE table.kind = "Toll_Pattern"
    <2>1. Size(r) = 16 /\ Data(r, left) = TollPatternData(r, left)
      BY <1>4 DEF Size, Data
    <2> QED  BY <2>1, TollPatternFits
  <1>5. CASE table.kind = "HW_Junction"
    <2>1. Size(r) = 24 /\ Data(r, left) = JunctionData(r, left)
      BY <1>5 DEF Size, Data
    <2> QED  BY <2>1, JunctionFits
  <1> QED  BY <1>1, <1>2, <1>3, <1>4, <1>5 DEF Kinds

-----------------------------------------------------------------------------
(* Bytes *)

IsBytes(f) == f.size \in Nat /\ f.bits \subseteq Within(f.size)

LEMMA WrittenType ==
  ASSUME NEW f, IsBytes(f), NEW n \in Nat, NEW bits, bits \subseteq Within(n)
  PROVE  IsBytes(Written(f, n, bits))
  <1>1. Within(f.size) \subseteq Within(f.size + n)
    BY DEF IsBytes, Within
  <1>2. Shl(bits, 8 * f.size) \subseteq Within(f.size + n)
    BY DEF IsBytes, Within, Shl
  <1> QED  BY <1>1, <1>2 DEF IsBytes, Written

LEMMA PrefixType ==
  ASSUME NEW f, IsBytes(f), NEW n \in 0..f.size
  PROVE  IsBytes(Prefix(f, n))
  BY DEF IsBytes, Prefix, Low, Within

LEMMA NoBytesType ==
  IsBytes(NoBytes) /\ \A n \in 0..NoBytes.size : Prefix(NoBytes, n) = NoBytes
  BY DEF IsBytes, NoBytes, Prefix, Low, Within

-----------------------------------------------------------------------------
(* TypeOK is inductive by itself. *)
Types ==
  /\ table \in Tables
  /\ pc \in {"prepare", "open", "rows", "done", "aborted"}
  /\ cursor \in 0..Len(rows)
  /\ IsBytes(out) /\ IsBytes(file)
  /\ good \in BOOLEAN /\ ok \in BOOLEAN
  /\ cursor = 0 => out = NoBytes

LEMMA TypesIsTypeOK == Types <=> TypeOK
  BY DEF Types, TypeOK, IsBytes, Within

LEMMA TypesInit == Init => Types
  <1> SUFFICES ASSUME Init  PROVE Types
    OBVIOUS
  <1>1. Len(rows) \in Nat
    BY TablesAssumption DEF Init, rows
  <1>2. IsBytes(Old)
    BY DEF IsBytes, Old, Within
  <1>3. 0 \in 0..Len(rows)
    BY <1>1
  <1>4. cursor = 0 /\ out = NoBytes /\ file = Old
    BY DEF Init
  <1>5. IsBytes(out) /\ IsBytes(file)
    BY <1>2, <1>4, NoBytesType
  <1>6. pc = "prepare" /\ good = TRUE /\ ok = FALSE /\ table \in Tables
    BY DEF Init
  <1> QED  BY <1>3, <1>4, <1>5, <1>6, Zenon DEF Types

(* Appending the record of the next row keeps bytes bytes. *)
LEMMA AppendedType ==
  ASSUME Types, NEW k \in 1..Len(rows), NEW left
  PROVE  IsBytes(Appended(rows[k], left))
  <1>1. /\ Size(rows[k]) \in Nat
        /\ Data(rows[k], left) \subseteq Within(Size(rows[k]))
    BY RecordFits DEF Types
  <1>2. IsBytes(out)
    BY DEF Types
  <1>3. IsBytes(Written(out, Size(rows[k]), Data(rows[k], left)))
    BY <1>1, <1>2, WrittenType
  <1> QED  BY <1>2, <1>3, Zenon DEF Appended

(* What is written of a bad row is a part of its record. *)
LEMMA EarlyPart ==
  ASSUME Types, NEW k \in 1..Len(rows), NEW left, NEW n \in 0..(out.size + Early)
  PROVE  n \in 0..Appended(rows[k], left).size
  <1>1. PICK size \in Nat : size = out.size
    BY DEF Types, IsBytes
  <1>2. Size(rows[k]) \in Nat
    BY RecordFits DEF Types
  <1>3. CASE good /\ table.kind = "HW_Junction"
    <2>1. Size(rows[k]) = 24 /\ Early = 16
      BY <1>3 DEF Size, Early
    <2>2. Appended(rows[k], left).size = size + 24
      BY <1>1, <1>3, <2>1 DEF Appended, Written
    <2> QED  BY <1>1, <2>1, <2>2
  <1>4. CASE good /\ table.kind # "HW_Junction"
    <2>1. Early = 0
      BY <1>4 DEF Early
    <2>2. Appended(rows[k], left).size = size + Size(rows[k])
      BY <1>1, <1>4 DEF Appended, Written
    <2> QED  BY <1>1, <1>2, <2>1, <2>2
  <1>5. CASE ~good
    <2>1. Early = 0 /\ Appended(rows[k], left) = out
      BY <1>5 DEF Early, Appended
    <2> QED  BY <1>1, <2>1
  <1> QED  BY <1>3, <1>4, <1>5

LEMMA NextRow == Types /\ cursor < Len(rows) => cursor + 1 \in 1..Len(rows)
  BY TablesAssumption DEF Types, rows

LEMMA TypesExportRow == Types /\ ExportRow => Types'
  <1> SUFFICES ASSUME Types, ExportRow  PROVE Types'
    OBVIOUS
  <1>1. Len(rows) \in Nat /\ rows' = rows
    BY TablesAssumption DEF Types, ExportRow, rows
  <1>2. cursor' \in 1..Len(rows)
    BY <1>1 DEF Types, ExportRow
  <1>3. IsBytes(out)'
    <2>1. PICK left \in Leftovers : out' = Appended(rows[cursor + 1], left)
      BY DEF ExportRow
    <2>2. cursor + 1 \in 1..Len(rows)
      BY NextRow DEF ExportRow
    <2>3. IsBytes(Appended(rows[cursor + 1], left))
      BY <2>2, AppendedType
    <2>4. IsBytes(out')
      BY <2>1, <2>3
    <2> QED  BY <2>4 DEF IsBytes
  <1>4. IsBytes(file)'
    BY DEF Types, ExportRow, IsBytes
  <1> QED  BY <1>1, <1>2, <1>3, <1>4 DEF Types, ExportRow

LEMMA TypesStep == Types /\ [Next]_vars => Types'
  <1> SUFFICES ASSUME Types, [Next]_vars  PROVE Types'
    OBVIOUS
  <1>1. Len(rows) \in Nat
    BY TablesAssumption DEF Types, rows
  <1>2. CASE Prepare \/ PrepareFails \/ OpenFails
    BY <1>2 DEF Types, IsBytes, Prepare, PrepareFails, OpenFails, rows
  <1>3. CASE OpenFile
    <2>1. IsBytes(file)'
      BY <1>3, NoBytesType DEF OpenFile, IsBytes
    <2> QED  BY <1>3, <2>1 DEF Types, IsBytes, OpenFile, rows
  <1>4. CASE ExportRow
    BY <1>4, TypesExportRow
  <1>5. CASE WriteFails
    <2>1. PICK n \in 0..out.size : out' = Prefix(out, n)
      BY <1>5 DEF WriteFails
    <2>2. IsBytes(Prefix(out, n))
      BY PrefixType DEF Types
    <2>3. IsBytes(out)'
      BY <2>1, <2>2 DEF IsBytes
    <2>4. cursor = 0 => out' = NoBytes
      BY <2>1, NoBytesType DEF Types
    <2> QED  BY <1>5, <2>3, <2>4 DEF Types, IsBytes, WriteFails, rows
  <1>6. CASE BadNumber
    <2>1. PICK left \in Leftovers, n \in 0..(out.size + Early) :
            file' = Prefix(Appended(rows[cursor + 1], left), n)
      BY <1>6 DEF BadNumber
    <2>2. cursor + 1 \in 1..Len(rows)
      BY <1>6, NextRow DEF BadNumber
    <2>3. IsBytes(Appended(rows[cursor + 1], left))
      BY <2>2, AppendedType
    <2>4. n \in 0..Appended(rows[cursor + 1], left).size
      BY <2>2, EarlyPart
    <2>5. IsBytes(Prefix(Appended(rows[cursor + 1], left), n))
      BY <2>3, <2>4, PrefixType
    <2>6. IsBytes(file)'
      BY <2>1, <2>5 DEF IsBytes
    <2> QED  BY <1>6, <2>6 DEF Types, IsBytes, BadNumber, rows
  <1>7. CASE EndOfRows
    BY <1>7 DEF Types, IsBytes, EndOfRows, rows
  <1>8. CASE Done \/ UNCHANGED vars
    BY <1>8 DEF Types, IsBytes, Done, vars, rows
  <1> QED  BY <1>2, <1>3, <1>4, <1>5, <1>6, <1>7, <1>8 DEF Next

(* For every table, whatever its rows hold and whatever fails: every       *)
(* variable keeps its type and no record reaches beyond the bytes that are *)
(* written for it.                                                         *)
THEOREM TypeCorrect == Spec => []TypeOK
  <1>1. Types => TypeOK
    BY TypesIsTypeOK
  <1> QED  BY <1>1, TypesInit, TypesStep, PTL DEF Spec

-----------------------------------------------------------------------------
(* The file is opened last: as long as a call may still return false       *)
(* because of the database or the file, it has not touched the file.       *)
Untouched ==
  /\ pc \in {"prepare", "open"} => file = Old /\ ~ok
  /\ pc = "done" /\ ~ok => file = Old

LEMMA UntouchedStep == Untouched /\ [Next]_vars => Untouched'
  <1> SUFFICES ASSUME Untouched, [Next]_vars  PROVE Untouched'
    OBVIOUS
  <1>1. CASE Prepare \/ PrepareFails \/ OpenFails
    BY <1>1 DEF Untouched, Prepare, PrepareFails, OpenFails
  <1>2. CASE OpenFile
    BY <1>2 DEF Untouched, OpenFile
  <1>3. CASE ExportRow \/ WriteFails
    BY <1>3 DEF Untouched, ExportRow, WriteFails
  <1>4. CASE BadNumber \/ EndOfRows
    BY <1>4 DEF Untouched, BadNumber, EndOfRows
  <1>5. CASE Done \/ UNCHANGED vars
    BY <1>5 DEF Untouched, Done, vars
  <1> QED  BY <1>1, <1>2, <1>3, <1>4, <1>5 DEF Next

(* For every table and every failure: a call that returns false leaves the *)
(* file of an earlier export as it was.                                    *)
THEOREM FailureKeepsFile == Spec => []OldFileKept
  <1>1. Init => Untouched
    BY DEF Init, Untouched
  <1>2. Untouched => OldFileKept
    BY DEF Untouched, OldFileKept
  <1> QED  BY <1>1, <1>2, UntouchedStep, PTL DEF Spec

-----------------------------------------------------------------------------
(* Induction over the numbers, for a set of them: every set of numbers has *)
(* a least one.                                                            *)

Less == {ss \in Nat \X Nat : ss[1] < ss[2]}

LEMMA Least ==
  ASSUME NEW T, T \subseteq Nat, T # {}
  PROVE  \E x \in T : \A y \in T : x <= y
  <1>1. IsWellFoundedOn(Less, Nat)
    BY NatLessThanWellFounded DEF OpToRel, Less
  <1>2. PICK x \in T : \A y \in T : ~(<<y, x>> \in Less)
    BY <1>1, WFMin
  <1>3. \A y \in T : <<y, x>> \in Nat \X Nat
    OBVIOUS
  <1>4. \A y \in T : ~ (y < x)
    BY <1>2, <1>3 DEF Less
  <1> QED  BY <1>2, <1>4

LEMMA Induction ==
  ASSUME NEW T, 0 \in T, \A n \in Nat : n \in T => n + 1 \in T
  PROVE  Nat \subseteq T
  <1> SUFFICES ASSUME Nat \ T # {}  PROVE FALSE
    OBVIOUS
  <1>1. PICK x \in Nat \ T : \A y \in Nat \ T : x <= y
    BY Least
  <1>2. x # 0 /\ x - 1 \in Nat
    OBVIOUS
  <1>3. x - 1 \in T
    BY <1>1, <1>2
  <1>4. (x - 1) + 1 \in T
    BY <1>2, <1>3
  <1> QED  BY <1>4

(* The recursive function Start of TableReader exists, so that its         *)
(* equation holds.                                                         *)
LEMMA StartExists ==
  ASSUME NEW f, NEW n \in Nat
  PROVE  \E s : s = [i \in 1..n |-> IF i = 1 THEN 0
                                    ELSE s[i - 1] + SizeAt(f, s[i - 1])]
  <1> DEFINE Good(m) == \E s : s = [i \in 1..m |-> IF i = 1 THEN 0
                                    ELSE s[i - 1] + SizeAt(f, s[i - 1])]
             T == {m \in Nat : Good(m)}
  <1>1. 0 \in T
    <2>1. [i \in 1..0 |-> 0] = [i \in 1..0 |-> IF i = 1 THEN 0
       ELSE [j \in 1..0 |-> 0][i - 1] + SizeAt(f, [j \in 1..0 |-> 0][i - 1])]
      OBVIOUS
    <2>2. Good(0)
      BY <2>1
    <2> QED BY <2>2
  <1>2. ASSUME NEW m \in Nat, m \in T  PROVE m + 1 \in T
    <2>1. PICK s : s = [i \in 1..m |-> IF i = 1 THEN 0
                                    ELSE s[i - 1] + SizeAt(f, s[i - 1])]
      BY <1>2
    <2> DEFINE z == IF m = 0 THEN 0 ELSE s[m] + SizeAt(f, s[m])
               t == [i \in 1..(m + 1) |-> IF i = m + 1 THEN z ELSE s[i]]
    <2>2. ASSUME NEW i \in 1..(m + 1)
          PROVE  t[i] = IF i = 1 THEN 0 ELSE t[i - 1] + SizeAt(f, t[i - 1])
      <3>1. CASE i = m + 1
        <4>1. i # 1 => t[i - 1] = s[m]
          BY <3>1
        <4>2. t[i] = z
          BY <3>1
        <4>3. m = 0 <=> i = 1
          BY <3>1
        <4> QED BY <4>1, <4>2, <4>3
      <3>2. CASE i \in 1..m
        <4>1. t[i] = s[i] /\ (i # 1 => t[i - 1] = s[i - 1])
          BY <3>2
        <4>2. s[i] = IF i = 1 THEN 0 ELSE s[i - 1] + SizeAt(f, s[i - 1])
          BY <3>2, <2>1
        <4> QED BY <4>1, <4>2
      <3> QED BY <3>1, <3>2
    <2>3. t = [i \in 1..(m + 1) |-> t[i]]
      OBVIOUS
    <2> HIDE DEF t
    <2>4. t = [i \in 1..(m + 1) |-> IF i = 1 THEN 0 ELSE t[i - 1] + SizeAt(f, t[i - 1])]
      BY <2>2, <2>3
    <2>5. Good(m + 1)
      BY <2>4
    <2> QED BY <2>5
  <1> HIDE DEF Good
  <1>3. n \in T
    BY <1>1, <1>2, Induction
  <1> QED BY <1>3 DEF Good

LEMMA StartDef ==
  ASSUME NEW f, Len(rows) \in Nat
  PROVE  \A i \in 1..(Len(rows) + 1) :
     Start(f)[i] = IF i = 1 THEN 0
                   ELSE Start(f)[i - 1] + SizeAt(f, Start(f)[i - 1])
  <1>1. Len(rows) + 1 \in Nat
    OBVIOUS
  <1>2. \E s : s = [i \in 1..(Len(rows) + 1) |-> IF i = 1 THEN 0
                                    ELSE s[i - 1] + SizeAt(f, s[i - 1])]
    BY <1>1, StartExists
  <1>3. Start(f) = [i \in 1..(Len(rows) + 1) |-> IF i = 1 THEN 0
                                    ELSE Start(f)[i - 1] + SizeAt(f, Start(f)[i - 1])]
    BY <1>2 DEF Start
  <1> QED BY <1>3

-----------------------------------------------------------------------------
(* Numbers and their bits *)

LEMMA LowPowers ==
  ASSUME NEW i
  PROVE  /\ i = 0 => 2^i = 1
         /\ i = 1 => 2^i = 2
         /\ i = 2 => 2^i = 4
         /\ i = 3 => 2^i = 8
         /\ i = 4 => 2^i = 16
         /\ i = 5 => 2^i = 32
         /\ i = 6 => 2^i = 64
         /\ i = 7 => 2^i = 128
  <1>1. /\ 2^0 = 1 /\ 2^1 = 2 /\ 2^2 = 4 /\ 2^3 = 8
        /\ 2^4 = 16 /\ 2^5 = 32 /\ 2^6 = 64 /\ 2^7 = 128
    OBVIOUS
  <1> QED  BY <1>1, Zenon

(* Named, so that the provers do not compute the powers.                   *)
IsLarge(i) == 2^i \in Nat /\ 2^i >= 256

LEMMA HighPowers == \A i \in 8..30 : IsLarge(i)
  <1>1. /\ IsLarge(8) /\ IsLarge(9) /\ IsLarge(10) /\ IsLarge(11) /\ IsLarge(12)
        /\ IsLarge(13) /\ IsLarge(14) /\ IsLarge(15) /\ IsLarge(16) /\ IsLarge(17)
        /\ IsLarge(18) /\ IsLarge(19) /\ IsLarge(20) /\ IsLarge(21) /\ IsLarge(22)
        /\ IsLarge(23) /\ IsLarge(24) /\ IsLarge(25) /\ IsLarge(26) /\ IsLarge(27)
        /\ IsLarge(28) /\ IsLarge(29) /\ IsLarge(30)
    BY DEF IsLarge
  <1>2. \A i \in 8..30 :
          \/ i = 8 \/ i = 9 \/ i = 10 \/ i = 11 \/ i = 12 \/ i = 13
          \/ i = 14 \/ i = 15 \/ i = 16 \/ i = 17 \/ i = 18 \/ i = 19
          \/ i = 20 \/ i = 21 \/ i = 22 \/ i = 23 \/ i = 24 \/ i = 25
          \/ i = 26 \/ i = 27 \/ i = 28 \/ i = 29 \/ i = 30
    OBVIOUS
  <1> QED  BY <1>1, <1>2, Zenon

(* A number below a power of two has no bits from that power on. *)
LEMMA BitsBelow ==
  ASSUME NEW n \in Nat
  PROVE  /\ n < 2   => Bits(n) \subseteq 0..0
         /\ n < 4   => Bits(n) \subseteq 0..1
         /\ n < 16  => Bits(n) \subseteq 0..3
         /\ n < 32  => Bits(n) \subseteq 0..4
         /\ n < 64  => Bits(n) \subseteq 0..5
         /\ n < 256 => Bits(n) \subseteq 0..7
  <1> SUFFICES ASSUME NEW i \in Bits(n)
               PROVE  /\ n < 2   => i < 1
                      /\ n < 4   => i < 2
                      /\ n < 16  => i < 4
                      /\ n < 32  => i < 5
                      /\ n < 64  => i < 6
                      /\ n < 256 => i < 8
    BY BitsType
  <1>1. i \in 0..30 /\ (n \div 2^i) % 2 = 1
    BY DEF Bits
  <1>2. CASE i \in 8..30
    <2>1. PICK w \in Nat : w = 2^i /\ w >= 256
      BY <1>2, HighPowers DEF IsLarge
    <2>2. n < w => n \div w = 0
      BY <2>1
    <2>3. n >= w
      BY <1>1, <2>1, <2>2
    <2> QED  BY <1>2, <2>1, <2>3
  <1>3. CASE i \in 0..7
    <2>1. i = 0 \/ i = 1 \/ i = 2 \/ i = 3 \/ i = 4 \/ i = 5 \/ i = 6 \/ i = 7
      BY <1>3
    <2>2. /\ i = 0 => (n \div 1) % 2 = 1
          /\ i = 1 => (n \div 2) % 2 = 1
          /\ i = 2 => (n \div 4) % 2 = 1
          /\ i = 3 => (n \div 8) % 2 = 1
          /\ i = 4 => (n \div 16) % 2 = 1
          /\ i = 5 => (n \div 32) % 2 = 1
          /\ i = 6 => (n \div 64) % 2 = 1
          /\ i = 7 => (n \div 128) % 2 = 1
      BY <1>1, LowPowers, Zenon
    <2> QED  BY <2>1, <2>2
  <1> QED  BY <1>1, <1>2, <1>3

(* Bits(n) says whether bit k of n is set. *)
LEMMA BitIs ==
  ASSUME NEW n
  PROVE  /\ 0 \in Bits(n) <=> (n \div 1) % 2 = 1
         /\ 1 \in Bits(n) <=> (n \div 2) % 2 = 1
         /\ 2 \in Bits(n) <=> (n \div 4) % 2 = 1
         /\ 3 \in Bits(n) <=> (n \div 8) % 2 = 1
         /\ 4 \in Bits(n) <=> (n \div 16) % 2 = 1
         /\ 5 \in Bits(n) <=> (n \div 32) % 2 = 1
  BY DEF Bits

LEMMA BitsInjective ==
  ASSUME NEW m \in 0..63, NEW n \in 0..63, Bits(m) = Bits(n)
  PROVE  m = n
  <1>1. /\ (m \div 1) % 2 = 1 <=> (n \div 1) % 2 = 1
        /\ (m \div 2) % 2 = 1 <=> (n \div 2) % 2 = 1
        /\ (m \div 4) % 2 = 1 <=> (n \div 4) % 2 = 1
        /\ (m \div 8) % 2 = 1 <=> (n \div 8) % 2 = 1
        /\ (m \div 16) % 2 = 1 <=> (n \div 16) % 2 = 1
        /\ (m \div 32) % 2 = 1 <=> (n \div 32) % 2 = 1
    BY BitIs, Zenon
  <1> QED  BY <1>1

(* The numbers below 16 have all sets of four bits. *)
LEMMA BitsOnto ==
  ASSUME NEW B, B \subseteq 0..3
  PROVE  \E n \in 0..15 : Bits(n) = B
  <1> DEFINE d(i, v) == IF i \in B THEN v ELSE 0
             n == d(0, 1) + d(1, 2) + d(2, 4) + d(3, 8)
  <1>1. n \in 0..15
    OBVIOUS
  <1>2. /\ (n \div 1) % 2 = 1 <=> 0 \in B
        /\ (n \div 2) % 2 = 1 <=> 1 \in B
        /\ (n \div 4) % 2 = 1 <=> 2 \in B
        /\ (n \div 8) % 2 = 1 <=> 3 \in B
    OBVIOUS
  <1> HIDE DEF n
  <1>3. Bits(n) \subseteq 0..3
    BY <1>1, BitsBelow
  <1>4. \A i \in 0..3 : i \in Bits(n) <=> i \in B
    <2>1. /\ 0 \in Bits(n) <=> 0 \in B
          /\ 1 \in Bits(n) <=> 1 \in B
          /\ 2 \in Bits(n) <=> 2 \in B
          /\ 3 \in Bits(n) <=> 3 \in B
      BY <1>2, BitIs, Zenon
    <2>2. \A i \in 0..3 : i = 0 \/ i = 1 \/ i = 2 \/ i = 3
      OBVIOUS
    <2> QED  BY <2>1, <2>2, Zenon
  <1>5. Bits(n) = B
    BY <1>3, <1>4
  <1> QED  BY <1>1, <1>5

-----------------------------------------------------------------------------
(* Fields *)

(* The w bits from bit p of D on are those of B. *)
Holds(D, p, w, B) == \A b \in 0..(w - 1) : p + b \in D <=> b \in B

LEMMA FieldHolds ==
  ASSUME NEW B, NEW p \in Nat, NEW w \in Nat
  PROVE  Holds(Field(B, p, w), p, w, B)
  BY DEF Holds, Field, Shl, Low

(* A field among others that do not reach into it. *)
LEMMA HoldsAmong ==
  ASSUME NEW D, NEW A, NEW B, NEW p \in Nat, NEW w \in Nat,
         Holds(A, p, w, B), A \subseteq D,
         \A b \in p..(p + w - 1) : b \in D => b \in A
  PROVE  Holds(D, p, w, B)
  BY DEF Holds

(* The record of size bytes at byte at of f is D. *)
RecordAt(f, at, size, D) ==
  \A b \in 0..(8 * size - 1) : 8 * at + b \in f.bits <=> b \in D

(* The reader of w bits at x gets B if these bits are those of B.          *)
LEMMA BitsRead ==
  ASSUME NEW f, NEW x \in Nat, NEW w \in Nat, NEW B, B \subseteq 0..(w - 1),
         \A b \in 0..(w - 1) : x + b \in f.bits <=> b \in B
  PROVE  FieldAt(f, x, w) = B
  <1>1. ASSUME NEW y \in FieldAt(f, x, w)  PROVE y \in B
    <2>1. PICK c \in f.bits \cap (x..(x + w - 1)) : y = c - x
      BY DEF FieldAt
    <2>2. y \in 0..(w - 1) /\ c = x + y
      BY <2>1
    <2> QED  BY <2>1, <2>2
  <1>2. ASSUME NEW y \in B  PROVE y \in FieldAt(f, x, w)
    <2>1. y \in 0..(w - 1)
      OBVIOUS
    <2>2. PICK c \in x..(x + w - 1) : c = x + y
      <3>1. x + y \in x..(x + w - 1)
        BY <2>1
      <3> QED  BY <3>1
    <2>3. c \in f.bits /\ y = c - x
      BY <2>1, <2>2
    <2> QED  BY <2>2, <2>3 DEF FieldAt
  <1> QED  BY <1>1, <1>2

LEMMA FieldRead ==
  ASSUME NEW f, NEW at \in Nat, NEW size \in Nat, NEW D,
         RecordAt(f, at, size, D),
         NEW p \in Nat, NEW w \in Nat, p + w <= 8 * size,
         NEW B, B \subseteq 0..(w - 1), Holds(D, p, w, B)
  PROVE  FieldAt(f, 8 * at + p, w) = B
  <1>1. PICK x \in Nat : x = 8 * at + p
    <2>1. 8 * at + p \in Nat
      OBVIOUS
    <2> QED  BY <2>1
  <1>2. ASSUME NEW b \in 0..(w - 1)  PROVE x + b \in f.bits <=> b \in B
    <2>1. p + b \in 0..(8 * size - 1) /\ 8 * at + (p + b) = x + b
      BY <1>1
    <2>2. 8 * at + (p + b) \in f.bits <=> p + b \in D
      BY <2>1 DEF RecordAt
    <2> QED  BY <2>1, <2>2 DEF Holds
  <1>3. FieldAt(f, x, w) = B
    BY <1>2, BitsRead
  <1> QED  BY <1>1, <1>3

-----------------------------------------------------------------------------
(* The record of a CR *)

LEMMA CRHolds ==
  ASSUME NEW r, r.VPeriod.shape \in 0..4, NEW left
  PROVE  /\ Holds(CRData(r, left), 0, 40, r.CRID)
         /\ Holds(CRData(r, left), 40, 2, Bits(r.VPDir))
         /\ Holds(CRData(r, left), 42, 2, Approx(r.VP_Appro))
         /\ Holds(CRData(r, left), 96, 32, r.Veh_Type)
         /\ \A b \in 44..95 :
              b \in CRData(r, left) <=> b \in Period(r.VPeriod, left)
  <1> DEFINE D  == CRData(r, left)
             F1 == Field(r.CRID, 0, 40)
             F2 == Field(Bits(r.VPDir), 40, 2)
             F3 == Field(Approx(r.VP_Appro), 42, 2)
             F4 == Period(r.VPeriod, left)
             F5 == Field(r.Veh_Type, 96, 32)
  <1>1. D = F1 \cup F2 \cup F3 \cup F4 \cup F5
    BY DEF CRData
  <1>2. F1 \subseteq 0..39 /\ F2 \subseteq 40..41 /\ F3 \subseteq 42..43
        /\ F5 \subseteq 96..127
    BY FieldBound
  <1>3. F4 \subseteq 44..95
    BY PeriodBound
  <1>4. /\ Holds(F1, 0, 40, r.CRID) /\ Holds(F2, 40, 2, Bits(r.VPDir))
        /\ Holds(F3, 42, 2, Approx(r.VP_Appro)) /\ Holds(F5, 96, 32, r.Veh_Type)
    BY FieldHolds
  <1> HIDE DEF D, F1, F2, F3, F4, F5
  <1>5. /\ \A b \in 0..(0 + 40 - 1) : b \in D => b \in F1
        /\ \A b \in 40..(40 + 2 - 1) : b \in D => b \in F2
        /\ \A b \in 42..(42 + 2 - 1) : b \in D => b \in F3
        /\ \A b \in 96..(96 + 32 - 1) : b \in D => b \in F5
        /\ \A b \in 44..95 : b \in D <=> b \in F4
    BY <1>1, <1>2, <1>3
  <1>6. F1 \subseteq D /\ F2 \subseteq D /\ F3 \subseteq D /\ F5 \subseteq D
    BY <1>1
  <1>7. 0 \in Nat /\ 40 \in Nat /\ 42 \in Nat /\ 96 \in Nat /\ 2 \in Nat /\ 32 \in Nat
    OBVIOUS
  <1>8. Holds(D, 0, 40, r.CRID) /\ Holds(D, 40, 2, Bits(r.VPDir))
        /\ Holds(D, 42, 2, Approx(r.VP_Appro)) /\ Holds(D, 96, 32, r.Veh_Type)
    BY <1>4, <1>5, <1>6, <1>7, HoldsAmong
  <1> QED  BY <1>5, <1>8 DEF D, F4

(* The three fields of a period that has a pattern. *)
LEMMA TimedHolds ==
  ASSUME NEW type, type \in 0..15, NEW p16, p16 \subseteq 0..15, NEW p32
  PROVE  /\ Holds(Timed(type, p16, p32), 44, 4, Bits(type))
         /\ Holds(Timed(type, p16, p32), 48, 16, p16)
         /\ Holds(Timed(type, p16, p32), 64, 32, p32)
  <1> DEFINE D == Timed(type, p16, p32)
             F1 == Field(Bits(type), 44, 4)
             F2 == Shl(p16, 48)
             F3 == Field(p32, 64, 32)
  <1>1. D = F1 \cup F2 \cup F3
    BY DEF Timed
  <1>2. F1 \subseteq 44..47 /\ F3 \subseteq 64..95
    BY FieldBound
  <1>3. F2 \subseteq 48..63
    BY DEF Shl
  <1>4. Holds(F1, 44, 4, Bits(type)) /\ Holds(F3, 64, 32, p32)
    BY FieldHolds
  <1>5. Holds(F2, 48, 16, p16)
    BY DEF Holds, Shl
  <1> HIDE DEF D, F1, F2, F3
  <1>6. /\ \A b \in 44..(44 + 4 - 1) : b \in D => b \in F1
        /\ \A b \in 48..(48 + 16 - 1) : b \in D => b \in F2
        /\ \A b \in 64..(64 + 32 - 1) : b \in D => b \in F3
    BY <1>1, <1>2, <1>3
  <1>7. F1 \subseteq D /\ F2 \subseteq D /\ F3 \subseteq D
    BY <1>1
  <1>8. 44 \in Nat /\ 48 \in Nat /\ 64 \in Nat /\ 4 \in Nat /\ 16 \in Nat /\ 32 \in Nat
    OBVIOUS
  <1>9. Holds(D, 44, 4, Bits(type)) /\ Holds(D, 48, 16, p16) /\ Holds(D, 64, 32, p32)
    BY <1>4, <1>5, <1>6, <1>7, <1>8, HoldsAmong
  <1> QED  BY <1>9 DEF D

(* A field in a field. *)
LEMMA HoldsInner ==
  ASSUME NEW D, NEW p \in Nat, NEW w \in Nat, NEW B, Holds(D, p, w, B),
         NEW q \in Nat, NEW v \in Nat, q + v <= w, NEW C, Holds(B, q, v, C)
  PROVE  Holds(D, p + q, v, C)
  <1> SUFFICES ASSUME NEW b \in 0..(v - 1)
               PROVE  p + q + b \in D <=> b \in C
    BY DEF Holds
  <1>1. q + b \in 0..(w - 1)
    OBVIOUS
  <1>2. p + (q + b) \in D <=> q + b \in B
    BY <1>1 DEF Holds
  <1>3. q + b \in B <=> b \in C
    BY DEF Holds
  <1>4. p + q + b = p + (q + b)
    OBVIOUS
  <1> QED  BY <1>2, <1>3, <1>4

LEMMA ShlHolds ==
  ASSUME NEW B, NEW p \in Nat, NEW w \in Nat, B \subseteq 0..(w - 1)
  PROVE  /\ Holds(Shl(B, p), p, w, B)
         /\ Shl(B, p) \subseteq p..(p + w - 1)
  BY DEF Holds, Shl

(* Hours below 32 and minutes below 64. *)
ClockOK(t) == Hour(t) \in 0..31 /\ Minute(t) \in 0..63

LEMMA ClockHolds ==
  ASSUME NEW t1, NEW t2, ClockOK(t1), ClockOK(t2)
  PROVE  /\ Holds(Clock(t1, t2), 10, 5, Bits(Hour(t1)))
         /\ Holds(Clock(t1, t2), 15, 5, Bits(Hour(t2)))
         /\ Holds(Clock(t1, t2), 20, 6, Bits(Minute(t1)))
         /\ Holds(Clock(t1, t2), 26, 6, Bits(Minute(t2)))
         /\ Clock(t1, t2) \subseteq 10..31
  <1> DEFINE D == Clock(t1, t2)
             F1 == Shl(Bits(Hour(t1)), 10)
             F2 == Shl(Bits(Hour(t2)), 15)
             F3 == Shl(Bits(Minute(t1)), 20)
             F4 == Shl(Bits(Minute(t2)), 26)
  <1>1. D = F1 \cup F2 \cup F3 \cup F4
    BY DEF Clock
  <1>2. /\ Bits(Hour(t1)) \subseteq 0..(5 - 1) /\ Bits(Hour(t2)) \subseteq 0..(5 - 1)
        /\ Bits(Minute(t1)) \subseteq 0..(6 - 1)
        /\ Bits(Minute(t2)) \subseteq 0..(6 - 1)
    BY BitsBelow DEF ClockOK
  <1>3. /\ 10 \in Nat /\ 15 \in Nat /\ 20 \in Nat /\ 26 \in Nat
        /\ 5 \in Nat /\ 6 \in Nat
    OBVIOUS
  <1>4. /\ Holds(F1, 10, 5, Bits(Hour(t1))) /\ F1 \subseteq 10..(10 + 5 - 1)
        /\ Holds(F2, 15, 5, Bits(Hour(t2))) /\ F2 \subseteq 15..(15 + 5 - 1)
        /\ Holds(F3, 20, 6, Bits(Minute(t1))) /\ F3 \subseteq 20..(20 + 6 - 1)
        /\ Holds(F4, 26, 6, Bits(Minute(t2))) /\ F4 \subseteq 26..(26 + 6 - 1)
    BY <1>2, <1>3, ShlHolds
  <1> HIDE DEF D, F1, F2, F3, F4
  <1>5. /\ \A b \in 10..(10 + 5 - 1) : b \in D => b \in F1
        /\ \A b \in 15..(15 + 5 - 1) : b \in D => b \in F2
        /\ \A b \in 20..(20 + 6 - 1) : b \in D => b \in F3
        /\ \A b \in 26..(26 + 6 - 1) : b \in D => b \in F4
        /\ D \subseteq 10..31
    BY <1>1, <1>4
  <1>6. F1 \subseteq D /\ F2 \subseteq D /\ F3 \subseteq D /\ F4 \subseteq D
    BY <1>1
  <1>7. /\ Holds(D, 10, 5, Bits(Hour(t1))) /\ Holds(D, 15, 5, Bits(Hour(t2)))
        /\ Holds(D, 20, 6, Bits(Minute(t1))) /\ Holds(D, 26, 6, Bits(Minute(t2)))
    BY <1>3, <1>4, <1>5, <1>6, HoldsAmong
  <1> QED  BY <1>5, <1>7 DEF D

(* D holds a type, months p16, a set of days X, and the times t1 and t2. *)
HoldsPeriod(D, type, p16, X, t1, t2) ==
  /\ Holds(D, 44, 4, Bits(type))
  /\ Holds(D, 48, 16, p16)
  /\ Holds(D, 64, 10, X)
  /\ Holds(D, 74, 5, Bits(Hour(t1)))   /\ Holds(D, 79, 5, Bits(Hour(t2)))
  /\ Holds(D, 84, 6, Bits(Minute(t1))) /\ Holds(D, 90, 6, Bits(Minute(t2)))

LEMMA TimedClockHolds ==
  ASSUME NEW type \in 0..15, NEW p16, p16 \subseteq 0..15,
         NEW X, X \subseteq 0..9, NEW t1, NEW t2, ClockOK(t1), ClockOK(t2)
  PROVE  HoldsPeriod(Timed(type, p16, X \cup Clock(t1, t2)), type, p16, X, t1, t2)
  <1> DEFINE C == Clock(t1, t2)
             B == X \cup C
             D == Timed(type, p16, B)
  <1>1. /\ Holds(D, 44, 4, Bits(type)) /\ Holds(D, 48, 16, p16)
        /\ Holds(D, 64, 32, B)
    BY TimedHolds
  <1> HIDE DEF D
  <1>2. /\ Holds(C, 10, 5, Bits(Hour(t1)))   /\ Holds(C, 15, 5, Bits(Hour(t2)))
        /\ Holds(C, 20, 6, Bits(Minute(t1))) /\ Holds(C, 26, 6, Bits(Minute(t2)))
        /\ C \subseteq 10..31
    BY ClockHolds
  <1> HIDE DEF C
  <1>3. Holds(B, 0, 10, X)
    BY <1>2 DEF Holds
  <1>4. C \subseteq B /\ \A b \in 10..31 : b \in B => b \in C
    OBVIOUS
  <1> HIDE DEF B
  <1>5. /\ \A b \in 10..(10 + 5 - 1) : b \in B => b \in C
        /\ \A b \in 15..(15 + 5 - 1) : b \in B => b \in C
        /\ \A b \in 20..(20 + 6 - 1) : b \in B => b \in C
        /\ \A b \in 26..(26 + 6 - 1) : b \in B => b \in C
    BY <1>4
  <1>6. /\ 0 \in Nat /\ 10 \in Nat /\ 15 \in Nat /\ 20 \in Nat /\ 26 \in Nat
        /\ 5 \in Nat /\ 6 \in Nat /\ 64 \in Nat /\ 32 \in Nat
        /\ 0 + 10 <= 32 /\ 10 + 5 <= 32 /\ 15 + 5 <= 32 /\ 20 + 6 <= 32 /\ 26 + 6 <= 32
    OBVIOUS
  <1>7. /\ Holds(B, 10, 5, Bits(Hour(t1)))   /\ Holds(B, 15, 5, Bits(Hour(t2)))
        /\ Holds(B, 20, 6, Bits(Minute(t1))) /\ Holds(B, 26, 6, Bits(Minute(t2)))
    BY <1>2, <1>4, <1>5, <1>6, HoldsAmong
  <1>8. /\ Holds(D, 64 + 0, 10, X)
        /\ Holds(D, 64 + 10, 5, Bits(Hour(t1)))
        /\ Holds(D, 64 + 15, 5, Bits(Hour(t2)))
        /\ Holds(D, 64 + 20, 6, Bits(Minute(t1)))
        /\ Holds(D, 64 + 26, 6, Bits(Minute(t2)))
    BY <1>1, <1>3, <1>6, <1>7, HoldsInner
  <1>9. 64 + 0 = 64 /\ 64 + 10 = 74 /\ 64 + 15 = 79 /\ 64 + 20 = 84 /\ 64 + 26 = 90
    OBVIOUS
  <1>10. HoldsPeriod(D, type, p16, X, t1, t2)
    BY <1>1, <1>8, <1>9 DEF HoldsPeriod
  <1> QED  BY <1>10 DEF D, B, C

(* What the documentation makes of the hours and minutes that are stored:  *)
(* 24 and 60 are no time at all.                                           *)
LEMMA LegalTimeRead ==
  ASSUME NEW t, LegalTime(t)
  PROVE  /\ ClockOK(t)
         /\ HourRead(Bits(Hour(t)), t)
         /\ MinuteRead(Bits(Minute(t)), t)
  <1>1. \A h \in 0..23 : Bits(24) # Bits(h)
    BY BitsInjective
  <1>2. \A m \in 0..59 : Bits(60) # Bits(m)
    BY BitsInjective
  <1>3. CASE t.form = "other"
    BY <1>1, <1>2, <1>3
       DEF ClockOK, Hour, Minute, VP_INVALID_HOUR, VP_INVALID_MINUTE, HourRead,
           MinuteRead
  <1>4. CASE t.form = "h" /\ InRange(t.h, 0, 23)
    BY <1>2, <1>4
       DEF ClockOK, Hour, Minute, VP_INVALID_MINUTE, HourRead, MinuteRead, InRange
  <1>5. CASE t.form = "hm" /\ InRange(t.h, 0, 23) /\ InRange(t.m, 0, 59)
    BY <1>5 DEF ClockOK, Hour, Minute, HourRead, MinuteRead, InRange
  <1> QED  BY <1>3, <1>4, <1>5 DEF LegalTime

LEMMA NoBits == Bits(0) = {}
  <1>1. Bits(0) \subseteq 0..0
    BY BitsBelow
  <1>2. 0 \notin Bits(0)
    BY BitIs
  <1> QED  BY <1>1, <1>2

LEMMA LegalDateRead ==
  ASSUME NEW d, d.form \in {"Md", "other"}, LegalDate(d)
  PROVE  /\ Bits(Month(d)) \subseteq 0..3 /\ Bits(Day(d)) \subseteq 0..4
         /\ DateRead(Bits(Month(d)), Bits(Day(d)), d)
  <1>1. CASE d.form = "other"
    BY <1>1, NoBits DEF Month, Day, DateRead
  <1>2. CASE d.form = "Md"
    <2>1. d.M \in 1..12 /\ d.d \in 1..31
      BY <1>2 DEF LegalDate, InRange
    <2>2. Month(d) = d.M /\ Day(d) = d.d
      BY <1>2 DEF Month, Day
    <2>3. Bits(d.M) \subseteq 0..3 /\ Bits(d.d) \subseteq 0..4
      BY <2>1, BitsBelow
    <2> QED  BY <1>2, <2>2, <2>3 DEF DateRead
  <1> QED  BY <1>1, <1>2

LEMMA Peri16Holds ==
  ASSUME NEW M1, NEW M2, Bits(M1) \subseteq 0..3, Bits(M2) \subseteq 0..3
  PROVE  /\ Peri16(M1, M2) \subseteq 0..15
         /\ Holds(Peri16(M1, M2), 0, 4, Bits(M1))
         /\ Holds(Peri16(M1, M2), 4, 4, Bits(M2))
  <1>1. Peri16(M1, M2) = Bits(M1) \cup Shl(Bits(M2), 4)
    BY DEF Peri16, Low, Shl
  <1> QED  BY <1>1 DEF Holds, Shl

LEMMA DaysHold ==
  ASSUME NEW d1, NEW d2, Bits(Day(d1)) \subseteq 0..4, Bits(Day(d2)) \subseteq 0..4
  PROVE  /\ Days(d1, d2) \subseteq 0..9
         /\ Holds(Days(d1, d2), 0, 5, Bits(Day(d1)))
         /\ Holds(Days(d1, d2), 5, 5, Bits(Day(d2)))
  BY DEF Days, Holds, Shl

LEMMA WeekHolds ==
  ASSUME NEW w
  PROVE  /\ WeekDays(w) \subseteq 0..6
         /\ \A i \in 0..6 : i \in WeekDays(w) <=> (w.form = "t" /\ i + 1 \in w.days)
  <1>1. CASE w.form = "t"
    <2>1. WeekDays(w) = {i - 1 : i \in w.days \cap (1..7)}
      BY <1>1 DEF WeekDays
    <2>2. WeekDays(w) \subseteq 0..6
      BY <2>1
    <2>3. ASSUME NEW i \in 0..6  PROVE i \in WeekDays(w) <=> i + 1 \in w.days
      <3>1. CASE i + 1 \in w.days
        <4>1. i + 1 \in w.days \cap (1..7) /\ i = (i + 1) - 1
          BY <3>1
        <4> QED  BY <2>1, <3>1, <4>1
      <3>2. CASE i \in WeekDays(w)
        BY <2>1, <3>2
      <3> QED  BY <3>1, <3>2
    <2> QED  BY <1>1, <2>2, <2>3
  <1>2. CASE w.form # "t"
    BY <1>2 DEF WeekDays
  <1> QED  BY <1>1, <1>2

LEMMA HoldsSame ==
  ASSUME NEW D, NEW E, NEW a \in Nat, NEW z \in Nat,
         \A b \in a..z : b \in D <=> b \in E,
         NEW p \in Nat, NEW w \in Nat, a <= p, p + w <= z + 1,
         NEW B, Holds(E, p, w, B)
  PROVE  Holds(D, p, w, B)
  BY DEF Holds

(* A field within the period of a record of 16 bytes.                      *)
LEMMA FieldRead16 ==
  ASSUME NEW f, NEW at \in Nat, NEW D, RecordAt(f, at, 16, D),
         NEW E, \A b \in 44..95 : b \in D <=> b \in E,
         NEW q \in Nat, NEW w \in Nat, 44 <= q, q + w <= 96,
         NEW S, S \subseteq 0..(w - 1), Holds(E, q, w, S)
  PROVE  FieldAt(f, 8 * at + q, w) = S
  <1>1. ASSUME NEW b \in 0..(w - 1)  PROVE (8 * at + q) + b \in f.bits <=> b \in S
    <2>1. PICK c \in 44..95 : c = q + b
      <3>1. q + b \in 44..95
        OBVIOUS
      <3> QED  BY <3>1
    <2>2. c \in 0..(8 * 16 - 1) /\ 8 * at + c = (8 * at + q) + b
      BY <2>1
    <2>3. 8 * at + c \in f.bits <=> c \in D
      BY <2>2 DEF RecordAt
    <2>4. c \in E <=> b \in S
      BY <2>1 DEF Holds
    <2> QED  BY <2>2, <2>3, <2>4
  <1>2. PICK x \in Nat : x = 8 * at + q
    <2>1. 8 * at + q \in Nat
      OBVIOUS
    <2> QED  BY <2>1
  <1>3. \A b \in 0..(w - 1) : x + b \in f.bits <=> b \in S
    BY <1>1, <1>2
  <1>4. FieldAt(f, x, w) = S
    BY <1>3, BitsRead
  <1> QED  BY <1>2, <1>4

(* A period in the documented ranges reads as what it is. *)
LEMMA PeriodSays ==
  ASSUME NEW p, p.shape \in 0..4, LegalPeriod(p),
         p.shape = 1 => {p.D1.form, p.D2.form} \subseteq {"Md", "other"},
         NEW left, NEW f, NEW at \in Nat, NEW D, RecordAt(f, at, 16, D),
         \A b \in 44..95 : b \in D <=> b \in Period(p, left)
  PROVE  LET B(q, w) == FieldAt(f, 8 * at + q, w) IN PeriodRead(B, p)
  <1> DEFINE E == Period(p, left)
             B(q, w) == FieldAt(f, 8 * at + q, w)
  <1>0. \A q \in 44..95, w \in 1..32 : q + w <= 96 =>
          /\ q \in Nat /\ w \in Nat /\ 44 <= q /\ q + w <= 95 + 1 /\ q + w <= 8 * 16
          /\ 44 \in Nat /\ 95 \in Nat /\ 16 \in Nat
    OBVIOUS
  <1>1. ASSUME NEW q \in 44..95, NEW w \in 1..32, q + w <= 96,
               NEW S, S \subseteq 0..(w - 1), Holds(E, q, w, S)
        PROVE  B(q, w) = S
    <2> HIDE DEF E
    <2>1. q \in Nat /\ w \in Nat /\ 44 <= q /\ q + w <= 96
      BY <1>0, <1>1, Zenon
    <2>2. \A b \in 44..95 : b \in D <=> b \in E
      BY DEF E
    <2>3. S \subseteq 0..(w - 1) /\ Holds(E, q, w, S)
      BY <1>1, Zenon
    <2> QED  BY <2>1, <2>2, <2>3, FieldRead16
  <1> HIDE DEF B
  <1>2. ASSUME NEW type \in 1..3, NEW p16, p16 \subseteq 0..15,
               NEW X, X \subseteq 0..9, LegalTime(p.t1), LegalTime(p.t2),
               E = Timed(type, p16, X \cup Clock(p.t1, p.t2))
        PROVE  /\ B(44, 4) = Bits(type)
               /\ Holds(E, 48, 16, p16) /\ Holds(E, 64, 10, X)
               /\ B(74, 5) = Bits(Hour(p.t1))   /\ B(79, 5) = Bits(Hour(p.t2))
               /\ B(84, 6) = Bits(Minute(p.t1)) /\ B(90, 6) = Bits(Minute(p.t2))
    <2>1. ClockOK(p.t1) /\ ClockOK(p.t2)
      BY <1>2, LegalTimeRead
    <2>2. /\ Bits(type) \subseteq 0..(4 - 1)
          /\ Bits(Hour(p.t1)) \subseteq 0..(5 - 1)
          /\ Bits(Hour(p.t2)) \subseteq 0..(5 - 1)
          /\ Bits(Minute(p.t1)) \subseteq 0..(6 - 1)
          /\ Bits(Minute(p.t2)) \subseteq 0..(6 - 1)
      BY <2>1, BitsBelow DEF ClockOK
    <2>3. type \in 0..15
      OBVIOUS
    <2> HIDE DEF E
    <2>4. /\ Holds(E, 44, 4, Bits(type))
          /\ Holds(E, 48, 16, p16) /\ Holds(E, 64, 10, X)
          /\ Holds(E, 74, 5, Bits(Hour(p.t1)))   /\ Holds(E, 79, 5, Bits(Hour(p.t2)))
          /\ Holds(E, 84, 6, Bits(Minute(p.t1))) /\ Holds(E, 90, 6, Bits(Minute(p.t2)))
      <3>1. HoldsPeriod(Timed(type, p16, X \cup Clock(p.t1, p.t2)), type, p16, X,
                        p.t1, p.t2)
        BY <1>2, <2>1, <2>3, TimedClockHolds
      <3>2. HoldsPeriod(E, type, p16, X, p.t1, p.t2)
        BY <1>2, <3>1, Zenon
      <3> QED  BY <3>2 DEF HoldsPeriod
    <2>5. /\ 44 \in 44..95 /\ 44 + 4 <= 96 /\ 4 \in 1..32
          /\ 74 \in 44..95 /\ 74 + 5 <= 96 /\ 5 \in 1..32
          /\ 79 \in 44..95 /\ 79 + 5 <= 96 /\ 6 \in 1..32
          /\ 84 \in 44..95 /\ 84 + 6 <= 96
          /\ 90 \in 44..95 /\ 90 + 6 <= 96
      OBVIOUS
    <2>6. B(44, 4) = Bits(type)
      BY <1>1, <2>2, <2>4, <2>5
    <2>7. B(74, 5) = Bits(Hour(p.t1)) /\ B(79, 5) = Bits(Hour(p.t2))
      BY <1>1, <2>2, <2>4, <2>5
    <2>8. B(84, 6) = Bits(Minute(p.t1)) /\ B(90, 6) = Bits(Minute(p.t2))
      BY <1>1, <2>2, <2>4, <2>5
    <2> QED  BY <2>4, <2>6, <2>7, <2>8
  <1>3. ASSUME LegalTime(p.t1), LegalTime(p.t2),
               B(74, 5) = Bits(Hour(p.t1)), B(79, 5) = Bits(Hour(p.t2)),
               B(84, 6) = Bits(Minute(p.t1)), B(90, 6) = Bits(Minute(p.t2))
        PROVE  TimesRead(B, p)
    BY <1>3, LegalTimeRead, Zenon DEF TimesRead
  <1>4. CASE p.shape = 0
    <2>1. E = Unset(left, 48, 48)
      BY <1>4 DEF Period
    <2>2. Holds(E, 44, 4, {})
      BY <2>1 DEF Unset, Holds
    <2>3. 44 \in 44..95 /\ 44 + 4 <= 96 /\ 4 \in 1..32 /\ {} \subseteq 0..(4 - 1)
      OBVIOUS
    <2> HIDE DEF E
    <2>4. B(44, 4) = {}
      BY <1>1, <2>2, <2>3
    <2> QED  BY <1>4, <2>4, NoBits DEF PeriodRead, B
  <1>5. CASE p.shape = 1
    <2>1. /\ ~p.more /\ LegalDate(p.D1) /\ LegalDate(p.D2)
          /\ LegalTime(p.t1) /\ LegalTime(p.t2)
      BY <1>5 DEF LegalPeriod
    <2>2. p.D1.form \in {"Md", "other"} /\ p.D2.form \in {"Md", "other"}
      BY <1>5
    <2>3. /\ Bits(Month(p.D1)) \subseteq 0..3 /\ Bits(Day(p.D1)) \subseteq 0..4
          /\ Bits(Month(p.D2)) \subseteq 0..3 /\ Bits(Day(p.D2)) \subseteq 0..4
          /\ DateRead(Bits(Month(p.D1)), Bits(Day(p.D1)), p.D1)
          /\ DateRead(Bits(Month(p.D2)), Bits(Day(p.D2)), p.D2)
      BY <2>1, <2>2, LegalDateRead
    <2> DEFINE p16 == Peri16(Month(p.D1), Month(p.D2))
               X == Days(p.D1, p.D2)
    <2>4. E = Timed(1, p16, X \cup Clock(p.t1, p.t2))
      BY <1>5, <2>1 DEF Period, Head1
    <2>5. /\ p16 \subseteq 0..15 /\ Holds(p16, 0, 4, Bits(Month(p.D1)))
          /\ Holds(p16, 4, 4, Bits(Month(p.D2)))
      BY <2>3, Peri16Holds
    <2>6. /\ X \subseteq 0..9 /\ Holds(X, 0, 5, Bits(Day(p.D1)))
          /\ Holds(X, 5, 5, Bits(Day(p.D2)))
      BY <2>3, DaysHold
    <2>7. 1 \in 1..3
      OBVIOUS
    <2> HIDE DEF p16, X, E
    <2>8. /\ B(44, 4) = Bits(1)
          /\ Holds(E, 48, 16, p16) /\ Holds(E, 64, 10, X)
          /\ B(74, 5) = Bits(Hour(p.t1))   /\ B(79, 5) = Bits(Hour(p.t2))
          /\ B(84, 6) = Bits(Minute(p.t1)) /\ B(90, 6) = Bits(Minute(p.t2))
      BY <1>2, <2>1, <2>4, <2>5, <2>6, <2>7
    <2>9. /\ 48 \in Nat /\ 64 \in Nat /\ 16 \in Nat /\ 10 \in Nat /\ 0 \in Nat
          /\ 4 \in Nat /\ 5 \in Nat /\ 0 + 4 <= 16 /\ 4 + 4 <= 16
          /\ 0 + 5 <= 10 /\ 5 + 5 <= 10
      OBVIOUS
    <2>10. /\ Holds(E, 48 + 0, 4, Bits(Month(p.D1)))
           /\ Holds(E, 48 + 4, 4, Bits(Month(p.D2)))
           /\ Holds(E, 64 + 0, 5, Bits(Day(p.D1)))
           /\ Holds(E, 64 + 5, 5, Bits(Day(p.D2)))
      BY <2>5, <2>6, <2>8, <2>9, HoldsInner
    <2>11. /\ 48 + 0 = 48 /\ 48 + 4 = 52 /\ 64 + 0 = 64 /\ 64 + 5 = 69
           /\ 4 - 1 = 3 /\ 5 - 1 = 4
           /\ 48 \in 44..95 /\ 52 \in 44..95 /\ 64 \in 44..95 /\ 69 \in 44..95
           /\ 4 \in 1..32 /\ 5 \in 1..32
           /\ 48 + 4 <= 96 /\ 52 + 4 <= 96 /\ 64 + 5 <= 96 /\ 69 + 5 <= 96
      OBVIOUS
    <2>12. /\ B(48, 4) = Bits(Month(p.D1)) /\ B(52, 4) = Bits(Month(p.D2))
           /\ B(64, 5) = Bits(Day(p.D1)) /\ B(69, 5) = Bits(Day(p.D2))
      BY <1>1, <2>3, <2>10, <2>11
    <2>13. /\ DateRead(B(48, 4), B(64, 5), p.D1)
           /\ DateRead(B(52, 4), B(69, 5), p.D2)
      BY <2>3, <2>12, Zenon
    <2>14. TimesRead(B, p)
      BY <1>3, <2>1, <2>8
    <2> QED  BY <1>5, <2>8, <2>13, <2>14 DEF PeriodRead, B, TimesRead
  <1>6. CASE p.shape = 2
    <2>1. ~p.more /\ LegalTime(p.t1) /\ LegalTime(p.t2)
      BY <1>6 DEF LegalPeriod
    <2> DEFINE X == WeekDays(p.week)
    <2>2. E = Timed(2, {}, X \cup Clock(p.t1, p.t2))
      BY <1>6, <2>1 DEF Period, Head1
    <2>3. /\ X \subseteq 0..6
          /\ \A i \in 0..6 : i \in X <=> (p.week.form = "t" /\ i + 1 \in p.week.days)
      BY WeekHolds
    <2>4. 2 \in 1..3 /\ {} \subseteq 0..15
      OBVIOUS
    <2> HIDE DEF X, E
    <2>5. X \subseteq 0..9 /\ Holds(X, 0, 7, X)
      BY <2>3 DEF Holds
    <2>6. /\ B(44, 4) = Bits(2) /\ Holds(E, 64, 10, X)
          /\ B(74, 5) = Bits(Hour(p.t1))   /\ B(79, 5) = Bits(Hour(p.t2))
          /\ B(84, 6) = Bits(Minute(p.t1)) /\ B(90, 6) = Bits(Minute(p.t2))
      BY <1>2, <2>1, <2>2, <2>4, <2>5
    <2>7. /\ 64 \in Nat /\ 10 \in Nat /\ 0 \in Nat /\ 7 \in Nat /\ 0 + 7 <= 10
          /\ 64 + 0 = 64 /\ 64 \in 44..95 /\ 7 \in 1..32 /\ 64 + 7 <= 96 /\ 7 - 1 = 6
      OBVIOUS
    <2>8. Holds(E, 64 + 0, 7, X)
      BY <2>5, <2>6, <2>7, HoldsInner
    <2>9. B(64, 7) = X
      <3>1. X \subseteq 0..(7 - 1) /\ Holds(E, 64, 7, X)
        BY <2>3, <2>7, <2>8
      <3> QED  BY <1>1, <2>7, <3>1
    <2>10. TimesRead(B, p)
      BY <1>3, <2>1, <2>6
    <2>11. \A i \in 0..6 :
             (i \in B(64, 7)) <=> (p.week.form = "t" /\ i + 1 \in p.week.days)
      BY <2>3, <2>9, Zenon
    <2> QED  BY <1>6, <2>6, <2>10, <2>11 DEF PeriodRead, B, TimesRead
  <1>7. CASE p.shape = 3
    <2>1. ~p.more /\ LegalTime(p.t1) /\ LegalTime(p.t2)
      BY <1>7 DEF LegalPeriod
    <2>2. E = Timed(3, {}, {} \cup Clock(p.t1, p.t2))
      BY <1>7, <2>1 DEF Period, Head1
    <2>3. 3 \in 1..3 /\ {} \subseteq 0..15 /\ {} \subseteq 0..9
      OBVIOUS
    <2> HIDE DEF E
    <2>4. /\ B(44, 4) = Bits(3)
          /\ B(74, 5) = Bits(Hour(p.t1))   /\ B(79, 5) = Bits(Hour(p.t2))
          /\ B(84, 6) = Bits(Minute(p.t1)) /\ B(90, 6) = Bits(Minute(p.t2))
      BY <1>2, <2>1, <2>2, <2>3
    <2>5. TimesRead(B, p)
      BY <1>3, <2>1, <2>4
    <2> QED  BY <1>7, <2>4, <2>5 DEF PeriodRead, B, TimesRead
  <1>8. p.shape # 4
    <2> SUFFICES ASSUME p.shape = 4  PROVE LegalPeriod(p) = FALSE
      OBVIOUS
    <2> QED  BY DEF LegalPeriod
  <1> QED  BY <1>4, <1>5, <1>6, <1>7, <1>8 DEF PeriodRead, TimesRead

(* A CR in the documented ranges reads as what it is. *)
LEMMA CRSays ==
  ASSUME NEW r, r.VPeriod.shape \in 0..4, LegalCR(r),
         r.VPeriod.shape = 1 =>
           {r.VPeriod.D1.form, r.VPeriod.D2.form} \subseteq {"Md", "other"},
         NEW left, NEW f, NEW at \in Nat, RecordAt(f, at, 16, CRData(r, left))
  PROVE  LET B(q, w) == FieldAt(f, 8 * at + q, w) IN CRRead(B, r)
  <1> DEFINE D == CRData(r, left)
             B(q, w) == FieldAt(f, 8 * at + q, w)
  <1>1. /\ r.CRID \subseteq 0..39 /\ r.Veh_Type \subseteq 0..31
        /\ r.VPDir \in 0..3 /\ (r.VP_Appro = NoNumber \/ r.VP_Appro \in 0..1)
        /\ LegalPeriod(r.VPeriod)
    BY DEF LegalCR, Id40, InRange
  <1>2. /\ Holds(D, 0, 40, r.CRID) /\ Holds(D, 40, 2, Bits(r.VPDir))
        /\ Holds(D, 42, 2, Approx(r.VP_Appro)) /\ Holds(D, 96, 32, r.Veh_Type)
        /\ \A b \in 44..95 : b \in D <=> b \in Period(r.VPeriod, left)
    BY CRHolds
  <1>3. Bits(r.VPDir) \subseteq 0..1
    BY <1>1, BitsBelow
  <1>4. /\ Approx(r.VP_Appro)
             = Bits(IF r.VP_Appro = NoNumber THEN 0 ELSE r.VP_Appro + 1)
        /\ Approx(r.VP_Appro) \subseteq 0..1
    <2>1. CASE r.VP_Appro = NoNumber
      BY <2>1, NoBits DEF Approx
    <2>2. CASE r.VP_Appro # NoNumber /\ r.VP_Appro \in 0..1
      <3>1. r.VP_Appro + 1 \in Nat /\ r.VP_Appro + 1 < 4
        BY <2>2
      <3> QED  BY <2>2, <3>1, BitsBelow DEF Approx
    <2> QED  BY <1>1, <2>1, <2>2
  <1> HIDE DEF D
  <1>5. RecordAt(f, at, 16, D) /\ 16 \in Nat
    BY DEF D
  <1>6. /\ 0 \in Nat /\ 40 \in Nat /\ 42 \in Nat /\ 96 \in Nat /\ 2 \in Nat
        /\ 32 \in Nat /\ 0 + 40 <= 8 * 16 /\ 40 + 2 <= 8 * 16 /\ 42 + 2 <= 8 * 16
        /\ 96 + 32 <= 8 * 16 /\ 40 - 1 = 39 /\ 2 - 1 = 1 /\ 32 - 1 = 31
    OBVIOUS
  <1>7. /\ B(0, 40) = r.CRID /\ B(40, 2) = Bits(r.VPDir)
        /\ B(42, 2) = Approx(r.VP_Appro) /\ B(96, 32) = r.Veh_Type
    BY <1>1, <1>2, <1>3, <1>4, <1>5, <1>6, FieldRead
  <1>8. PeriodRead(B, r.VPeriod)
    BY <1>1, <1>2, <1>5, PeriodSays DEF PeriodRead, TimesRead
  <1> HIDE DEF B
  <1> QED  BY <1>4, <1>7, <1>8, Zenon DEF CRRead, PeriodRead, TimesRead, B

-----------------------------------------------------------------------------
(* The record of a Toll Pattern *)

LEMMA TollPatternSays ==
  ASSUME NEW r, Id40(r.CondID), TollPatternConverts(r), NEW left, NEW f,
         NEW at \in Nat, RecordAt(f, at, 16, TollPatternData(r, left))
  PROVE  LET B(q, w) == FieldAt(f, 8 * at + q, w) IN TollPatternRead(B, r)
  <1> DEFINE D  == TollPatternData(r, left)
             F1 == Field(r.CondID, 0, 40)
             F2 == Unset(left, 40, 24)
             F3 == Field(r.PaternNo, 64, 32)
             F4 == Field(r.ArrowNo, 96, 32)
  <1>1. D = F1 \cup F2 \cup F3 \cup F4
    BY DEF TollPatternData
  <1>2. F1 \subseteq 0..39 /\ F3 \subseteq 64..95 /\ F4 \subseteq 96..127
    BY FieldBound
  <1>3. F2 \subseteq 40..63
    BY UnsetBound
  <1>4. /\ Holds(F1, 0, 40, r.CondID) /\ Holds(F3, 64, 32, r.PaternNo)
        /\ Holds(F4, 96, 32, r.ArrowNo)
    BY FieldHolds
  <1>5. RecordAt(f, at, 16, D) /\ 16 \in Nat
    OBVIOUS
  <1> HIDE DEF D, F1, F2, F3, F4
  <1>6. /\ \A b \in 0..(0 + 40 - 1) : b \in D => b \in F1
        /\ \A b \in 64..(64 + 32 - 1) : b \in D => b \in F3
        /\ \A b \in 96..(96 + 32 - 1) : b \in D => b \in F4
    BY <1>1, <1>2, <1>3
  <1>7. F1 \subseteq D /\ F3 \subseteq D /\ F4 \subseteq D
    BY <1>1
  <1>8. /\ 0 \in Nat /\ 40 \in Nat /\ 64 \in Nat /\ 96 \in Nat /\ 32 \in Nat
        /\ 0 + 40 <= 8 * 16 /\ 64 + 32 <= 8 * 16 /\ 96 + 32 <= 8 * 16
    OBVIOUS
  <1>9. /\ Holds(D, 0, 40, r.CondID) /\ Holds(D, 64, 32, r.PaternNo)
        /\ Holds(D, 96, 32, r.ArrowNo)
    BY <1>4, <1>6, <1>7, <1>8, HoldsAmong
  <1>10. /\ r.CondID \subseteq 0..(40 - 1) /\ r.PaternNo \subseteq 0..(32 - 1)
         /\ r.ArrowNo \subseteq 0..(32 - 1)
    BY DEF Id40, TollPatternConverts, FitsInt
  <1>11. /\ FieldAt(f, 8 * at + 0, 40) = r.CondID
         /\ FieldAt(f, 8 * at + 64, 32) = r.PaternNo
         /\ FieldAt(f, 8 * at + 96, 32) = r.ArrowNo
    BY <1>5, <1>8, <1>9, <1>10, FieldRead
  <1> QED  BY <1>11, Zenon DEF TollPatternRead

-----------------------------------------------------------------------------
(* The record of a junction *)

(* The link in arrives in one piece. *)
LEMMA LinkInHolds ==
  ASSUME NEW B, B \subseteq 0..39
  PROVE  Holds(LinkIn(B), 104, 40, B)
  <1> SUFFICES ASSUME NEW b \in 0..39
               PROVE  104 + b \in LinkIn(B) <=> b \in B
    BY DEF Holds
  <1>1. CASE b \in 0..23
    <2>1. 104 + b \in Field(B, 104, 24) <=> b \in B
      BY <1>1 DEF Field, Shl, Low
    <2>2. 104 + b \notin Shl(Low(B, 40) \ (0..23), 104)
      BY <1>1 DEF Shl, Low
    <2> QED  BY <2>1, <2>2 DEF LinkIn
  <1>2. CASE b \in 24..39
    <2>1. 104 + b \notin Field(B, 104, 24)
      BY <1>2 DEF Field, Shl, Low
    <2>2. 104 + b \in Shl(Low(B, 40) \ (0..23), 104) <=> b \in B
      BY <1>2 DEF Shl, Low
    <2> QED  BY <2>1, <2>2 DEF LinkIn
  <1> QED  BY <1>1, <1>2

(* The one station of a list is the one that counts. *)
LEMMA GasoRead ==
  ASSUME NEW items, DOMAIN items \subseteq Int,
         \A j, k \in DOMAIN items : {items[j], items[k]} \subseteq Stations => j = k
  PROVE  /\ Gaso(items) \subseteq 0..3
         /\ \A s \in Stations :
              Gaso(items) = (IF s = 26 THEN Bits(15) ELSE Bits(s - 20))
                <=> s \in {items[k] : k \in DOMAIN items}
  <1> DEFINE at == {k \in DOMAIN items : items[k] \in Stations}
             last == CHOOSE k \in at : \A j \in at : j <= k
             code(s) == IF s = 26 THEN 15 ELSE s - 20
  <1>1. /\ \A s \in Stations : code(s) \in 1..15
        /\ \A s, t \in Stations : code(s) = code(t) => s = t
    BY DEF Stations
  <1>2. \A s \in Stations : Bits(code(s)) = IF s = 26 THEN Bits(15) ELSE Bits(s - 20)
    OBVIOUS
  <1> HIDE DEF code
  <1>3. \A s \in Stations : Bits(code(s)) # {}
    <2> SUFFICES ASSUME NEW s \in Stations, Bits(code(s)) = Bits(0)  PROVE FALSE
      BY NoBits
    <2>1. code(s) \in 0..63 /\ code(s) # 0 /\ 0 \in 0..63
      BY <1>1
    <2> QED  BY <2>1, BitsInjective
  <1>4. \A s, t \in Stations : Bits(code(s)) = Bits(code(t)) => s = t
    <2> SUFFICES ASSUME NEW s \in Stations, NEW t \in Stations,
                        Bits(code(s)) = Bits(code(t))
                 PROVE  s = t
      OBVIOUS
    <2>1. code(s) \in 0..63 /\ code(t) \in 0..63
      BY <1>1
    <2>2. code(s) = code(t)
      BY <2>1, BitsInjective
    <2> QED  BY <1>1, <2>2
  <1>5. CASE at = {}
    <2>1. Gaso(items) = {}
      BY <1>5 DEF Gaso
    <2>2. \A s \in Stations : s \notin {items[k] : k \in DOMAIN items}
      BY <1>5
    <2> QED  BY <1>2, <1>3, <2>1, <2>2
  <1>6. CASE at # {}
    <2>1. PICK k \in DOMAIN items : k \in at
      BY <1>6
    <2>2. at = {k}
      BY <2>1
    <2>3. k \in Int
      BY <2>1
    <2>4. last = k
      <3> HIDE DEF at
      <3>1. k \in at /\ \A j \in at : j <= k
        BY <2>2, <2>3
      <3>2. last \in at
        BY <3>1
      <3> QED  BY <2>2, <3>2
    <2>5. Gaso(items) = IF items[last] = 26 THEN Bits(15) ELSE Bits(items[last] - 20)
      BY <1>6 DEF Gaso
    <2>6. items[k] \in Stations
      BY <2>1
    <2>7. Gaso(items) = Bits(code(items[k]))
      BY <1>2, <2>4, <2>5, <2>6, Zenon
    <2>8. code(items[k]) \in Nat /\ code(items[k]) < 16
      BY <1>1, <2>6
    <2>9. Gaso(items) \subseteq 0..3
      BY <2>7, <2>8, BitsBelow
    <2>10. ASSUME NEW s \in Stations
           PROVE  Gaso(items) = Bits(code(s)) <=> s \in {items[j] : j \in DOMAIN items}
      <3>1. CASE Gaso(items) = Bits(code(s))
        <4>1. s = items[k]
          BY <1>4, <2>6, <2>7, <3>1
        <4> QED  BY <2>1, <3>1, <4>1
      <3>2. CASE s \in {items[j] : j \in DOMAIN items}
        <4>1. PICK j \in DOMAIN items : s = items[j]
          BY <3>2
        <4>2. j \in at
          BY <4>1
        <4>3. s = items[k]
          BY <2>2, <4>1, <4>2
        <4> QED  BY <2>7, <3>2, <4>3
      <3> QED  BY <3>1, <3>2
    <2> QED  BY <1>2, <2>9, <2>10, Zenon
  <1> QED  BY <1>5, <1>6

LEMMA EstabReadBack ==
  ASSUME NEW items, DOMAIN items \subseteq Int,
         \A j, k \in DOMAIN items : {items[j], items[k]} \subseteq Stations => j = k
  PROVE  Estab(items) \subseteq 0..7 /\ EstabRead(Estab(items), items)
  <1> DEFINE B      == Estab(items)
             listed == {items[k] : k \in DOMAIN items}
             L      == {i - 1 : i \in listed \cap (1..4)}
             G      == Gaso(items)
             high   == {b - 4 : b \in B \cap (4..7)}
  <1>1. /\ G \subseteq 0..3
        /\ \A s \in Stations :
             G = (IF s = 26 THEN Bits(15) ELSE Bits(s - 20)) <=> s \in listed
    BY GasoRead
  <1>2. B = L \cup Shl(G, 4)
    BY DEF Estab
  <1>3. L \subseteq 0..3 /\ \A i \in 1..4 : i - 1 \in L <=> i \in listed
    <2> HIDE DEF listed
    <2>1. ASSUME NEW i \in 1..4, i - 1 \in L  PROVE i \in listed
      <3>1. PICK k \in listed \cap (1..4) : i - 1 = k - 1
        BY <2>1
      <3> QED  BY <3>1
    <2> QED  BY <2>1
  <1> HIDE DEF B, L, G, listed
  <1>4. B \subseteq 0..7
    <2>1. Shl(G, 4) \subseteq 4..7
      BY <1>1 DEF Shl
    <2>2. Shl(G, 4) \subseteq 0..7 /\ L \subseteq 0..7
      BY <1>3, <2>1
    <2> QED  BY <1>2, <2>2, Zenon
  <1>5. \A i \in 1..4 : i - 1 \in B <=> i \in listed
    BY <1>1, <1>2, <1>3 DEF Shl
  <1>6. high = G
    <2>1. \A b \in 4..7 : b \in B <=> b - 4 \in G
      BY <1>1, <1>2, <1>3 DEF Shl
    <2>2. \A x : x \in high => x \in G
      BY <2>1
    <2>3. ASSUME NEW x \in G  PROVE x \in high
      <3>1. x + 4 \in B \cap (4..7) /\ x = (x + 4) - 4
        BY <1>1, <2>1
      <3> QED  BY <3>1
    <2> QED  BY <2>2, <2>3
  <1>7. EstabRead(B, items)
    BY <1>1, <1>5, <1>6, Zenon DEF EstabRead, listed
  <1> QED  BY <1>4, <1>7 DEF B

LEMMA JunctionHolds ==
  ASSUME NEW r, LegalJunction(r), NEW left, NEW D, D = JunctionData(r, left)
  PROVE  /\ Holds(D, 0, 40, r.ID)
         /\ Holds(D, 48, 4, Bits(r.AccessType))
         /\ Holds(D, 52, 4, Bits(r.Attr))
         /\ Holds(D, 56, 8, Estab(r.Estab_Item))
         /\ Holds(D, 64, 40, r.NodeID)
         /\ Holds(D, 104, 40, r.inLinkID)
         /\ Holds(D, 144, 40, r.outLinkID)
  <1> DEFINE F1 == Field(r.ID, 0, 40)
             F2 == Unset(left, 40, 8)
             F3 == Field(Bits(r.AccessType), 48, 4)
             F4 == Field(Bits(r.Attr), 52, 4)
             F5 == Field(Estab(r.Estab_Item), 56, 8)
             F6 == Field(r.NodeID, 64, 40)
             F7 == LinkIn(r.inLinkID)
             F8 == Field(r.outLinkID, 144, 40)
             F9 == Unset(left, 184, 8)
  <1>1. D = F1 \cup F2 \cup F3 \cup F4 \cup F5 \cup F6 \cup F7 \cup F8 \cup F9
    BY DEF JunctionData
  <1>2. /\ F1 \subseteq 0..39  /\ F3 \subseteq 48..51 /\ F4 \subseteq 52..55
        /\ F5 \subseteq 56..63 /\ F6 \subseteq 64..103 /\ F8 \subseteq 144..183
    BY FieldBound
  <1>3. /\ F2 \subseteq 40..47 /\ F7 \subseteq 104..143 /\ F9 \subseteq 184..191
    BY UnsetBound, LinkInBound
  <1>4. /\ Holds(F1, 0, 40, r.ID)
        /\ Holds(F3, 48, 4, Bits(r.AccessType))
        /\ Holds(F4, 52, 4, Bits(r.Attr))
        /\ Holds(F5, 56, 8, Estab(r.Estab_Item))
        /\ Holds(F6, 64, 40, r.NodeID)
        /\ Holds(F8, 144, 40, r.outLinkID)
    BY FieldHolds
  <1>5. Holds(F7, 104, 40, r.inLinkID)
    BY LinkInHolds DEF LegalJunction, Id40
  <1> HIDE DEF F1, F2, F3, F4, F5, F6, F7, F8, F9
  <1>6. /\ \A b \in 0..(0 + 40 - 1) : b \in D => b \in F1
        /\ \A b \in 48..(48 + 4 - 1) : b \in D => b \in F3
        /\ \A b \in 52..(52 + 4 - 1) : b \in D => b \in F4
        /\ \A b \in 56..(56 + 8 - 1) : b \in D => b \in F5
        /\ \A b \in 64..(64 + 40 - 1) : b \in D => b \in F6
        /\ \A b \in 104..(104 + 40 - 1) : b \in D => b \in F7
        /\ \A b \in 144..(144 + 40 - 1) : b \in D => b \in F8
    BY <1>1, <1>2, <1>3
  <1>7. /\ F1 \subseteq D /\ F3 \subseteq D /\ F4 \subseteq D /\ F5 \subseteq D
        /\ F6 \subseteq D /\ F7 \subseteq D /\ F8 \subseteq D
    BY <1>1
  <1>8. /\ 0 \in Nat /\ 40 \in Nat /\ 48 \in Nat /\ 4 \in Nat /\ 52 \in Nat
        /\ 56 \in Nat /\ 8 \in Nat /\ 64 \in Nat /\ 104 \in Nat /\ 144 \in Nat
    OBVIOUS
  <1> QED  BY <1>4, <1>5, <1>6, <1>7, <1>8, HoldsAmong

LEMMA JunctionSays ==
  ASSUME NEW r, LegalJunction(r), DOMAIN r.Estab_Item \subseteq Int, NEW left, NEW f,
         NEW at \in Nat, RecordAt(f, at, 24, JunctionData(r, left))
  PROVE  LET B(q, w) == FieldAt(f, 8 * at + q, w) IN JunctionRead(B, r)
  <1> DEFINE D == JunctionData(r, left)
             B(q, w) == FieldAt(f, 8 * at + q, w)
  <1>1. /\ Holds(D, 0, 40, r.ID)
        /\ Holds(D, 48, 4, Bits(r.AccessType))
        /\ Holds(D, 52, 4, Bits(r.Attr))
        /\ Holds(D, 56, 8, Estab(r.Estab_Item))
        /\ Holds(D, 64, 40, r.NodeID)
        /\ Holds(D, 104, 40, r.inLinkID)
        /\ Holds(D, 144, 40, r.outLinkID)
    BY JunctionHolds
  <1>2. Bits(r.AccessType) \subseteq 0..(4 - 1) /\ Bits(r.Attr) \subseteq 0..(4 - 1)
    BY BitsBelow DEF LegalJunction, InRange
  <1>3. /\ Estab(r.Estab_Item) \subseteq 0..(8 - 1)
        /\ EstabRead(Estab(r.Estab_Item), r.Estab_Item)
    BY EstabReadBack DEF LegalJunction
  <1>4. /\ r.ID \subseteq 0..(40 - 1) /\ r.NodeID \subseteq 0..(40 - 1)
        /\ r.inLinkID \subseteq 0..(40 - 1) /\ r.outLinkID \subseteq 0..(40 - 1)
    BY DEF LegalJunction, Id40
  <1>5. RecordAt(f, at, 24, D) /\ 24 \in Nat
    OBVIOUS
  <1>6. /\ 0 \in Nat /\ 40 \in Nat /\ 48 \in Nat /\ 4 \in Nat /\ 52 \in Nat
        /\ 56 \in Nat /\ 8 \in Nat /\ 64 \in Nat /\ 104 \in Nat /\ 144 \in Nat
        /\ 0 + 40 <= 8 * 24 /\ 48 + 4 <= 8 * 24 /\ 52 + 4 <= 8 * 24 /\ 56 + 8 <= 8 * 24
        /\ 64 + 40 <= 8 * 24 /\ 104 + 40 <= 8 * 24 /\ 144 + 40 <= 8 * 24
    OBVIOUS
  <1> HIDE DEF D
  <1>7. /\ FieldAt(f, 8 * at + 0, 40) = r.ID
        /\ FieldAt(f, 8 * at + 48, 4) = Bits(r.AccessType)
        /\ FieldAt(f, 8 * at + 52, 4) = Bits(r.Attr)
        /\ FieldAt(f, 8 * at + 56, 8) = Estab(r.Estab_Item)
        /\ FieldAt(f, 8 * at + 64, 40) = r.NodeID
        /\ FieldAt(f, 8 * at + 104, 40) = r.inLinkID
        /\ FieldAt(f, 8 * at + 144, 40) = r.outLinkID
    BY <1>1, <1>2, <1>3, <1>4, <1>5, <1>6, FieldRead
  <1> QED  BY <1>3, <1>7, Zenon DEF JunctionRead, LinksRead

-----------------------------------------------------------------------------
(* The record of a Toll ETA *)

(* r has n lanes, one at least. *)
HasLanes(r, n) == Lanes(r) # <<>> /\ Len(Lanes(r)) = n

LEMMA TollETAFields ==
  ASSUME NEW A, NEW B, NEW C
  PROVE  /\ Field(A, 0, 40) \subseteq 0..39
         /\ Field(B, 40, 4) \subseteq 40..43
         /\ Field(C, 44, 4) \subseteq 44..47
  BY FieldBound

(* In the w bits from p on, D has no bit that A does not have.             *)
Only(D, A, p, w) == \A b \in p..(p + w - 1) : b \in D => b \in A

LEMMA TollETAApart ==
  ASSUME NEW F1, NEW F2, NEW F3, NEW F4, NEW F5,
         F1 \subseteq 0..39, F2 \subseteq 40..43, F3 \subseteq 44..47,
         F4 \subseteq 48..63, \A b \in F5 : b >= 64,
         NEW D, D = F1 \cup F2 \cup F3 \cup F4 \cup F5
  PROVE  Only(D, F1, 0, 40) /\ Only(D, F2, 40, 4) /\ Only(D, F3, 44, 4)
  <1>1. \A b \in 0..47 : b \notin F4 /\ b \notin F5
    OBVIOUS
  <1>2. \A b \in 0..47 : b \in D => b \in F1 \/ b \in F2 \/ b \in F3
    BY <1>1
  <1> QED  BY <1>2 DEF Only

LEMMA TollETAHolds ==
  ASSUME NEW r, NEW n \in 1..15, HasLanes(r, n),
         \A k \in 1..n : Lanes(r)[k] \in 0..255,
         NEW left, NEW D, D = TollETAData(r, left)
  PROVE  /\ Holds(D, 0, 40, r.CondID)
         /\ Holds(D, 40, 4, Bits(r.TollType))
         /\ Holds(D, 44, 4, Bits(n))
         /\ \A k \in 1..n : Holds(D, 56 + 8 * k, 8, Bits(Lanes(r)[k]))
  <1> DEFINE F1 == Field(r.CondID, 0, 40)
             F2 == Field(Bits(r.TollType), 40, 4)
             F3 == LaneNum(r, left)
             F4 == Unset(left, 48, 16)
             F5 == LaneBytes(r)
             L(k) == Field(Bits(Lanes(r)[k]), 56 + 8 * k, 8)
  <1>1. D = F1 \cup F2 \cup F3 \cup F4 \cup F5
    BY DEF TollETAData
  <1>2. F3 = Field(Bits(n), 44, 4)
    BY DEF LaneNum, HasLanes
  <1>3. F1 \subseteq 0..39 /\ F2 \subseteq 40..43 /\ F3 \subseteq 44..47
    BY <1>2, TollETAFields, Zenon
  <1>4. F4 \subseteq 48..63
    BY UnsetBound
  <1>5. F5 = UNION {L(k) : k \in 1..n}
    BY Zenon DEF LaneBytes, HasLanes
  <1>6. ASSUME NEW k \in 1..n
        PROVE  /\ L(k) \subseteq (56 + 8 * k)..(56 + 8 * k + 8 - 1)
               /\ Holds(L(k), 56 + 8 * k, 8, Bits(Lanes(r)[k]))
    <2>1. 56 + 8 * k \in Nat /\ 8 \in Nat
      OBVIOUS
    <2> QED  BY <2>1, FieldBound, FieldHolds
  <1>7. /\ Holds(F1, 0, 40, r.CondID) /\ Holds(F2, 40, 4, Bits(r.TollType))
        /\ Holds(F3, 44, 4, Bits(n))
    BY <1>2, FieldHolds
  <1> HIDE DEF F1, F2, F3, F4, F5, L
  <1>8. \A b \in F5 : b >= 64
    BY <1>5, <1>6
  <1>9. /\ \A b \in 0..(0 + 40 - 1) : b \in D => b \in F1
        /\ \A b \in 40..(40 + 4 - 1) : b \in D => b \in F2
        /\ \A b \in 44..(44 + 4 - 1) : b \in D => b \in F3
    <2>1. Only(D, F1, 0, 40) /\ Only(D, F2, 40, 4) /\ Only(D, F3, 44, 4)
      BY <1>1, <1>3, <1>4, <1>8, TollETAApart
    <2> QED  BY <2>1, Zenon DEF Only
  <1>10. F1 \subseteq D /\ F2 \subseteq D /\ F3 \subseteq D /\ F5 \subseteq D
    BY <1>1
  <1>11. 0 \in Nat /\ 40 \in Nat /\ 44 \in Nat /\ 4 \in Nat /\ 8 \in Nat
    OBVIOUS
  <1>12. /\ Holds(D, 0, 40, r.CondID) /\ Holds(D, 40, 4, Bits(r.TollType))
         /\ Holds(D, 44, 4, Bits(n))
    BY <1>7, <1>9, <1>10, <1>11, HoldsAmong
  <1>13. ASSUME NEW k \in 1..n
         PROVE  Holds(D, 56 + 8 * k, 8, Bits(Lanes(r)[k]))
    <2>1. PICK p \in Nat : p = 56 + 8 * k
      OBVIOUS
    <2>2. ASSUME NEW b \in p..(p + 8 - 1), b \in D  PROVE b \in L(k)
      <3>1. b >= 64
        BY <2>1
      <3>2. b \in F5
        BY <1>1, <1>3, <1>4, <2>2, <3>1
      <3>3. PICK j \in 1..n : b \in L(j)
        BY <1>5, <3>2
      <3>4. b \in (56 + 8 * j)..(56 + 8 * j + 8 - 1)
        BY <1>6, <3>3
      <3>5. j = k
        BY <2>1, <3>4
      <3> QED  BY <3>3, <3>5
    <2>3. L(k) \subseteq D
      BY <1>5, <1>10
    <2>4. Holds(L(k), p, 8, Bits(Lanes(r)[k]))
      BY <1>6, <2>1, Zenon
    <2>5. Holds(D, p, 8, Bits(Lanes(r)[k]))
      BY <1>11, <2>2, <2>3, <2>4, HoldsAmong
    <2> QED  BY <2>1, <2>5
  <1> QED  BY <1>12, <1>13

LEMMA TollETASays ==
  ASSUME NEW r, LegalTollETA(r), NEW n \in 1..15, HasLanes(r, n),
         NEW size \in Nat, size >= 8 + n, NEW left, NEW f,
         NEW at \in Nat, RecordAt(f, at, size, TollETAData(r, left))
  PROVE  LET B(q, w) == FieldAt(f, 8 * at + q, w) IN TollETARead(B, r)
  <1> DEFINE D == TollETAData(r, left)
             l(k) == Lanes(r)[k]
  <1>1. r.TollType \in 0..15 /\ \A k \in 1..n : l(k) \in 0..255
    <2>1. /\ InRange(r.TollType, 0, 15)
          /\ \A k \in 1..Len(Lanes(r)) : InRange(Lanes(r)[k], 0, 255)
      BY Zenon DEF LegalTollETA
    <2> QED  BY <2>1, Zenon DEF InRange, HasLanes
  <1>2. /\ Holds(D, 0, 40, r.CondID)
        /\ Holds(D, 40, 4, Bits(r.TollType))
        /\ Holds(D, 44, 4, Bits(n))
        /\ \A k \in 1..n : Holds(D, 56 + 8 * k, 8, Bits(l(k)))
    BY <1>1, TollETAHolds
  <1> HIDE DEF l
  <1>3. /\ r.CondID \subseteq 0..(40 - 1)
        /\ Bits(r.TollType) \subseteq 0..(4 - 1) /\ Bits(n) \subseteq 0..(4 - 1)
        /\ \A k \in 1..n : Bits(l(k)) \subseteq 0..(8 - 1)
    <2>1. \A m \in 0..15 : Bits(m) \subseteq 0..(4 - 1)
      BY BitsBelow
    <2>2. \A m \in 0..255 : Bits(m) \subseteq 0..(8 - 1)
      BY BitsBelow
    <2>3. n \in 0..15
      OBVIOUS
    <2>4. r.CondID \subseteq 0..(40 - 1)
      <3>1. Id40(r.CondID)
        BY Zenon DEF LegalTollETA
      <3> QED  BY <3>1 DEF Id40
    <2> QED  BY <1>1, <2>1, <2>2, <2>3, <2>4, Zenon
  <1>4. RecordAt(f, at, size, D)
    OBVIOUS
  <1> HIDE DEF D, l
  <1>5. /\ 0 \in Nat /\ 40 \in Nat /\ 44 \in Nat /\ 4 \in Nat /\ 8 \in Nat
        /\ 0 + 40 <= 8 * size /\ 40 + 4 <= 8 * size /\ 44 + 4 <= 8 * size
    OBVIOUS
  <1>6. /\ FieldAt(f, 8 * at + 0, 40) = r.CondID
        /\ FieldAt(f, 8 * at + 40, 4) = Bits(r.TollType)
        /\ FieldAt(f, 8 * at + 44, 4) = Bits(n)
    BY <1>2, <1>3, <1>4, <1>5, FieldRead
  <1>7. ASSUME NEW k \in 1..n
        PROVE  FieldAt(f, 8 * at + (56 + 8 * k), 8) = Bits(l(k))
    <2>1. PICK p \in Nat : p = 56 + 8 * k /\ p + 8 <= 8 * size
      OBVIOUS
    <2>2. Holds(D, p, 8, Bits(l(k))) /\ Bits(l(k)) \subseteq 0..(8 - 1)
      BY <1>2, <1>3, <2>1
    <2>3. FieldAt(f, 8 * at + p, 8) = Bits(l(k))
      BY <1>4, <1>5, <2>1, <2>2, FieldRead
    <2> QED  BY <2>1, <2>3
  <1> QED  BY <1>6, <1>7, Zenon DEF TollETARead, l, HasLanes

-----------------------------------------------------------------------------
(* Where the records are *)

(* Size and Data of table t. *)
SizeIn(t, r) ==
  CASE t.kind = "CR"           -> 16
    [] t.kind = "Toll_ETA"     -> 8 + Padded(Len(Lanes(r)))
    [] t.kind = "Toll_Pattern" -> 16
    [] t.kind = "HW_Junction"  -> 24

DataIn(t, r, left) ==
  CASE t.kind = "CR"           -> CRData(r, left)
    [] t.kind = "Toll_ETA"     -> TollETAData(r, left)
    [] t.kind = "Toll_Pattern" -> TollPatternData(r, left)
    [] t.kind = "HW_Junction"  -> JunctionData(r, left)

LEMMA InTable ==
  \A r, left : Size(r) = SizeIn(table, r) /\ Data(r, left) = DataIn(table, r, left)
  BY DEF Size, Data, SizeIn, DataIn

(* s[i] is the sum of the sizes of the records before the i-th. *)
IsPos(t, s, n) ==
  /\ s \in [1..(n + 1) -> Nat]
  /\ s[1] = 0
  /\ \A i \in 1..n : s[i + 1] = s[i] + SizeIn(t, t.rows[i])

Pos(t) == CHOOSE s : IsPos(t, s, Len(t.rows))

LEMMA RowSize ==
  ASSUME table \in Tables, NEW i \in 1..Len(table.rows)
  PROVE  SizeIn(table, table.rows[i]) \in Nat /\ SizeIn(table, table.rows[i]) >= 8
  <1>1. SizeIn(table, table.rows[i]) \in Nat
    BY RecordFits, InTable DEF rows
  <1>2. table.kind \in Kinds
    BY TablesAssumption
  <1>3. CASE table.kind = "Toll_ETA"
    <2>1. i \in DOMAIN table.rows
      BY TablesAssumption
    <2>2. PICK n \in Nat : n = Len(Lanes(table.rows[i]))
      BY <1>3, <2>1, RowsAssumption, LanesType
    <2>3. Padded(n) \in Nat
      BY PaddedHolds
    <2> QED  BY <1>1, <1>3, <2>2, <2>3 DEF SizeIn
  <1>4. CASE table.kind # "Toll_ETA"
    BY <1>1, <1>2, <1>4 DEF SizeIn, Kinds
  <1> QED  BY <1>3, <1>4

LEMMA PosIs ==
  ASSUME table \in Tables
  PROVE  IsPos(table, Pos(table), Len(table.rows))
  <1> DEFINE N == Len(table.rows)
             T == {n \in Nat : n <= N => \E s : IsPos(table, s, n)}
  <1>1. N \in Nat
    BY TablesAssumption
  <1>2. 0 \in T
    <2>1. IsPos(table, [i \in 1..(0 + 1) |-> 0], 0)
      BY DEF IsPos
    <2> QED  BY <2>1
  <1>3. ASSUME NEW n \in Nat, n \in T  PROVE n + 1 \in T
    <2> SUFFICES ASSUME n + 1 <= N  PROVE \E s : IsPos(table, s, n + 1)
      OBVIOUS
    <2>1. PICK s : IsPos(table, s, n)
      BY <1>1, <1>3
    <2> DEFINE size == SizeIn(table, table.rows[n + 1])
               u    == [i \in 1..(n + 1 + 1) |->
                          IF i = n + 2 THEN s[n + 1] + size ELSE s[i]]
    <2>2. size \in Nat
      <3>1. n + 1 \in 1..Len(table.rows)
        BY <1>1
      <3> QED  BY <3>1, RowSize
    <2> HIDE DEF size
    <2>3. s \in [1..(n + 1) -> Nat] /\ s[1] = 0
      BY <2>1 DEF IsPos
    <2>4. u \in [1..(n + 1 + 1) -> Nat] /\ u[1] = 0
      <3>1. ASSUME NEW i \in 1..(n + 1 + 1)
            PROVE  (IF i = n + 2 THEN s[n + 1] + size ELSE s[i]) \in Nat
        <4>1. CASE i = n + 2
          BY <2>2, <2>3, <4>1
        <4>2. CASE i \in 1..(n + 1)
          BY <2>3, <4>2
        <4> QED  BY <4>1, <4>2
      <3>2. u \in [1..(n + 1 + 1) -> Nat]
        BY <3>1
      <3>3. u[1] = s[1]
        OBVIOUS
      <3> QED  BY <2>3, <3>2, <3>3
    <2>5. ASSUME NEW i \in 1..(n + 1)
          PROVE  u[i + 1] = u[i] + SizeIn(table, table.rows[i])
      <3>1. CASE i = n + 1
        BY <3>1 DEF size
      <3>2. CASE i \in 1..n
        <4>1. u[i + 1] = s[i + 1] /\ u[i] = s[i]
          BY <3>2
        <4>2. s[i + 1] = s[i] + SizeIn(table, table.rows[i])
          BY <2>1, <3>2 DEF IsPos
        <4> QED  BY <4>1, <4>2
      <3> QED  BY <3>1, <3>2
    <2> HIDE DEF u
    <2>6. IsPos(table, u, n + 1)
      BY <2>4, <2>5 DEF IsPos
    <2> QED  BY <2>6
  <1>4. N \in T
    <2> HIDE DEF T
    <2> QED  BY <1>1, <1>2, <1>3, Induction
  <1>5. \E s : IsPos(table, s, N)
    BY <1>1, <1>4
  <1> QED  BY <1>5 DEF Pos

LEMMA PosFacts ==
  ASSUME table \in Tables
  PROVE  /\ Len(table.rows) \in Nat
         /\ Pos(table) \in [1..(Len(table.rows) + 1) -> Nat]
         /\ Pos(table)[1] = 0
         /\ \A i \in 1..Len(table.rows) :
              Pos(table)[i + 1] = Pos(table)[i] + SizeIn(table, table.rows[i])
  BY PosIs, TablesAssumption DEF IsPos

LEMMA Rises ==
  ASSUME NEW N \in Nat, NEW P \in [1..(N + 1) -> Nat],
         \A k \in 1..N : P[k] <= P[k + 1],
         NEW i \in 1..(N + 1), NEW j \in i..(N + 1)
  PROVE  P[i] <= P[j]
  <1> DEFINE T == {n \in Nat : i + n <= N + 1 => P[i] <= P[i + n]}
  <1>1. 0 \in T
    OBVIOUS
  <1>2. ASSUME NEW n \in Nat, n \in T  PROVE n + 1 \in T
    <2> SUFFICES ASSUME i + (n + 1) <= N + 1  PROVE P[i] <= P[i + (n + 1)]
      OBVIOUS
    <2>1. PICK k \in 1..N : k = i + n
      OBVIOUS
    <2>2. P[i] <= P[k] /\ P[k] <= P[k + 1]
      BY <1>2, <2>1
    <2>3. P[i] \in Nat /\ P[k] \in Nat /\ P[k + 1] \in Nat
      OBVIOUS
    <2>4. k + 1 = i + (n + 1)
      BY <2>1
    <2> QED  BY <2>2, <2>3, <2>4
  <1>3. j - i \in T
    <2>1. j - i \in Nat
      OBVIOUS
    <2> HIDE DEF T
    <2> QED  BY <1>1, <1>2, <2>1, Induction
  <1>4. i + (j - i) = j
    OBVIOUS
  <1> QED  BY <1>3, <1>4

(* A record ends before the later ones begin. *)
LEMMA PosGrows ==
  ASSUME table \in Tables,
         NEW i \in 1..Len(table.rows), NEW j \in (i + 1)..(Len(table.rows) + 1)
  PROVE  Pos(table)[i] + SizeIn(table, table.rows[i]) <= Pos(table)[j]
  <1> DEFINE N == Len(table.rows)
             P == Pos(table)
  <1>1. /\ N \in Nat /\ P \in [1..(N + 1) -> Nat]
        /\ \A k \in 1..N : P[k + 1] = P[k] + SizeIn(table, table.rows[k])
    BY PosFacts
  <1>2. ASSUME NEW k \in 1..N  PROVE P[k] <= P[k + 1]
    <2>1. SizeIn(table, table.rows[k]) \in Nat
      BY RowSize
    <2> HIDE DEF P
    <2>2. P[k] \in Nat
      BY <1>1
    <2> QED  BY <1>1, <2>1, <2>2
  <1>3. i + 1 \in 1..(N + 1) /\ j \in (i + 1)..(N + 1)
    BY <1>1
  <1> HIDE DEF P, N
  <1>4. P[i + 1] <= P[j]
    BY <1>1, <1>2, <1>3, Rises
  <1> QED  BY <1>1, <1>4 DEF P, N

-----------------------------------------------------------------------------
(* Streams *)

(* As far as f goes, the record of row i is where it belongs. *)
HoldsRow(t, f, i) ==
  \E left \in Leftovers :
    \A b \in 0..(8 * SizeIn(t, t.rows[i]) - 1) :
      8 * Pos(t)[i] + b < 8 * f.size =>
        (8 * Pos(t)[i] + b \in f.bits <=> b \in DataIn(t, t.rows[i], left))

(* f is a prefix of the complete stream of the first c rows. *)
IsStream(t, f, c) ==
  /\ IsBytes(f)
  /\ f.size <= Pos(t)[c + 1]
  /\ \A i \in 1..c : HoldsRow(t, f, i)

LEMMA StreamPrefix ==
  ASSUME table \in Tables, NEW c \in 0..Len(table.rows), NEW f,
         IsStream(table, f, c), NEW n \in 0..f.size
  PROVE  IsStream(table, Prefix(f, n), c)
  <1> DEFINE g == Prefix(f, n)
  <1>1. IsBytes(g)
    BY PrefixType DEF IsStream
  <1>2. PICK size \in Nat : size = f.size
    BY DEF IsStream, IsBytes
  <1>3. g.size = n /\ n \in Nat /\ n <= size
    BY <1>2 DEF Prefix
  <1>4. \A b \in Nat : b < 8 * n => (b \in g.bits <=> b \in f.bits)
    BY <1>2 DEF Prefix, Low
  <1>5. Len(table.rows) \in Nat /\ Pos(table) \in [1..(Len(table.rows) + 1) -> Nat]
    BY PosFacts
  <1> HIDE DEF g
  <1>6. g.size <= Pos(table)[c + 1]
    <2>1. c + 1 \in 1..(Len(table.rows) + 1)
      BY <1>5
    <2>2. Pos(table)[c + 1] \in Nat
      BY <1>5, <2>1
    <2> QED  BY <1>2, <1>3, <2>2 DEF IsStream
  <1>7. ASSUME NEW i \in 1..c  PROVE HoldsRow(table, g, i)
    <2> DEFINE p == Pos(table)[i]
               w == SizeIn(table, table.rows[i])
               d(left) == DataIn(table, table.rows[i], left)
    <2>1. PICK left \in Leftovers : \A b \in 0..(8 * w - 1) :
            8 * p + b < 8 * f.size => (8 * p + b \in f.bits <=> b \in d(left))
      BY DEF IsStream, HoldsRow
    <2>2. p \in Nat
      <3>1. i \in 1..(Len(table.rows) + 1)
        BY <1>5
      <3> QED  BY <1>5, <3>1
    <2> HIDE DEF p, w, d
    <2>3. ASSUME NEW b \in 0..(8 * w - 1), 8 * p + b < 8 * g.size
          PROVE  8 * p + b \in g.bits <=> b \in d(left)
      <3>1. 8 * p + b \in Nat /\ 8 * p + b < 8 * n /\ 8 * p + b < 8 * f.size
        BY <1>2, <1>3, <2>2, <2>3
      <3> QED  BY <1>4, <2>1, <3>1
    <2> QED  BY <2>3 DEF HoldsRow, p, w, d
  <1> QED  BY <1>1, <1>6, <1>7 DEF IsStream, g

(* A stream that has failed misses the record of the next row. *)
LEMMA StreamSkips ==
  ASSUME table \in Tables, NEW c \in 0..Len(table.rows), c + 1 <= Len(table.rows),
         NEW f, IsStream(table, f, c), NEW left \in Leftovers
  PROVE  IsStream(table, f, c + 1)
  <1> DEFINE P == Pos(table)
             N == Len(table.rows)
  <1>1. N \in Nat /\ P \in [1..(N + 1) -> Nat]
    BY PosFacts
  <1>2. PICK size \in Nat : size = f.size
    BY DEF IsStream, IsBytes
  <1>3. c + 1 \in 1..N /\ c + 1 + 1 \in 1..(N + 1) /\ c + 1 \in 1..(N + 1)
    BY <1>1
  <1>4. P[c + 1 + 1] = P[c + 1] + SizeIn(table, table.rows[c + 1])
        /\ SizeIn(table, table.rows[c + 1]) \in Nat
    BY <1>3, PosFacts, RowSize
  <1>5. size <= P[c + 1]
    BY <1>2 DEF IsStream
  <1> HIDE DEF P
  <1>6. P[c + 1] \in Nat /\ size <= P[c + 1 + 1]
    BY <1>1, <1>3, <1>4, <1>5
  <1>7. HoldsRow(table, f, c + 1)
    <2>1. \A b \in 0..(8 * SizeIn(table, table.rows[c + 1]) - 1) :
            ~ (8 * P[c + 1] + b < 8 * f.size)
      BY <1>2, <1>4, <1>5, <1>6
    <2> QED  BY <2>1 DEF HoldsRow, P
  <1>8. \A i \in 1..(c + 1) : i \in 1..c \/ i = c + 1
    OBVIOUS
  <1>9. \A i \in 1..(c + 1) : HoldsRow(table, f, i)
    <2>1. \A i \in 1..c : HoldsRow(table, f, i)
      BY DEF IsStream
    <2> QED  BY <1>7, <1>8, <2>1, Zenon
  <1> QED  BY <1>2, <1>6, <1>9 DEF IsStream, P

LEMMA ShlBits ==
  ASSUME NEW D, NEW w \in Nat, D \subseteq Within(w), NEW size \in Nat
  PROVE  \A b \in Nat : b < 8 * size => b \notin Shl(D, 8 * size)
  BY DEF Shl, Within

(* A complete stream gets the record of the next row. *)
LEMMA StreamGrows ==
  ASSUME table \in Tables, NEW c \in 0..Len(table.rows), c + 1 <= Len(table.rows),
         NEW f, IsStream(table, f, c), f.size = Pos(table)[c + 1],
         NEW left \in Leftovers, NEW g,
         g = Written(f, SizeIn(table, table.rows[c + 1]),
                     DataIn(table, table.rows[c + 1], left))
  PROVE  IsStream(table, g, c + 1) /\ g.size = Pos(table)[c + 1 + 1]
  <1> DEFINE P == Pos(table)
             N == Len(table.rows)
             w == SizeIn(table, table.rows[c + 1])
             D == DataIn(table, table.rows[c + 1], left)
  <1>1. N \in Nat /\ P \in [1..(N + 1) -> Nat]
    BY PosFacts
  <1>2. PICK size \in Nat : size = f.size
    BY DEF IsStream, IsBytes
  <1>3. c + 1 \in 1..N /\ c + 1 + 1 \in 1..(N + 1) /\ c + 1 \in 1..(N + 1)
    BY <1>1
  <1>4. P[c + 1 + 1] = P[c + 1] + w /\ w \in Nat
    BY <1>3, PosFacts, RowSize
  <1>5. D \subseteq Within(w)
    BY <1>3, RecordFits, InTable DEF rows
  <1>6. IsBytes(g)
    <2>1. IsBytes(f)
      BY DEF IsStream
    <2> HIDE DEF w, D
    <2>2. g = Written(f, w, D)
      BY DEF w, D
    <2> QED  BY <1>4, <1>5, <2>1, <2>2, WrittenType
  <1> HIDE DEF D, w, P
  <1>7. g.size = size + w /\ g.bits = f.bits \cup Shl(D, 8 * size)
    BY <1>2 DEF Written, w, D
  <1>8. size = P[c + 1] /\ g.size = P[c + 1 + 1]
    BY <1>2, <1>4, <1>7 DEF P
  <1>9. f.bits \subseteq 0..(8 * size - 1)
    BY <1>2 DEF IsStream, IsBytes, Within
  <1>10. \A b \in Nat : b < 8 * size => (b \in g.bits <=> b \in f.bits)
    BY <1>4, <1>5, <1>7, ShlBits
  <1>11. ASSUME NEW b \in Nat  PROVE 8 * size + b \in g.bits <=> b \in D
    <2>1. PICK x \in Nat : x = 8 * size
      <3>1. 8 * size \in Nat
        OBVIOUS
      <3> QED  BY <3>1
    <2>2. x + b \notin f.bits
      BY <1>9, <2>1
    <2>3. x + b \in Shl(D, x) => b \in D
      <3> SUFFICES ASSUME x + b \in Shl(D, x)  PROVE b \in D
        OBVIOUS
      <3>1. PICK d \in D : x + b = d + x
        BY DEF Shl
      <3>2. d \in Nat
        BY <1>4, <1>5 DEF Within
      <3> QED  BY <3>1, <3>2
    <2>4. b \in D => x + b \in Shl(D, x)
      <3> SUFFICES ASSUME b \in D  PROVE x + b \in Shl(D, x)
        OBVIOUS
      <3>1. b + x \in Shl(D, x) /\ b + x = x + b
        BY DEF Shl
      <3> QED  BY <3>1
    <2>5. g.bits = f.bits \cup Shl(D, x)
      BY <1>7, <2>1
    <2> QED  BY <2>1, <2>2, <2>3, <2>4, <2>5, Zenon
  <1>12. HoldsRow(table, g, c + 1)
    <2>1. \A b \in 0..(8 * w - 1) : 8 * P[c + 1] + b \in g.bits <=> b \in D
      <3>1. \A b \in 0..(8 * w - 1) : b \in Nat
        BY <1>4
      <3> QED  BY <1>8, <1>11, <3>1, Zenon
    <2> QED  BY <2>1 DEF HoldsRow, P, w, D
  <1>13. ASSUME NEW i \in 1..c  PROVE HoldsRow(table, g, i)
    <2> DEFINE v == SizeIn(table, table.rows[i])
               d(m) == DataIn(table, table.rows[i], m)
    <2>1. PICK m \in Leftovers : \A b \in 0..(8 * v - 1) :
            8 * P[i] + b < 8 * f.size => (8 * P[i] + b \in f.bits <=> b \in d(m))
      BY DEF IsStream, HoldsRow, P
    <2>2. i \in 1..N /\ i \in 1..(N + 1) /\ c + 1 \in (i + 1)..(N + 1)
      BY <1>1
    <2>3. v \in Nat /\ P[i] \in Nat
      BY <1>1, <2>2, RowSize
    <2>4. P[i] + v <= P[c + 1]
      BY <2>2, PosGrows DEF P
    <2> HIDE DEF v, d
    <2>5. ASSUME NEW b \in 0..(8 * v - 1)
          PROVE  8 * P[i] + b \in g.bits <=> b \in d(m)
      <3>1. 8 * P[i] + b \in Nat /\ 8 * P[i] + b < 8 * size
        BY <1>8, <2>3, <2>4
      <3> QED  BY <1>2, <1>10, <2>1, <3>1
    <2> QED  BY <2>5 DEF HoldsRow, P, v, d
  <1>14. \A i \in 1..(c + 1) : i \in 1..c \/ i = c + 1
    OBVIOUS
  <1>15. \A i \in 1..(c + 1) : HoldsRow(table, g, i)
    BY <1>12, <1>13, <1>14, Zenon
  <1>16. g.size <= P[c + 1 + 1]
    BY <1>1, <1>3, <1>8
  <1> QED  BY <1>6, <1>8, <1>15, <1>16 DEF IsStream, P

-----------------------------------------------------------------------------
(* Reading a stream *)

LEMMA StreamRecord ==
  ASSUME table \in Tables, NEW c \in 0..Len(table.rows), NEW f,
         IsStream(table, f, c), NEW i \in 1..c,
         Pos(table)[i] + SizeIn(table, table.rows[i]) <= f.size
  PROVE  \E left : RecordAt(f, Pos(table)[i], SizeIn(table, table.rows[i]),
                            DataIn(table, table.rows[i], left))
  <1> DEFINE p == Pos(table)[i]
             w == SizeIn(table, table.rows[i])
             d(left) == DataIn(table, table.rows[i], left)
  <1>1. Len(table.rows) \in Nat /\ Pos(table) \in [1..(Len(table.rows) + 1) -> Nat]
    BY PosFacts
  <1>2. i \in 1..Len(table.rows) /\ i \in 1..(Len(table.rows) + 1)
    BY <1>1
  <1>3. p \in Nat /\ w \in Nat
    BY <1>1, <1>2, RowSize
  <1>4. PICK size \in Nat : size = f.size
    BY DEF IsStream, IsBytes
  <1>5. PICK left \in Leftovers : \A b \in 0..(8 * w - 1) :
          8 * p + b < 8 * f.size => (8 * p + b \in f.bits <=> b \in d(left))
    BY DEF IsStream, HoldsRow
  <1>6. p + w <= size
    BY <1>4
  <1> HIDE DEF p, w, d
  <1>7. \A b \in 0..(8 * w - 1) : 8 * p + b < 8 * f.size
    BY <1>3, <1>4, <1>6
  <1>8. RecordAt(f, p, w, d(left))
    BY <1>5, <1>7 DEF RecordAt
  <1> QED  BY <1>8 DEF p, w, d

LEMMA EtaLanes ==
  ASSUME table \in Tables, table.kind = "Toll_ETA", NEW i \in 1..Len(table.rows),
         LegalTollETA(table.rows[i])
  PROVE  \E n \in 1..15 : HasLanes(table.rows[i], n)
  <1> DEFINE r == table.rows[i]
  <1>1. i \in DOMAIN table.rows
    BY TablesAssumption
  <1>2. r.TollMode \in Seq(Nat) /\ r.TollCard \in Seq(Nat)
    BY <1>1, RowsAssumption
  <1>3. Len(Lanes(r)) \in 1..15
    BY DEF LegalTollETA, InRange
  <1>4. Lanes(r) # <<>>
    <2> HIDE DEF r
    <2> SUFFICES ASSUME Lanes(r) = <<>>  PROVE FALSE
      OBVIOUS
    <2>1. Len(Lanes(r)) = 0
      OBVIOUS
    <2> QED  BY <1>3, <2>1
  <1> QED  BY <1>3, <1>4 DEF HasLanes

(* The record of a legal row says what the row says. *)
LEMMA RecordSays ==
  ASSUME table \in Tables, NEW i \in 1..Len(table.rows), Legal(table.rows[i]),
         table.kind = "Toll_Pattern" => TollPatternConverts(table.rows[i]),
         NEW f, NEW at \in Nat, NEW left,
         RecordAt(f, at, SizeIn(table, table.rows[i]),
                  DataIn(table, table.rows[i], left))
  PROVE  Says(f, at, table.rows[i])
  <1> DEFINE r == table.rows[i]
  <1>1. table.kind \in Kinds /\ i \in DOMAIN table.rows
    BY TablesAssumption
  <1>2. CASE table.kind = "CR"
    <2>1. LegalCR(r)
      BY <1>2 DEF Legal
    <2>2. /\ r.VPeriod.shape \in 0..4
          /\ r.VPeriod.shape = 1 =>
               {r.VPeriod.D1.form, r.VPeriod.D2.form} \subseteq {"Md", "other"}
      BY <1>1, <1>2, RowsAssumption
    <2>3. RecordAt(f, at, 16, CRData(r, left))
      BY <1>2 DEF SizeIn, DataIn
    <2> HIDE DEF r
    <2>4. LET B(q, w) == FieldAt(f, 8 * at + q, w) IN CRRead(B, r)
      BY <2>1, <2>2, <2>3, CRSays DEF CRRead, PeriodRead, TimesRead
    <2> QED  BY <1>2, <2>4 DEF Says, CRRead, PeriodRead, TimesRead, r
  <1>3. CASE table.kind = "Toll_ETA"
    <2>1. LegalTollETA(r)
      BY <1>3 DEF Legal
    <2>2. PICK n \in 1..15 : HasLanes(r, n)
      BY <1>3, <2>1, EtaLanes
    <2>3. RecordAt(f, at, 8 + Padded(n), TollETAData(r, left))
      BY <1>3, <2>2 DEF SizeIn, DataIn, HasLanes
    <2>4. 8 + Padded(n) \in Nat /\ 8 + Padded(n) >= 8 + n
      <3>1. n \in Nat
        OBVIOUS
      <3>2. Padded(n) \in Nat /\ Padded(n) >= n
        BY <3>1, PaddedHolds, Zenon
      <3> QED  BY <3>1, <3>2
    <2> HIDE DEF r
    <2>5. LET B(q, w) == FieldAt(f, 8 * at + q, w) IN TollETARead(B, r)
      <3>1. PICK size : size = 8 + Padded(n)
        OBVIOUS
      <3>2. RecordAt(f, at, size, TollETAData(r, left))
        BY <2>3, <3>1
      <3>3. size \in Nat /\ size >= 8 + n
        BY <2>4, <3>1
      <3> QED  BY <2>1, <2>2, <3>2, <3>3, TollETASays, SMTT(30)
              DEF TollETARead
    <2>6. Says(f, at, r)
      BY <1>3, <2>5 DEF Says, TollETARead
    <2> QED  BY <2>6 DEF r
  <1>4. CASE table.kind = "Toll_Pattern"
    <2>1. Id40(r.CondID) /\ TollPatternConverts(r)
      BY <1>4 DEF Legal
    <2>2. RecordAt(f, at, 16, TollPatternData(r, left))
      BY <1>4 DEF SizeIn, DataIn
    <2> HIDE DEF r
    <2>3. LET B(q, w) == FieldAt(f, 8 * at + q, w) IN TollPatternRead(B, r)
      BY <2>1, <2>2, TollPatternSays DEF TollPatternRead
    <2> QED  BY <1>4, <2>3 DEF Says, TollPatternRead, r
  <1>5. CASE table.kind = "HW_Junction"
    <2>1. LegalJunction(r)
      BY <1>5 DEF Legal
    <2>2. DOMAIN r.Estab_Item \subseteq Int
      <3>1. r.Estab_Item \in Seq(Int)
        BY <1>1, <1>5, RowsAssumption
      <3> HIDE DEF r
      <3> QED  BY <3>1
    <2>3. RecordAt(f, at, 24, JunctionData(r, left))
      BY <1>5 DEF SizeIn, DataIn
    <2> HIDE DEF r
    <2>4. LET B(q, w) == FieldAt(f, 8 * at + q, w) IN JunctionRead(B, r)
      BY <2>1, <2>2, <2>3, JunctionSays DEF JunctionRead, LinksRead
    <2> QED  BY <1>5, <2>4 DEF Says, JunctionRead, LinksRead, r
  <1> QED  BY <1>1, <1>2, <1>3, <1>4, <1>5 DEF Kinds

(* Where the sizes do not depend on the file, a reader finds all records. *)
LEMMA StartFixed ==
  ASSUME table \in Tables, table.kind # "Toll_ETA", NEW f,
         NEW i \in 1..(Len(table.rows) + 1)
  PROVE  Start(f)[i] = Pos(table)[i]
  <1> DEFINE N == Len(table.rows)
             P == Pos(table)
             S == Start(f)
             T == {n \in Nat : n + 1 <= N + 1 => S[n + 1] = P[n + 1]}
  <1>1. N \in Nat /\ P[1] = 0
        /\ \A k \in 1..N : P[k + 1] = P[k] + SizeIn(table, table.rows[k])
    BY PosFacts
  <1>2. \A k \in 1..(N + 1) :
          S[k] = IF k = 1 THEN 0 ELSE S[k - 1] + SizeAt(f, S[k - 1])
    BY <1>1, StartDef DEF rows
  <1>3. \A a, r : SizeAt(f, a) = SizeIn(table, r)
    <2>1. table.kind \in Kinds
      BY TablesAssumption
    <2> QED  BY <2>1 DEF Kinds, SizeAt, SizeIn
  <1> HIDE DEF P, S
  <1>4. 0 \in T
    BY <1>1, <1>2
  <1>5. ASSUME NEW n \in Nat, n \in T  PROVE n + 1 \in T
    <2> SUFFICES ASSUME n + 1 + 1 <= N + 1  PROVE S[n + 1 + 1] = P[n + 1 + 1]
      OBVIOUS
    <2>1. PICK k \in 1..N : k = n + 1
      BY <1>1
    <2>2. S[k] = P[k]
      BY <1>5, <2>1
    <2>3. P[k + 1] = P[k] + SizeIn(table, table.rows[k])
      BY <1>1
    <2>4. S[k + 1] = S[k] + SizeAt(f, S[k])
      <3>1. k + 1 \in 1..(N + 1) /\ k + 1 # 1 /\ (k + 1) - 1 = k
        OBVIOUS
      <3> QED  BY <1>2, <3>1
    <2>5. SizeAt(f, S[k]) = SizeIn(table, table.rows[k])
      BY <1>3
    <2> QED  BY <2>1, <2>2, <2>3, <2>4, <2>5
  <1>6. i - 1 \in T
    <2>1. i - 1 \in Nat
      BY <1>1
    <2> HIDE DEF T
    <2> QED  BY <1>4, <1>5, <2>1, Induction
  <1>7. (i - 1) + 1 = i /\ i <= N + 1
    BY <1>1
  <1> QED  BY <1>6, <1>7 DEF P, S

LEMMA LaneNumType ==
  ASSUME NEW f, NEW at \in Nat
  PROVE  LaneNumAt(f, at) \in 0..15
  <1>1. FieldAt(f, 8 * at + 44, 4) \subseteq 0..3
    BY DEF FieldAt
  <1>2. \E n \in 0..15 : Bits(n) = FieldAt(f, 8 * at + 44, 4)
    BY <1>1, BitsOnto
  <1> QED  BY <1>2 DEF LaneNumAt

LEMMA LaneNumRead ==
  ASSUME NEW f, NEW at \in Nat, NEW n \in 0..15,
         FieldAt(f, 8 * at + 44, 4) = Bits(n)
  PROVE  LaneNumAt(f, at) = n
  <1>1. LaneNumAt(f, at) \in 0..15 /\ Bits(LaneNumAt(f, at)) = Bits(n)
    BY DEF LaneNumAt
  <1> QED  BY <1>1, BitsInjective

LEMMA EtaSizeAt ==
  ASSUME table.kind = "Toll_ETA", NEW f, NEW at \in Nat
  PROVE  SizeAt(f, at) \in Nat /\ SizeAt(f, at) >= 8
  <1>1. PICK n \in Nat : n = LaneNumAt(f, at)
    BY LaneNumType
  <1>2. PICK m \in Nat : m = Padded(n)
    BY PaddedHolds
  <1>3. SizeAt(f, at) = 8 + m
    BY <1>1, <1>2 DEF SizeAt
  <1> QED  BY <1>3

(* The header of a legal row gives the size of its record. *)
LEMMA EtaSizeRead ==
  ASSUME table \in Tables, table.kind = "Toll_ETA", NEW c \in 0..Len(table.rows),
         NEW f, IsStream(table, f, c), NEW i \in 1..c,
         LegalTollETA(table.rows[i]), Pos(table)[i] + 8 <= f.size
  PROVE  SizeAt(f, Pos(table)[i]) = SizeIn(table, table.rows[i])
  <1> DEFINE p == Pos(table)[i]
             w == SizeIn(table, table.rows[i])
             r == table.rows[i]
             d(left) == DataIn(table, r, left)
  <1>1. Len(table.rows) \in Nat /\ Pos(table) \in [1..(Len(table.rows) + 1) -> Nat]
    BY PosFacts
  <1>2. i \in 1..Len(table.rows) /\ i \in 1..(Len(table.rows) + 1)
    BY <1>1
  <1>3. p \in Nat /\ w \in Nat /\ w >= 8
    BY <1>1, <1>2, RowSize
  <1>4. PICK n \in 1..15 : HasLanes(r, n)
    BY <1>2, EtaLanes
  <1>5. PICK size \in Nat : size = f.size
    BY DEF IsStream, IsBytes
  <1>6. PICK left \in Leftovers : \A b \in 0..(8 * w - 1) :
          8 * p + b < 8 * f.size => (8 * p + b \in f.bits <=> b \in d(left))
    BY DEF IsStream, HoldsRow
  <1>7. d(left) = TollETAData(r, left)
    BY DEF DataIn
  <1>8. \A k \in 1..n : Lanes(r)[k] \in 0..255
    BY <1>4, Zenon DEF LegalTollETA, HasLanes, InRange
  <1>9. w = 8 + Padded(n)
    BY <1>4 DEF SizeIn, HasLanes
  <1>10. p + 8 <= size
    BY <1>5
  <1> HIDE DEF p, w, r, d
  <1>11. Holds(d(left), 44, 4, Bits(n))
    BY <1>4, <1>7, <1>8, TollETAHolds
  <1>12. RecordAt(f, p, 8, d(left))
    <2>1. \A b \in 0..(8 * 8 - 1) : 8 * p + b < 8 * f.size /\ b \in 0..(8 * w - 1)
      BY <1>3, <1>5, <1>10
    <2> QED  BY <1>6, <2>1 DEF RecordAt
  <1>13. Bits(n) \subseteq 0..(4 - 1)
    BY BitsBelow
  <1>14. FieldAt(f, 8 * p + 44, 4) = Bits(n)
    <2>1. 44 \in Nat /\ 4 \in Nat /\ 8 \in Nat /\ 44 + 4 <= 8 * 8
      OBVIOUS
    <2> QED  BY <1>3, <1>11, <1>12, <1>13, <2>1, FieldRead
  <1>15. LaneNumAt(f, p) = n
    <2>1. n \in 0..15
      OBVIOUS
    <2> QED  BY <1>3, <1>14, <2>1, LaneNumRead
  <1>16. SizeAt(f, p) = 8 + Padded(n)
    BY <1>15 DEF SizeAt
  <1> QED  BY <1>9, <1>16 DEF p, w

(* As long as the rows are legal, a reader finds the next record, or has   *)
(* left what there is of the file.                                         *)
LEMMA StartEta ==
  ASSUME table \in Tables, table.kind = "Toll_ETA", NEW c \in 0..Len(table.rows),
         NEW f, IsStream(table, f, c), NEW i \in 1..(c + 1),
         \A j \in 1..(i - 1) : LegalTollETA(table.rows[j])
  PROVE  \/ Start(f)[i] = Pos(table)[i]
         \/ /\ Start(f)[i] \in Nat /\ Start(f)[i] + 8 > f.size
            /\ \E j \in 1..(i - 1) : Pos(table)[j] + 8 > f.size
  <1> DEFINE N == Len(table.rows)
             P == Pos(table)
             S == Start(f)
             Cut      == \E j \in 1..(i - 1) : P[j] + 8 > f.size
             Found(k) == S[k] = P[k] \/ (S[k] \in Nat /\ S[k] + 8 > f.size /\ Cut)
             T == {n \in Nat : n + 1 <= i => Found(n + 1)}
  <1>1. N \in Nat /\ P[1] = 0 /\ P \in [1..(N + 1) -> Nat]
        /\ \A k \in 1..N : P[k + 1] = P[k] + SizeIn(table, table.rows[k])
    BY PosFacts
  <1>2. \A k \in 1..(N + 1) :
          S[k] = IF k = 1 THEN 0 ELSE S[k - 1] + SizeAt(f, S[k - 1])
    BY <1>1, StartDef DEF rows
  <1>3. PICK size \in Nat : size = f.size
    BY DEF IsStream, IsBytes
  <1>4. ASSUME NEW k \in 1..(i - 1), P[k] + 8 <= f.size
        PROVE  SizeAt(f, P[k]) = SizeIn(table, table.rows[k])
    <2>1. k \in 1..c /\ LegalTollETA(table.rows[k])
      BY <1>1
    <2> QED  BY <1>4, <2>1, EtaSizeRead
  <1> HIDE DEF P, S
  <1>5. 0 \in T
    BY <1>1, <1>2
  <1>6. ASSUME NEW n \in Nat, n \in T  PROVE n + 1 \in T
    <2> SUFFICES ASSUME n + 1 + 1 <= i  PROVE Found(n + 1 + 1)
      OBVIOUS
    <2>1. PICK k \in 1..(i - 1) : k = n + 1
      <3>1. i \in Int
        OBVIOUS
      <3> QED  BY <3>1
    <2>2. k \in 1..N /\ k \in 1..(N + 1)
      BY <1>1
    <2>3. S[k + 1] = S[k] + SizeAt(f, S[k])
      <3>1. k + 1 \in 1..(N + 1) /\ k + 1 # 1 /\ (k + 1) - 1 = k
        BY <1>1
      <3> QED  BY <1>2, <3>1
    <2>4. P[k] \in Nat
      BY <1>1, <2>2
    <2>5. Found(k)
      <3>1. n + 1 <= i
        OBVIOUS
      <3> QED  BY <1>6, <2>1, <3>1
    <2>6. S[k] \in Nat
      BY <2>4, <2>5
    <2>7. SizeAt(f, S[k]) \in Nat /\ SizeAt(f, S[k]) >= 8
      BY <2>6, EtaSizeAt
    <2>8. CASE S[k] + 8 > f.size
      <3>1. S[k + 1] \in Nat /\ S[k + 1] + 8 > size
        BY <1>3, <2>3, <2>6, <2>7, <2>8
      <3>2. Cut
        BY <2>5, <2>8
      <3> HIDE DEF Cut
      <3>3. Found(k + 1)
        BY <1>3, <3>1, <3>2
      <3> QED  BY <2>1, <3>3
    <2>9. CASE S[k] + 8 <= f.size
      <3>1. S[k] = P[k]
        <4>1. ~ (S[k] + 8 > size)
          BY <1>3, <2>6, <2>9
        <4> QED  BY <1>3, <2>5, <4>1
      <3>2. SizeAt(f, P[k]) = SizeIn(table, table.rows[k])
        BY <1>4, <2>9, <3>1
      <3>3. S[k + 1] = P[k + 1]
        BY <1>1, <2>2, <2>3, <3>1, <3>2, Zenon
      <3>4. Found(k + 1)
        BY <3>3
      <3> QED  BY <2>1, <3>4
    <2>10. S[k] + 8 > f.size \/ S[k] + 8 <= f.size
      BY <1>3, <2>6
    <2> QED  BY <2>8, <2>9, <2>10
  <1>7. i - 1 \in T
    <2>1. i - 1 \in Nat
      OBVIOUS
    <2> HIDE DEF T
    <2> QED  BY <1>5, <1>6, <2>1, Induction
  <1>8. (i - 1) + 1 = i /\ i <= i
    BY <1>1
  <1>9. Found(i)
    BY <1>7, <1>8
  <1> QED  BY <1>9 DEF P, S

-----------------------------------------------------------------------------
(* The invariant *)

(* The rows of Toll Pattern that were stepped had numbers in their text.   *)
Converted(c) ==
  table.kind = "Toll_Pattern" => \A i \in 1..c : TollPatternConverts(table.rows[i])

(* After a number that does not convert: the file may have a part of the   *)
(* record of the row that was being read.                                  *)
WithPart ==
  /\ pc = "aborted"
  /\ cursor + 1 <= Len(table.rows)
  /\ IsStream(table, file, cursor + 1)

(* The stream, and the file once it is opened, is a prefix of the complete *)
(* stream of the rows stepped, and all of it as long as the stream is good. *)
Streams ==
  /\ IsStream(table, out, cursor)
  /\ good => out.size = Pos(table)[cursor + 1]
  /\ file = Old \/ IsStream(table, file, cursor) \/ WithPart
  /\ ok => pc = "done" /\ file = out
  /\ Converted(cursor)

LEMMA StreamsInit == Types /\ Init => Streams
  <1> SUFFICES ASSUME Types, Init  PROVE Streams
    OBVIOUS
  <1>1. table \in Tables /\ cursor = 0 /\ out = NoBytes /\ file = Old /\ ok = FALSE
    BY DEF Init
  <1>2. Pos(table)[cursor + 1] = 0
    <2>1. Pos(table)[1] = 0 /\ cursor + 1 = 1
      BY <1>1, PosFacts
    <2> QED  BY <2>1
  <1>3. IsStream(table, out, cursor)
    <2>1. IsBytes(out) /\ out.size = 0
      BY <1>1, NoBytesType DEF NoBytes
    <2>2. \A i \in 1..cursor : HoldsRow(table, out, i)
      BY <1>1
    <2> QED  BY <1>2, <2>1, <2>2 DEF IsStream
  <1>4. out.size = 0
    BY <1>1 DEF NoBytes
  <1>5. Converted(cursor)
    BY <1>1 DEF Converted
  <1> QED  BY <1>1, <1>2, <1>3, <1>4, <1>5 DEF Streams

(* With the record of the next row the stream is one of a row more. *)
LEMMA StreamAppended ==
  ASSUME Types, Streams, cursor + 1 <= Len(table.rows), NEW left \in Leftovers
  PROVE  LET g == Appended(table.rows[cursor + 1], left) IN
           /\ IsStream(table, g, cursor + 1)
           /\ good => g.size = Pos(table)[cursor + 1 + 1]
  <1> DEFINE g == Appended(table.rows[cursor + 1], left)
  <1>1. table \in Tables /\ cursor \in 0..Len(table.rows) /\ good \in BOOLEAN
    BY DEF Types, rows
  <1>2. IsStream(table, out, cursor) /\ (good => out.size = Pos(table)[cursor + 1])
    BY DEF Streams
  <1>3. CASE good
    <2>1. g = Written(out, SizeIn(table, table.rows[cursor + 1]),
                      DataIn(table, table.rows[cursor + 1], left))
      BY <1>3, InTable DEF Appended
    <2> HIDE DEF g
    <2>2. IsStream(table, g, cursor + 1) /\ g.size = Pos(table)[cursor + 1 + 1]
      BY <1>1, <1>2, <1>3, <2>1, StreamGrows
    <2> QED  BY <2>2 DEF g
  <1>4. CASE ~good
    <2>1. g = out
      BY <1>4 DEF Appended
    <2>2. IsStream(table, out, cursor + 1)
      BY <1>1, <1>2, StreamSkips
    <2> QED  BY <1>4, <2>1, <2>2
  <1> QED  BY <1>1, <1>3, <1>4

LEMMA StreamsExportRow == Types /\ Streams /\ ExportRow => Streams'
  <1> SUFFICES ASSUME Types, Streams, ExportRow  PROVE Streams'
    OBVIOUS
  <1> DEFINE c == cursor
  <1>1. /\ table' = table /\ cursor' = c + 1 /\ good' = good /\ file' = file
        /\ ok' = ok /\ pc' = pc /\ pc = "rows"
        /\ Converts(table.rows[c + 1])
    BY DEF ExportRow, rows
  <1>2. /\ table \in Tables /\ c \in 0..Len(table.rows) /\ c + 1 <= Len(table.rows)
        /\ good \in BOOLEAN
    <2>1. table \in Tables /\ c \in 0..Len(table.rows) /\ good \in BOOLEAN
      BY DEF Types, rows
    <2>2. Len(table.rows) \in Nat /\ c < Len(table.rows)
      BY <2>1, PosFacts DEF ExportRow, rows
    <2> QED  BY <2>1, <2>2
  <1>3. PICK left \in Leftovers : out' = Appended(table.rows[c + 1], left)
    BY DEF ExportRow, rows
  <1> HIDE DEF c
  <1>4. IsStream(table, out', c + 1) /\ (good => out'.size = Pos(table)[c + 1 + 1])
    BY <1>2, <1>3, StreamAppended DEF c
  <1>5. ~ WithPart
    BY <1>1 DEF WithPart
  <1>6. file' = Old \/ IsStream(table, file', c + 1)
    BY <1>1, <1>2, <1>3, <1>5, StreamSkips DEF Streams, c
  <1>7. ~ok'
    BY <1>1 DEF Streams
  <1>8. Converted(cursor)'
    <2> SUFFICES ASSUME table.kind = "Toll_Pattern", NEW i \in 1..(c + 1)
                 PROVE  TollPatternConverts(table.rows[i])
      BY <1>1 DEF Converted
    <2>1. TollPatternConverts(table.rows[c + 1])
      BY <1>1 DEF Converts
    <2>2. \A j \in 1..c : TollPatternConverts(table.rows[j])
      BY DEF Streams, Converted, c
    <2>3. i \in 1..c \/ i = c + 1
      BY <1>2
    <2> QED  BY <2>1, <2>2, <2>3
  <1> QED  BY <1>1, <1>4, <1>6, <1>7, <1>8 DEF Streams, c

LEMMA StreamsStep == Types /\ Streams /\ [Next]_vars => Streams'
  <1> SUFFICES ASSUME Types, Streams, [Next]_vars  PROVE Streams'
    OBVIOUS
  <1>1. table \in Tables /\ cursor \in 0..Len(table.rows)
    BY DEF Types, rows
  <1>2. ASSUME NEW n \in 0..out.size  PROVE IsStream(table, Prefix(out, n), cursor)
    BY <1>1, StreamPrefix DEF Streams
  <1>3. NoBytes = Prefix(out, 0) /\ 0 \in 0..out.size
    BY DEF NoBytes, Prefix, Low, Types, IsBytes
  <1>4. CASE Prepare \/ PrepareFails \/ OpenFails
    <2>1. UNCHANGED <<table, cursor, out, good, file, ok>> /\ pc # "done" /\ pc # "aborted"
      BY <1>4 DEF Prepare, PrepareFails, OpenFails
    <2> QED  BY <2>1 DEF Streams, Converted, WithPart
  <1>5. CASE OpenFile
    <2>1. UNCHANGED <<table, cursor, out, good, ok>> /\ file' = NoBytes /\ pc # "done"
      BY <1>5 DEF OpenFile
    <2>2. IsStream(table, file', cursor)
      BY <1>2, <1>3, <2>1
    <2> QED  BY <2>1, <2>2 DEF Streams, Converted
  <1>6. CASE ExportRow
    BY <1>6, StreamsExportRow
  <1>7. CASE WriteFails
    <2>1. UNCHANGED <<table, pc, cursor, file, ok>> /\ good' = FALSE /\ pc = "rows"
      BY <1>7 DEF WriteFails
    <2>2. PICK n \in 0..out.size : out' = Prefix(out, n)
      BY <1>7 DEF WriteFails
    <2>3. IsStream(table, out', cursor)
      BY <1>2, <2>2
    <2> QED  BY <2>1, <2>3 DEF Streams, Converted, WithPart
  <1>8. CASE BadNumber
    <2>1. UNCHANGED <<table, cursor, out, good, ok>> /\ pc = "rows" /\ pc' = "aborted"
      BY <1>8 DEF BadNumber
    <2>2. PICK left \in Leftovers, n \in 0..(out.size + Early) :
            file' = Prefix(Appended(table.rows[cursor + 1], left), n)
      BY <1>8 DEF BadNumber, rows
    <2>3. cursor + 1 \in 1..Len(rows)
      BY <1>8, NextRow DEF BadNumber
    <2>4. cursor + 1 <= Len(table.rows) /\ cursor + 1 \in 0..Len(table.rows)
      BY <1>1, <2>3 DEF rows
    <2>5. IsStream(table, Appended(table.rows[cursor + 1], left), cursor + 1)
      BY <2>4, StreamAppended
    <2>6. n \in 0..Appended(table.rows[cursor + 1], left).size
      BY <2>3, EarlyPart DEF rows
    <2>7. IsStream(table, file', cursor + 1)
      BY <1>1, <2>2, <2>4, <2>5, <2>6, StreamPrefix
    <2> QED  BY <2>1, <2>4, <2>7 DEF Streams, Converted, WithPart
  <1>9. CASE EndOfRows
    <2>1. UNCHANGED <<table, cursor, out, good>> /\ pc' = "done" /\ file' = out
      BY <1>9 DEF EndOfRows
    <2> QED  BY <2>1 DEF Streams, Converted
  <1>10. CASE Done \/ UNCHANGED vars
    BY <1>10 DEF Streams, Converted, WithPart, Done, vars
  <1> QED  BY <1>4, <1>5, <1>6, <1>7, <1>8, <1>9, <1>10 DEF Next

(* A reader of a prefix of the stream finds every whole record. *)
LEMMA StreamReadsBack ==
  ASSUME table \in Tables, NEW c \in 0..Len(table.rows),
         NEW f, IsStream(table, f, c), NEW i \in 1..c,
         table.kind = "Toll_Pattern" => TollPatternConverts(table.rows[i]),
         \A j \in 1..i : (j = i \/ table.kind = "Toll_ETA") => Legal(table.rows[j]),
         Start(f)[i] + Size(table.rows[i]) <= f.size
  PROVE  Says(f, Start(f)[i], table.rows[i])
  <1> DEFINE w == SizeIn(table, table.rows[i])
             p == Pos(table)[i]
             S == Start(f)
  <1>1. Len(table.rows) \in Nat /\ Pos(table) \in [1..(Len(table.rows) + 1) -> Nat]
    BY PosFacts
  <1>2. i \in 1..Len(table.rows) /\ i \in 1..(Len(table.rows) + 1) /\ i \in 1..(c + 1)
    BY <1>1
  <1>3. p \in Nat /\ w \in Nat /\ w >= 8
    BY <1>1, <1>2, RowSize
  <1>4. PICK size \in Nat : size = f.size
    BY DEF IsStream, IsBytes
  <1>5. S[i] + w <= size
    BY <1>4, InTable
  <1>6. S[i] = p
    <2>1. CASE table.kind # "Toll_ETA"
      BY <1>2, <2>1, StartFixed
    <2>2. CASE table.kind = "Toll_ETA"
      <3>1. \A j \in 1..(i - 1) : LegalTollETA(table.rows[j])
        <4>1. \A j \in 1..(i - 1) : j \in 1..i
          OBVIOUS
        <4>2. \A j \in 1..i : Legal(table.rows[j])
          BY <2>2
        <4> QED  BY <2>2, <4>1, <4>2 DEF Legal
      <3>2. S[i] = p \/ (S[i] \in Nat /\ S[i] + 8 > f.size)
        BY <1>2, <2>2, <3>1, StartEta
      <3> HIDE DEF S, p, w
      <3> QED  BY <1>3, <1>4, <1>5, <3>2
    <2> QED  BY <2>1, <2>2
  <1>7. p + w <= f.size
    BY <1>4, <1>5, <1>6
  <1>8. PICK left : RecordAt(f, p, w, DataIn(table, table.rows[i], left))
    BY <1>7, StreamRecord
  <1>9. Legal(table.rows[i])
    <2>1. i \in 1..i
      BY <1>2
    <2> QED  BY <2>1
  <1>10. Says(f, p, table.rows[i])
    BY <1>2, <1>3, <1>8, <1>9, RecordSays
  <1> QED  BY <1>6, <1>10

LEMMA StreamsReadBack == Types /\ Streams => RecordsReadBack
  <1> SUFFICES ASSUME Types, Streams,
                      NEW f \in {out, file} \ {Old}, NEW i \in 1..cursor,
                      ~ \E j \in 1..i : ~Legal(rows[j])
                                          /\ (j = i \/ table.kind = "Toll_ETA"),
                      Start(f)[i] + Size(rows[i]) <= f.size
               PROVE  Says(f, Start(f)[i], rows[i])
    BY DEF RecordsReadBack
  <1>1. table \in Tables /\ cursor \in 0..Len(table.rows)
    BY DEF Types, rows
  <1>2. PICK c \in 0..Len(table.rows) : IsStream(table, f, c) /\ cursor <= c
    <2>1. IsStream(table, f, cursor)
            \/ (cursor + 1 <= Len(table.rows) /\ IsStream(table, f, cursor + 1))
      BY DEF Streams, WithPart
    <2>2. cursor <= cursor /\ cursor <= cursor + 1 /\ cursor + 1 \in Nat
          /\ Len(table.rows) \in Nat
      BY <1>1, PosFacts
    <2> QED  BY <1>1, <2>1, <2>2
  <1>3. \A j \in 1..i : (j = i \/ table.kind = "Toll_ETA") => Legal(table.rows[j])
    BY Zenon DEF rows
  <1>4. Start(f)[i] + Size(table.rows[i]) <= f.size
    BY DEF rows
  <1>5. Says(f, Start(f)[i], table.rows[i])
    <2>1. i \in 1..c
      BY <1>1, <1>2
    <2>2. table.kind = "Toll_Pattern" => TollPatternConverts(table.rows[i])
      BY DEF Streams, Converted
    <2> QED  BY <1>1, <1>2, <1>3, <1>4, <2>1, <2>2, StreamReadsBack
  <1> QED  BY <1>5 DEF rows

LEMMA StreamsComplete == Types /\ Streams => EveryRowOnce
  <1> SUFFICES ASSUME Types, Streams, ok, good, cursor = Len(rows),
                      \A i \in 1..Len(rows) : Legal(rows[i])
               PROVE  file.size = Start(file)[Len(rows) + 1]
    BY DEF EveryRowOnce
  <1> DEFINE N == Len(table.rows)
  <1>1. table \in Tables /\ cursor \in 0..N /\ cursor = N
    BY DEF Types, rows
  <1>2. N \in Nat /\ Pos(table) \in [1..(N + 1) -> Nat]
    BY <1>1, PosFacts
  <1>3. file = out /\ IsStream(table, file, N) /\ file.size = Pos(table)[N + 1]
    BY <1>1 DEF Streams
  <1>4. N + 1 \in 1..(N + 1) /\ (N + 1) - 1 = N
    BY <1>2
  <1>5. CASE table.kind # "Toll_ETA"
    BY <1>1, <1>3, <1>4, <1>5, StartFixed DEF rows
  <1>6. CASE table.kind = "Toll_ETA"
    <2>1. \A j \in 1..((N + 1) - 1) : LegalTollETA(table.rows[j])
      BY <1>4, <1>6 DEF rows, Legal
    <2>2. ASSUME NEW j \in 1..((N + 1) - 1)  PROVE ~ (Pos(table)[j] + 8 > file.size)
      <3> DEFINE P == Pos(table)
                 w == SizeIn(table, table.rows[j])
      <3>1. j \in 1..N /\ j \in 1..(N + 1) /\ N + 1 \in (j + 1)..(N + 1)
        BY <1>2
      <3>2. P[j] + w <= P[N + 1]
        BY <1>1, <3>1, PosGrows
      <3>3. w \in Nat /\ w >= 8
        BY <1>1, <3>1, RowSize
      <3>4. P[j] \in Nat /\ P[N + 1] \in Nat /\ file.size = P[N + 1]
        BY <1>2, <1>3, <1>4, <3>1
      <3> HIDE DEF P, w
      <3>5. ~ (P[j] + 8 > file.size)
        BY <3>2, <3>3, <3>4
      <3> QED  BY <3>5 DEF P
    <2>3. N \in 0..Len(table.rows)
      BY <1>2
    <2>4. Start(file)[N + 1] = Pos(table)[N + 1]
      BY <1>1, <1>3, <1>4, <1>6, <2>1, <2>2, <2>3, StartEta
    <2> QED  BY <1>3, <2>4 DEF rows
  <1> QED  BY <1>5, <1>6

(* For every table of any number of rows, whatever fails and wherever the  *)
(* file is cut off: a reader of the layout in TableReader (the documented  *)
(* one but for the three places named there, which are the code's) finds   *)
(* at place i, for every whole record there, what row i says, field by     *)
(* field, as long as the rows that matter are in the documented ranges.    *)
THEOREM RecordsAreRead == Spec => []RecordsReadBack
  <1>1. Init => Types /\ Streams
    BY TypesInit, StreamsInit
  <1>2. Types /\ Streams /\ [Next]_vars => (Types /\ Streams)'
    BY TypesStep, StreamsStep
  <1> QED  BY <1>1, <1>2, StreamsReadBack, PTL DEF Spec

(* For every table of legal rows: when no write and no step failed, the    *)
(* file ends where a reader who has read a record for every row stands.    *)
THEOREM RowsAreComplete == Spec => []EveryRowOnce
  <1>1. Init => Types /\ Streams
    BY TypesInit, StreamsInit
  <1>2. Types /\ Streams /\ [Next]_vars => (Types /\ Streams)'
    BY TypesStep, StreamsStep
  <1> QED  BY <1>1, <1>2, StreamsComplete, PTL DEF Spec
=============================================================================
