----------------------------- MODULE TableExport -----------------------------
(***************************************************************************)
(* The export of a single table: parse_db_CR, parse_db_Toll_ETA,           *)
(* parse_db_Toll_Pattern and parse_db_HW_Junction, which have the same     *)
(* loop (addon/src/cm_db.cpp).  The select statement is created, the file  *)
(* is truncated, and every row is stepped, converted and written.          *)
(*                                                                         *)
(* A failing step ends the loop like the end of the table, a failing write *)
(* leaves the stream bad and goes unnoticed, and a number that does not    *)
(* convert ends the program, with as much of the file written as the       *)
(* stream had flushed.                                                     *)
(***************************************************************************)
EXTENDS RowCodec

CONSTANTS
  Tables,     \* the tables exported: records [kind, there, rows]
  Leftovers,  \* what the memory of a local record may hold before
  Faulty      \* those in whose export a step or a write may fail

Kinds == {"CR", "Toll_ETA", "Toll_Pattern", "HW_Junction"}

ASSUME TablesAssumption ==
  \A t \in Tables : /\ t.kind \in Kinds
                     /\ t.there \in BOOLEAN
                     /\ Len(t.rows) \in Nat
                     /\ DOMAIN t.rows = 1..Len(t.rows)
ASSUME RowsAssumption ==
  \A t \in Tables : \A k \in DOMAIN t.rows :
    LET r == t.rows[k] IN
      /\ t.kind = "CR" => /\ r.VPeriod.shape \in 0..4
                          /\ r.VPeriod.shape = 1 =>
                               {r.VPeriod.D1.form, r.VPeriod.D2.form}
                                 \subseteq {"Md", "other"}
      /\ t.kind = "Toll_ETA" => r.TollMode \in Seq(Nat) /\ r.TollCard \in Seq(Nat)
      /\ t.kind = "HW_Junction" => r.Estab_Item \in Seq(Int)
ASSUME LeftoversAssumption == Leftovers \subseteq SUBSET Nat
ASSUME FaultyAssumption == Faulty \subseteq Tables

VARIABLES
  table,   \* the table in the database
  pc,      \* "prepare", "open", "rows", "done", "aborted"
  cursor,  \* rows stepped
  out,     \* the stream: the bytes written to it
  good,    \* the stream has not failed
  file,    \* the .bin file
  ok       \* the result

vars == <<table, pc, cursor, out, good, file, ok>>

rows == table.rows

(* Bytes: their number and the positions of the one bits. *)
NoBytes == [size |-> 0, bits |-> {}]
Old     == [size |-> 3, bits |-> {0}]  \* a file of an earlier export

Written(f, size, bits) ==
  [size |-> f.size + size, bits |-> f.bits \cup Shl(bits, 8 * f.size)]

Prefix(f, n) == [size |-> n, bits |-> Low(f.bits, 8 * n)]

-----------------------------------------------------------------------------
(* A row as the code converts it *)

Converts(r) == ~r.bad /\ (table.kind = "Toll_Pattern" => TollPatternConverts(r))

(* Fault: the lanes are not padded. *)
SizeUnpadded(r) ==
  CASE table.kind = "CR"           -> 16
    [] table.kind = "Toll_ETA"     -> 8 + Len(Lanes(r))
    [] table.kind = "Toll_Pattern" -> 16
    [] table.kind = "HW_Junction"  -> 24

Size(r) ==
  CASE table.kind = "CR"           -> 16
    [] table.kind = "Toll_ETA"     -> 8 + Padded(Len(Lanes(r)))
    [] table.kind = "Toll_Pattern" -> 16
    [] table.kind = "HW_Junction"  -> 24

Data(r, left) ==
  CASE table.kind = "CR"           -> CRData(r, left)
    [] table.kind = "Toll_ETA"     -> TollETAData(r, left)
    [] table.kind = "Toll_Pattern" -> TollPatternData(r, left)
    [] table.kind = "HW_Junction"  -> JunctionData(r, left)

(* What the stream holds after the row is written. *)
Appended(r, left) ==
  IF good THEN Written(out, Size(r), Data(r, left)) ELSE out

(* Bytes of a row that are written before its last number is converted:    *)
(* two of the three parts of a junction.                                   *)
Early == IF good /\ table.kind = "HW_Junction" THEN 16 ELSE 0

-----------------------------------------------------------------------------
Init ==
  /\ table \in Tables
  /\ pc = "prepare"
  /\ cursor = 0
  /\ out = NoBytes
  /\ good = TRUE
  /\ file = Old
  /\ ok = FALSE

(* Fault: the file is opened before the statement is created. *)
PrepareLate ==
  /\ pc = "prepare"
  /\ IF table.there THEN pc' = "open" /\ UNCHANGED file
     ELSE pc' = "done" /\ file' = NoBytes
  /\ UNCHANGED <<table, cursor, out, good, ok>>

(* The select statement; without the table it cannot be prepared. *)
Prepare ==
  /\ pc = "prepare"
  /\ pc' = IF table.there THEN "open" ELSE "done"
  /\ UNCHANGED <<table, cursor, out, good, file, ok>>

PrepareFails ==
  /\ table \in Faulty
  /\ pc = "prepare"
  /\ pc' = "done"
  /\ UNCHANGED <<table, cursor, out, good, file, ok>>

(* std::ofstream ofs(bin_path) truncates the file. *)
OpenFile ==
  /\ pc = "open"
  /\ pc' = "rows"
  /\ file' = NoBytes
  /\ UNCHANGED <<table, cursor, out, good, ok>>

OpenFails ==
  /\ table \in Faulty
  /\ pc = "open"
  /\ pc' = "done"
  /\ UNCHANGED <<table, cursor, out, good, file, ok>>

(* One turn of the loop. *)
ExportRow ==
  /\ pc = "rows"
  /\ cursor < Len(rows)
  /\ Converts(rows[cursor + 1])
  /\ cursor' = cursor + 1
  /\ \E left \in Leftovers : out' = Appended(rows[cursor + 1], left)
  /\ UNCHANGED <<table, pc, good, file, ok>>

(* A write of the stream to the disk fails: it writes nothing any more. *)
WriteFails ==
  /\ table \in Faulty
  /\ pc = "rows"
  /\ good
  /\ good' = FALSE
  /\ \E n \in 0..out.size : out' = Prefix(out, n)
  /\ UNCHANGED <<table, pc, cursor, file, ok>>

(* The exception of stoi or stoul ends the program; the file has what the  *)
(* stream had flushed, of a junction parts of the bad row too.             *)
BadNumber ==
  /\ pc = "rows"
  /\ cursor < Len(rows)
  /\ ~Converts(rows[cursor + 1])
  /\ pc' = "aborted"
  /\ \E left \in Leftovers, n \in 0..(out.size + Early) :
        file' = Prefix(Appended(rows[cursor + 1], left), n)
  /\ UNCHANGED <<table, cursor, out, good, ok>>

(* No further row, or a step that fails; the file is closed. *)
EndOfRows ==
  /\ pc = "rows"
  /\ cursor = Len(rows) \/ table \in Faulty
  /\ pc' = "done"
  /\ file' = out
  /\ ok' = TRUE
  /\ UNCHANGED <<table, cursor, out, good>>

Done ==
  /\ pc \in {"done", "aborted"}
  /\ UNCHANGED vars

Next ==
  \/ Prepare \/ PrepareFails \/ OpenFile \/ OpenFails
  \/ ExportRow \/ WriteFails \/ BadNumber \/ EndOfRows \/ Done

Spec == Init /\ [][Next]_vars
=============================================================================
