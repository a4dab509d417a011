------------------------------ MODULE CondStream ------------------------------
(***************************************************************************)
(* What the export promises, without statements and cursors: the rows of   *)
(* table C that name a condition or a CR turn into records one after the   *)
(* other, each with everything the other tables hold for it, and the file  *)
(* is replaced once, by the complete stream or by a prefix of it.  From a  *)
(* database that cannot be read to its end, the first rows of a table may  *)
(* stand for all of them, and the first records for the stream.            *)
(***************************************************************************)
EXTENDS CondData, FiniteSets

CONSTANTS OldBin, Leftover, Faulty

VARIABLES
  db,      \* the database
  todo,    \* the rows of C whose record is not in the stream yet
  stream,  \* the units of the records
  stage,   \* of the file: "closed", "open" or "saved"
  file     \* its content

(* The n smallest elements of a set of row numbers, in order.              *)
Lowest(S, n) ==
  [k \in 1..n |->
     CHOOSE i \in S : Cardinality({j \in S : j < i}) = k - 1]

Matches(d, t, id) == IF id = NoId THEN {} ELSE Hits(d, t, id)

(* What may be read of the rows with an ID: all, or all up to some row.    *)
Reads(d, t, id) ==
  LET S == Matches(d, t, id) IN
  IF d \in Faulty THEN {{i \in S : i <= x} : x \in S \cup {0}} ELSE {S}

(* The rows of S when there is but one.                                    *)
TheOnly(S) == {r \in S : Cardinality(S) = 1}

(* The record of row i of C: the first 15 of the CRs of its CRID, its Toll *)
(* ETA row when it is the only one and has 8 lanes at the most, which is   *)
(* what 15 bytes hold of a list in multiples of 8, and its pattern when it *)
(* is the only one.                                                        *)
IsRecord(b, d, i) ==
  \E crs \in Reads(d, "CR", d["C"][i].crid) :
  \E etas \in Reads(d, "Toll_ETA", d["C"][i].cond) :
  \E ptns \in Reads(d, "Toll_Pattern", d["C"][i].cond) :
    LET kept == {r \in crs : Cardinality({j \in crs : j < r}) < 15}
        eta  == {r \in TheOnly(etas) : Lanes(d["Toll_ETA"][r]) <= 8}
        n    == Cardinality(kept)
        e    == Cardinality(eta)
        p    == Cardinality(TheOnly(ptns))
    IN  /\ Len(b) = 1 + e + p + n
        /\ b[1] = HeaderUnit(i, n, e, p)
        /\ \A r \in eta : \E g \in IF Lanes(d["Toll_ETA"][r]) = 0 THEN Leftover
                                   ELSE {Lanes(d["Toll_ETA"][r])} :
             b[2] = EtaUnit(r, Lanes(d["Toll_ETA"][r]), g)
        /\ \A r \in TheOnly(ptns) : b[2 + e] = PatternUnit(r)
        /\ \A k \in 1..n : b[1 + e + p + k] = CRUnit(Lowest(kept, n)[k])

Init ==
  /\ IsDatabase(db)
  /\ todo = Selected(db)
  /\ stream = <<>>
  /\ stage = "closed"
  /\ file = OldBin

Open ==
  /\ stage = "closed"
  /\ stage' = "open"
  /\ file' = <<>>
  /\ UNCHANGED <<db, todo, stream>>

(* The record of the first row that has none is appended.                  *)
Emit ==
  /\ stage = "open"
  /\ \E i \in todo :
       /\ \A j \in todo : i <= j
       /\ todo' = todo \ {i}
       /\ Len(stream') >= Len(stream)
       /\ SubSeq(stream', 1, Len(stream)) = stream
       /\ IsRecord(SubSeq(stream', Len(stream) + 1, Len(stream')), db, i)
  /\ UNCHANGED <<db, stage, file>>

(* The header counts the records there are.                                *)
Save ==
  /\ stage = "open"
  /\ todo = {} \/ db \in Faulty
  /\ stage' = "saved"
  /\ LET whole ==
           <<FileHeader(Cardinality(Selected(db) \ todo), Len(stream))>> \o stream
     IN  \E n \in 0..Len(whole) : file' = SubSeq(whole, 1, n)
  /\ UNCHANGED <<db, todo, stream>>

Next == Open \/ Emit \/ Save

Spec == Init /\ [][Next]_<<db, todo, stream, stage, file>>
=============================================================================
