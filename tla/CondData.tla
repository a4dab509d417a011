------------------------------ MODULE CondData -------------------------------
(***************************************************************************)
(* The data that the export of the C, CR and Toll tables reads and writes: *)
(* the rows of the combined database and the 16 byte units of the .bin     *)
(* file (parse_db_C_CR_Toll in addon/src/cm_db.cpp).                       *)
(***************************************************************************)
EXTENDS Integers, Sequences

CONSTANTS
  Ids,   \* the non-empty condition IDs and CR IDs
  NoId   \* the empty text

ASSUME IdsAssumption == NoId \notin Ids

Joined == {"CR", "Toll_ETA", "Toll_Pattern"}
Tables == Joined \cup {"C"}

Id == Ids \cup {NoId}

(***************************************************************************)
(* Rows, in rowid order.  "bad" stands for a text that stoi or stoul       *)
(* rejects with an exception; mode and card count the lanes that a         *)
(* Toll_ETA row lists in TollMode and in CardMode.                         *)
(***************************************************************************)
CRow    == [cond : Id, crid : Id, bad : BOOLEAN]
JoinRow == [key : Id, bad : BOOLEAN]
EtaRow  == [key : Id, bad : BOOLEAN, mode : Nat, card : Nat]

(* A database is a function on the tables it has.                          *)
IsDatabase(d) ==
  /\ DOMAIN d \subseteq Tables
  /\ \A t \in DOMAIN d :
       d[t] \in CASE t = "C" -> Seq(CRow)
                  [] t = "Toll_ETA" -> Seq(EtaRow)
                  [] OTHER -> Seq(JoinRow)

(* select * from C where CondID != "" or CRID != ""                        *)
Selected(d) ==
  IF "C" \in DOMAIN d
  THEN {i \in DOMAIN d["C"] : d["C"][i].cond # NoId \/ d["C"][i].crid # NoId}
  ELSE {}

(* select * from <t> where CRID/CondID == ?                                *)
Hits(d, t, k) ==
  IF t \in DOMAIN d THEN {i \in DOMAIN d[t] : d[t][i].key = k} ELSE {}

-----------------------------------------------------------------------------
(* Units of the stream *)

(* The lanes of both columns go into one string, padded with zero bytes to *)
(* a multiple of 8; 15 bytes are the room there is.                        *)
Lanes(r)   == r.mode + r.card
Padded(n)  == ((n + 7) \div 8) * 8
LanesFit(r) == Padded(Lanes(r)) <= 15

(* Fault: as many CRs as there are, whatever 4 bits can count.             *)
CountAll(n) == n

CountCR(n) == IF n < 15 THEN n ELSE 15

HeaderUnit(i, n, e, p) ==
  [unit |-> "record", src |-> i, cnt |-> n, eta |-> e, ptn |-> p]
EtaUnit(i, n, g) == [unit |-> "eta", src |-> i, num |-> g, lanes |-> n]
PatternUnit(i)   == [unit |-> "ptn", src |-> i]
CRUnit(i)        == [unit |-> "cr", src |-> i]
FileHeader(n, z) == [unit |-> "file", recnum |-> n, datsiz |-> z]
=============================================================================
