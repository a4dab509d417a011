----------------------------- MODULE TableReader -----------------------------
(***************************************************************************)
(* What a reader of the file of a single table finds in it, and the        *)
(* properties of TableExport in its terms.  The reader follows the         *)
(* documentation (the comment addon/src/cm_db.cpp:20-172 and               *)
(* doc/addoncmpi.md) except in three places:                               *)
(*   - the links of a junction are read where the code puts them, at bytes *)
(*     13 and 18; by the documented sizes of the parts they would be at 14 *)
(*     and 19 (DocLinksRead);                                              *)
(*   - of the two documented codes of a gasoline station, 1..5 and 15 in   *)
(*     addoncmpi.md:156-164 and 21..26 in cm_db.cpp:159-165, it takes the  *)
(*     first: 21..26 does not fit into the four bits;                      *)
(*   - a Toll ETA record has its lanes behind the "up to 8 bytes" of       *)
(*     cm_db.cpp:132.                                                      *)
(***************************************************************************)
EXTENDS TableExport

-----------------------------------------------------------------------------
(* Rows the format has room for: values in the documented ranges. *)

InRange(n, a, b) == n \in a..b

LegalTime(t) ==
  \/ t.form = "other"
  \/ t.form = "h" /\ InRange(t.h, 0, 23)
  \/ t.form = "hm" /\ InRange(t.h, 0, 23) /\ InRange(t.m, 0, 59)

LegalDate(d) ==
  d.form = "other" \/ (InRange(d.M, 1, 12) /\ InRange(d.d, 1, 31))

LegalPeriod(p) ==
  CASE p.shape = 0 -> TRUE
    [] p.shape = 1 -> /\ ~p.more /\ LegalDate(p.D1) /\ LegalDate(p.D2)
                      /\ LegalTime(p.t1) /\ LegalTime(p.t2)
    [] p.shape \in {2, 3} -> ~p.more /\ LegalTime(p.t1) /\ LegalTime(p.t2)
    [] p.shape = 4 -> FALSE

Id40(B) == B \subseteq 0..39

LegalCR(r) ==
  /\ Id40(r.CRID) /\ r.Veh_Type \subseteq 0..31
  /\ InRange(r.VPDir, 0, 3)
  /\ r.VP_Appro = NoNumber \/ InRange(r.VP_Appro, 0, 1)
  /\ LegalPeriod(r.VPeriod)

LegalTollETA(r) ==
  /\ Id40(r.CondID) /\ InRange(r.TollType, 0, 15)
  /\ InRange(Len(Lanes(r)), 1, 15)
  /\ \A k \in 1..Len(Lanes(r)) : InRange(Lanes(r)[k], 0, 255)

LegalJunction(r) ==
  /\ Id40(r.ID) /\ Id40(r.NodeID) /\ Id40(r.inLinkID) /\ Id40(r.outLinkID)
  /\ InRange(r.AccessType, 0, 15) /\ InRange(r.Attr, 0, 15)
  /\ \A j, k \in DOMAIN r.Estab_Item :
        {r.Estab_Item[j], r.Estab_Item[k]} \subseteq Stations => j = k

Legal(r) ==
  CASE table.kind = "CR"           -> LegalCR(r)
    [] table.kind = "Toll_ETA"     -> LegalTollETA(r)
    [] table.kind = "Toll_Pattern" -> Id40(r.CondID)
    [] table.kind = "HW_Junction"  -> LegalJunction(r)

-----------------------------------------------------------------------------
(* Reading.  At(p, w) below is the field of w bits at bit p of a record.   *)

FieldAt(f, p, w) == {b - p : b \in f.bits \cap (p..(p + w - 1))}

HourRead(B, t) ==
  IF t.form = "other" THEN \A h \in 0..23 : B # Bits(h) ELSE B = Bits(t.h)
MinuteRead(B, t) ==
  IF t.form = "hm" THEN B = Bits(t.m) ELSE \A m \in 0..59 : B # Bits(m)

TimesRead(B(_, _), p) ==
  /\ HourRead(B(74, 5), p.t1)   /\ HourRead(B(79, 5), p.t2)
  /\ MinuteRead(B(84, 6), p.t1) /\ MinuteRead(B(90, 6), p.t2)

DateRead(M, d, date) ==
  IF date.form = "other" THEN M = {} /\ d = {}
  ELSE M = Bits(date.M) /\ d = Bits(date.d)

PeriodRead(B(_, _), p) ==
  /\ B(44, 4) = Bits(p.shape)
  /\ p.shape # 0 => TimesRead(B, p)
  /\ p.shape = 1 => /\ DateRead(B(48, 4), B(64, 5), p.D1)
                    /\ DateRead(B(52, 4), B(69, 5), p.D2)
  /\ p.shape = 2 => \A i \in 0..6 :
       (i \in B(64, 7)) <=> (p.week.form = "t" /\ i + 1 \in p.week.days)

CRRead(B(_, _), r) ==
  /\ B(0, 40) = r.CRID
  /\ B(40, 2) = Bits(r.VPDir)
  /\ B(42, 2) = Bits(IF r.VP_Appro = NoNumber THEN 0 ELSE r.VP_Appro + 1)
  /\ PeriodRead(B, r.VPeriod)
  /\ B(96, 32) = r.Veh_Type

TollETARead(B(_, _), r) ==
  /\ B(0, 40) = r.CondID
  /\ B(40, 4) = Bits(r.TollType)
  /\ B(44, 4) = Bits(Len(Lanes(r)))
  /\ \A k \in 1..Len(Lanes(r)) : B(56 + 8 * k, 8) = Bits(Lanes(r)[k])

TollPatternRead(B(_, _), r) ==
  B(0, 40) = r.CondID /\ B(64, 32) = r.PaternNo /\ B(96, 32) = r.ArrowNo

(* A shop, restaurant, inn or toilet has a bit; of the stations the row    *)
(* may name one, which is 1..5, and "other" is 15.                         *)
EstabRead(B, items) ==
  LET listed == {items[k] : k \in DOMAIN items}
      high   == {b - 4 : b \in B \cap (4..7)}
  IN  /\ \A i \in 1..4 : (i - 1 \in B) <=> (i \in listed)
      /\ \A s \in Stations :
            (high = IF s = 26 THEN Bits(15) ELSE Bits(s - 20)) <=> (s \in listed)

(* The links of a junction at bits from and to. *)
LinksRead(B(_, _), r, from, to) == B(from, 40) = r.inLinkID /\ B(to, 40) = r.outLinkID

(* The node and the two links follow each other. *)
JunctionRead(B(_, _), r) ==
  /\ B(0, 40) = r.ID
  /\ B(48, 4) = Bits(r.AccessType) /\ B(52, 4) = Bits(r.Attr)
  /\ EstabRead(B(56, 8), r.Estab_Item)
  /\ B(64, 40) = r.NodeID
  /\ LinksRead(B, r, 104, 144)

(* The record at byte at of f says what row r says. *)
Says(f, at, r) ==
  LET B(p, w) == FieldAt(f, 8 * at + p, w)
  IN  CASE table.kind = "CR"           -> CRRead(B, r)
        [] table.kind = "Toll_ETA"     -> TollETARead(B, r)
        [] table.kind = "Toll_Pattern" -> TollPatternRead(B, r)
        [] table.kind = "HW_Junction"  -> JunctionRead(B, r)

(* The size of the record at byte at, as the file itself gives it. *)
LaneNumAt(f, at) ==
  CHOOSE n \in 0..15 : Bits(n) = FieldAt(f, 8 * at + 44, 4)

SizeAt(f, at) ==
  CASE table.kind \in {"CR", "Toll_Pattern"} -> 16
    [] table.kind = "Toll_ETA"    -> 8 + Padded(LaneNumAt(f, at))
    [] table.kind = "HW_Junction" -> 24

(* Start(f)[i]: where a reader looks for record i. *)
Start(f) ==
  LET s[i \in 1..(Len(rows) + 1)] ==
        IF i = 1 THEN 0 ELSE s[i - 1] + SizeAt(f, s[i - 1])
  IN  s

-----------------------------------------------------------------------------
(* Properties *)

(* Every variable keeps its type; no record reaches beyond the bytes that  *)
(* are written for it, so no field runs into the record that follows (the  *)
(* structs 227-246 and the ofs.write calls of the four exports).           *)
TypeOK ==
  /\ table \in Tables
  /\ pc \in {"prepare", "open", "rows", "done", "aborted"}
  /\ cursor \in 0..Len(rows)
  /\ out.size \in Nat /\ out.bits \subseteq 0..(8 * out.size - 1)
  /\ file.size \in Nat /\ file.bits \subseteq 0..(8 * file.size - 1)
  /\ good \in BOOLEAN /\ ok \in BOOLEAN
  /\ cursor = 0 => out = NoBytes

(* Whatever fails, a record that is there is the right one: a reader of    *)
(* the layout above who starts at the first byte and goes from record to   *)
(* record by the sizes the file gives finds at place i what row i of the   *)
(* table says, for every whole record.  Rows outside of the documented     *)
(* ranges excuse their own record, and in the file of Toll ETA, where the  *)
(* lane number leads the way, those after it.  (The loops of parse_db_CR   *)
(* 1279-1291, parse_db_Toll_ETA 1317-1331, parse_db_Toll_Pattern 1358-1368 *)
(* and parse_db_HW_Junction 1398-1522 with the codecs 387-713.)            *)
RecordsReadBack ==
  \A f \in {out, file} \ {Old} : \A i \in 1..cursor :
    LET excused == \E j \in 1..i :
          ~Legal(rows[j]) /\ (j = i \/ table.kind = "Toll_ETA")
    IN  ~excused /\ Start(f)[i] + Size(rows[i]) <= f.size
          => Says(f, Start(f)[i], rows[i])

(* Unless a step or a write failed, the file of a table of legal rows has  *)
(* a record for every row and nothing behind the last one.  (The loops of  *)
(* the four exports, 1278, 1316, 1357 and 1397.)                           *)
EveryRowOnce ==
  ok /\ good /\ cursor = Len(rows) /\ (\A i \in 1..Len(rows) : Legal(rows[i]))
    => file.size = Start(file)[Len(rows) + 1]

(* A call that returns false has not touched the file of an earlier        *)
(* export: the statement is created before the file is opened, so a        *)
(* database without the table does no harm.  (parse_db_CR 1262-1273 and    *)
(* the same lines of the other three.)                                     *)
OldFileKept == pc = "done" /\ ~ok => file = Old

(* "The part 2 is 6 bytes and the part 3 is 10 bytes.", and the links      *)
(* begin part 3 (cm_db.cpp:147 and 169-171, addoncmpi.md:165-170): by the  *)
(* documented sizes they are at bytes 14 and 19 of the 24.  The code packs *)
(* the link in right behind the five bytes of the node (1494-1521).        *)
DocLinksRead ==
  table.kind = "HW_Junction" => \A i \in 1..cursor :
    LET B(p, w) == FieldAt(out, 8 * 24 * (i - 1) + p, w)
    IN  Legal(rows[i]) /\ 24 * i <= out.size
          => LinksRead(B, rows[i], 8 * (8 + 6), 8 * (8 + 6 + 5))

=============================================================================
