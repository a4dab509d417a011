------------------------------ MODULE RowCodec -------------------------------
(***************************************************************************)
(* How a row of text columns becomes the bytes of a record:                *)
(* _CR_row2data, _TollETA_row2data, _TollPattern_row2data and the layout   *)
(* of a junction in parse_db_HW_Junction (addon/src/cm_db.cpp).            *)
(*                                                                         *)
(* A number is the set of the positions of its one bits, so a shift adds   *)
(* to the positions, "|" is the union, and a bit field keeps the low ones. *)
(* A record is a set of bit positions too, counted as the documentation    *)
(* does: bit 0 is the low bit of byte 0 (little endian, the layout of gcc  *)
(* on x86-64).  Text columns are given by what the conversions find in     *)
(* them; where a number that is needed does not convert, the row is bad    *)
(* (TableExport).  left holds what the memory of a local record held       *)
(* before: the bits the code does not set are those of left.               *)
(***************************************************************************)
EXTENDS Integers, Sequences

Bits(n)   == {i \in 0..30 : (n \div 2^i) % 2 = 1}
Shl(B, k) == {b + k : b \in B}
Low(B, w) == B \cap (0..(w - 1))

(* Fault: a number that is too large is not cut. *)
FieldUncut(B, p, w) == Shl(B, p)

(* A bit field of a struct: w bits at position p. *)
Field(B, p, w) == Shl(Low(B, w), p)

(* What no assignment of the code has set. *)
Unset(left, p, w) == left \cap (p..(p + w - 1))

NoNumber == -1   \* an empty column

-----------------------------------------------------------------------------
(* The period of a CR *)

VP_INVALID_HOUR   == 24
VP_INVALID_MINUTE == 60

(* A time is h7, h7m30 or something else; a date M4d1 or something else.   *)
Other == [form |-> "other"]

Hour(t)   == IF t.form \in {"h", "hm"} THEN t.h ELSE VP_INVALID_HOUR
Minute(t) == IF t.form = "hm" THEN t.m ELSE VP_INVALID_MINUTE
Month(d)  == IF d.form = "Md" THEN d.M ELSE 0
Day(d)    == IF d.form = "Md" THEN d.d ELSE 0

(* The pattern t1..t7 of week days; digits other than 1..7 are skipped. *)
WeekDays(w) == IF w.form = "t" THEN {i - 1 : i \in w.days \cap (1..7)} ELSE {}

(* Several periods in one text, "[(h7)(h9)]+[(h17)(h20)]", still match:    *)
(* the first ".+" takes everything up to the last period's first item.     *)
Head1(p, x) == IF p.more THEN Other ELSE x

Peri16(M1, M2) == Low(Bits(M1) \cup Shl(Bits(M2), 4), 16)

(* Fault: the minutes of the end start one bit early. *)
ClockShort(t1, t2) ==
  Shl(Bits(Hour(t1)), 10) \cup Shl(Bits(Hour(t2)), 15)
    \cup Shl(Bits(Minute(t1)), 20) \cup Shl(Bits(Minute(t2)), 25)

Clock(t1, t2) ==
  Shl(Bits(Hour(t1)), 10) \cup Shl(Bits(Hour(t2)), 15)
    \cup Shl(Bits(Minute(t1)), 20) \cup Shl(Bits(Minute(t2)), 26)

Days(d1, d2) == Bits(Day(d1)) \cup Shl(Bits(Day(d2)), 5)

Timed(type, p16, p32) ==
  Field(Bits(type), 44, 4) \cup Shl(p16, 48) \cup Field(p32, 64, 32)

(* VPeri_Type, VPeriod16 and VPeriod32.  Shape 0 is the empty text, shape  *)
(* 4 a text that none of the three patterns matches.                       *)
Period(p, left) ==
  CASE p.shape = 0 -> Unset(left, 48, 48)
    [] p.shape = 1 -> LET D1 == Head1(p, p.D1) IN
                      Timed(1, Peri16(Month(D1), Month(p.D2)),
                            Days(D1, p.D2) \cup Clock(p.t1, p.t2))
    [] p.shape = 2 -> Timed(2, {}, WeekDays(p.week)
                                     \cup Clock(Head1(p, p.t1), p.t2))
    [] p.shape = 3 -> Timed(3, {}, Clock(Head1(p, p.t1), p.t2))
    [] p.shape = 4 -> Unset(left, 44, 52)

(* A CR without an approximation is 0, the others are one up. *)
Approx(n) == IF n = NoNumber THEN {} ELSE Bits(n + 1)

(* _CR_row2data: 16 bytes. *)
CRData(r, left) ==
  Field(r.CRID, 0, 40) \cup Field(Bits(r.VPDir), 40, 2)
    \cup Field(Approx(r.VP_Appro), 42, 2) \cup Period(r.VPeriod, left)
    \cup Field(r.Veh_Type, 96, 32)

-----------------------------------------------------------------------------
(* Toll stations *)

(* Both columns are split at '|' and go into the same buffer. *)
Lanes(r) == r.TollMode \o r.TollCard

Padded(n) == 8 * ((n + 7) \div 8)

(* lane_num is not set for a row without lanes. *)
LaneNum(r, left) ==
  IF Lanes(r) = <<>> THEN Unset(left, 44, 4)
  ELSE Field(Bits(Len(Lanes(r))), 44, 4)

LaneBytes(r) ==
  UNION {Field(Bits(Lanes(r)[k]), 56 + 8 * k, 8) : k \in 1..Len(Lanes(r))}

(* _TollETA_row2data: 8 bytes and the lanes. *)
TollETAData(r, left) ==
  Field(r.CondID, 0, 40) \cup Field(Bits(r.TollType), 40, 4)
    \cup LaneNum(r, left) \cup Unset(left, 48, 16) \cup LaneBytes(r)

(* A pattern number is the text after its first character, in base 16, and *)
(* must fit into an int.                                                   *)
FitsInt(B) == B \subseteq 0..30

TollPatternConverts(r) == FitsInt(r.PaternNo) /\ FitsInt(r.ArrowNo)

(* _TollPattern_row2data: 16 bytes. *)
TollPatternData(r, left) ==
  Field(r.CondID, 0, 40) \cup Unset(left, 40, 24)
    \cup Field(r.PaternNo, 64, 32) \cup Field(r.ArrowNo, 96, 32)

-----------------------------------------------------------------------------
(* Junctions *)

Stations == 21..26

(* The last gasoline station of the list is the one that counts. *)
Gaso(items) ==
  LET at   == {k \in DOMAIN items : items[k] \in Stations}
      last == CHOOSE k \in at : \A j \in at : j <= k
  IN  CASE at = {}          -> {}
        [] at # {} /\ items[last] = 26 -> Bits(15)
        [] OTHER            -> Bits(items[last] - 20)

Estab(items) ==
  {i - 1 : i \in {items[k] : k \in DOMAIN items} \cap (1..4)}
    \cup Shl(Gaso(items), 4)

(* The ID of the link in is copied in two pieces, three bytes into part 2  *)
(* and two into part 3.                                                    *)
LinkIn(B) == Field(B, 104, 24) \cup Shl(Low(B, 40) \ (0..23), 104)

(* The three parts of 8 bytes: the ID and the attributes; the node and the *)
(* first three bytes of the link in; its last two and the link out.  The   *)
(* last byte is not set.                                                   *)
JunctionData(r, left) ==
  Field(r.ID, 0, 40) \cup Unset(left, 40, 8)
    \cup Field(Bits(r.AccessType), 48, 4) \cup Field(Bits(r.Attr), 52, 4)
    \cup Field(Estab(r.Estab_Item), 56, 8)
    \cup Field(r.NodeID, 64, 40) \cup LinkIn(r.inLinkID)
    \cup Field(r.outLinkID, 144, 40) \cup Unset(left, 184, 8)
=============================================================================
