---------------------------- MODULE MCTableExport ----------------------------
(***************************************************************************)
(* Tables for TLC: for each kind the rows at the edges of the documented   *)
(* ranges and beyond them, alone and before or after another row.          *)
(***************************************************************************)
EXTENDS TableReader

(* IDs of 40 bits, and one of 41. *)
IdA   == {0, 39}
IdB   == {7, 23, 24}
IdBig == {1, 40}

H(h)     == [form |-> "h", h |-> h]
HM(h, m) == [form |-> "hm", h |-> h, m |-> m]
MD(M, d) == [form |-> "Md", M |-> M, d |-> d]
T(days)  == [form |-> "t", days |-> days]

Dated(D1, D2, t1, t2) ==
  [shape |-> 1, more |-> FALSE, D1 |-> D1, D2 |-> D2, t1 |-> t1, t2 |-> t2]
Weekly(t1, t2, w) ==
  [shape |-> 2, more |-> FALSE, t1 |-> t1, t2 |-> t2, week |-> w]
Daily(t1, t2) == [shape |-> 3, more |-> FALSE, t1 |-> t1, t2 |-> t2]
More(p)       == [p EXCEPT !.more = TRUE]

Dates == {MD(1, 31), MD(12, 1), Other}
Times == {H(0), H(23), HM(16, 59), HM(7, 0), Other}
Weeks == {T({1, 7}), T({2, 3, 4, 5, 6}), T({0, 9}), Other}

(* Out of range: h24, a month of 16, a day of 32, a minute of 64. *)
Odd == {Daily(H(24), H(6)), Daily(H(32), H(6)), Daily(HM(6, 64), HM(6, 0)),
        Dated(MD(16, 1), MD(1, 1), H(1), H(2)),
        Dated(MD(1, 32), MD(1, 1), H(1), H(2)),
        More(Daily(H(7), H(9))), More(Dated(MD(1, 1), MD(2, 2), H(1), H(2))),
        More(Weekly(H(7), H(9), T({1}))), [shape |-> 4]}

Periods ==
  {[shape |-> 0]}
    \cup {Dated(D1, D2, t1, t2) : D1, D2 \in Dates, t1, t2 \in Times}
    \cup {Weekly(t1, t2, w) : t1, t2 \in Times, w \in Weeks}
    \cup {Daily(t1, t2) : t1, t2 \in Times}
    \cup Odd

CR(id, dir, app, veh, p) ==
  [bad |-> FALSE, CRID |-> id, VPDir |-> dir, VP_Appro |-> app,
   Veh_Type |-> veh, VPeriod |-> p]

CRRows ==
  {CR(IdA, 2, 1, {0, 31}, p) : p \in Periods}
    \cup {CR(IdA, 1, 1, {5, 32}, [shape |-> 0])}
    \cup {CR(id, dir, app, {}, Daily(H(7), H(9))) :
            id \in {IdB, IdBig}, dir \in {0, 3, 5}, app \in {NoNumber, 0, 2, 3}}

FewCRRows ==
  {CR(IdA, 3, 0, {}, p) : p \in {[shape |-> 0], [shape |-> 4], Daily(H(7), H(9))}}
    \cup {[CR(IdA, 0, 0, {}, [shape |-> 0]) EXCEPT !.bad = TRUE]}

ETA(id, type, mode, card) ==
  [bad |-> FALSE, CondID |-> id, TollType |-> type, TollMode |-> mode,
   TollCard |-> card]

Seq1(n, v) == [k \in 1..n |-> v]

ETARows ==
  {ETA(IdA, 1, Seq1(m, 64), Seq1(c, 3)) : m \in {0, 2, 8, 15}, c \in {0, 1, 7}}
    \cup {ETA(IdB, 15, <<>>, Seq1(n, 255)) : n \in {9, 16}}
    \cup {ETA(IdBig, 16, <<256>>, <<>>)}
    \cup {[ETA(IdA, 1, <<>>, <<>>) EXCEPT !.bad = TRUE]}

Pattern(id, ptn, arrow) ==
  [bad |-> FALSE, CondID |-> id, PaternNo |-> ptn, ArrowNo |-> arrow]

PatternRows ==
  {Pattern(id, ptn, arrow) : id \in {IdA, IdBig}, ptn \in {{}, {0, 30}, {31}},
                             arrow \in {{4, 30}, {30, 31}}}

Junction(lin, lout, type, attr, items) ==
  [bad |-> FALSE, ID |-> IdA, NodeID |-> IdB, inLinkID |-> lin,
   outLinkID |-> lout, AccessType |-> type, Attr |-> attr, Estab_Item |-> items]

JunctionRows ==
  {Junction(lin, lout, 15, 8, items) :
     lin \in {IdA, IdB, {22, 31}}, lout \in {IdA, {24, 39}, IdBig},
     items \in {<<>>, <<1, 3>>, <<4, 26, 2>>, <<21>>, <<25, 4>>, <<22, 23>>, <<5>>}}
    \cup {Junction(IdA, IdB, n, 1, <<24>>) : n \in {0, 7, 16}}

RowsOf ==
  [CR |-> FewCRRows, Toll_ETA |-> ETARows, Toll_Pattern |-> PatternRows,
   HW_Junction |-> {Junction(IdA, IdB, 1, 2, <<26>>),
                    [Junction(IdA, IdB, 1, 2, <<>>) EXCEPT !.bad = TRUE]}]

Table(kind, rs) == [kind |-> kind, there |-> TRUE, rows |-> rs]

Gone == {[kind |-> k, there |-> FALSE, rows |-> <<>>] : k \in Kinds}

(* One row of each sort, and two of the common ones. *)
MCTables ==
  Gone
    \cup {Table("CR", <<r>>) : r \in CRRows}
    \cup {Table("HW_Junction", <<r>>) : r \in JunctionRows}
    \cup UNION {{Table(k, <<>>)} \cup {Table(k, <<r, s>>) : r, s \in RowsOf[k]} :
                  k \in Kinds}

(* With failures: fewer rows. *)
FewRows ==
  [RowsOf EXCEPT !.Toll_ETA = {ETA(IdA, 1, Seq1(m, 64), Seq1(c, 3)) :
                                 m \in {0, 2}, c \in {0, 7}},
                 !.Toll_Pattern = {r \in PatternRows : r.CondID = IdA}]

MCFaulty ==
  Gone \cup UNION {{Table(k, <<r, s>>) : r, s \in FewRows[k]} : k \in Kinds}

MCLeftovers == {{}, 0..191}
=============================================================================
