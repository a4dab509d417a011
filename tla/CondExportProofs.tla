-------------------------- MODULE CondExportProofs ---------------------------
(***************************************************************************)
(* Theorems about the export of the combined database: its types, the      *)
(* framing of the stream it writes, the join that fills its records, and   *)
(* what an interrupted run leaves of the file.                             *)
(***************************************************************************)
EXTENDS CondExport, FiniteSetTheorems, TLAPS

(* Where the control stands, the rows and statements it is about to use    *)
(* exist.                                                                  *)
Control ==
  /\ pc = "next" => "C" \in DOMAIN db
  /\ pc \in {"select", "scan", "write"} => c.pos \in Selected(db)
  /\ \A t \in Joined : sel[t].st # "null" => t \in DOMAIN db
  /\ pc = "scan" => sel[tab].st # "null"

LEMMA RowsOfDatabase ==
  ASSUME NEW d, IsDatabase(d), NEW t \in DOMAIN d
  PROVE  /\ t \in Tables
         /\ t = "C" => d[t] \in Seq(CRow)
         /\ t = "Toll_ETA" => d[t] \in Seq(EtaRow)
         /\ t \in {"CR", "Toll_Pattern"} => d[t] \in Seq(JoinRow)
  BY DEF IsDatabase, Tables, Joined

LEMMA SelectedType ==
  ASSUME NEW d
  PROVE  /\ Selected(d) \subseteq Rows(d, "C")
         /\ \A t \in Joined : \A k : Hits(d, t, k) \subseteq Rows(d, t)
  BY DEF Selected, Hits, Rows

LEMMA RowsAreNumbers ==
  ASSUME NEW d, IsDatabase(d), NEW t \in Tables
  PROVE  Rows(d, t) \subseteq Nat \ {0}
  <1>1. CASE t \in DOMAIN d
    <2>1. \E S : d[t] \in Seq(S)
      BY <1>1, RowsOfDatabase DEF Tables, Joined
    <2> QED  BY <1>1, <2>1 DEF Rows
  <1>2. CASE t \notin DOMAIN d
    BY <1>2 DEF Rows
  <1> QED  BY <1>1, <1>2

LEMMA StepRowType ==
  ASSUME NEW t, NEW s \in Statement(t), NEW hits \in SUBSET Rows(db, t),
         NEW r \in StepRow(s, hits)
  PROVE  /\ r \in Statement(t)
         /\ r.st \in {"row", "done"}
         /\ r.st = "row" => r.pos \in hits
  BY DEF StepRow, Statement

(* A sequence of at most one element.                                      *)
Opt(b, u) == IF b THEN <<u>> ELSE <<>>

LEMMA OptType ==
  ASSUME NEW S, NEW b \in BOOLEAN, NEW u, b => u \in S
  PROVE  /\ Opt(b, u) \in Seq(S)
         /\ Len(Opt(b, u)) = IF b THEN 1 ELSE 0
         /\ b => Opt(b, u)[1] = u
  BY DEF Opt

LEMMA ConcatType ==
  ASSUME NEW S, NEW s \in Seq(S), NEW t \in Seq(S)
  PROVE  /\ s \o t \in Seq(S)
         /\ Len(s \o t) = Len(s) + Len(t)
         /\ \A k \in 1..Len(s) : (s \o t)[k] = s[k]
         /\ \A k \in 1..Len(t) : (s \o t)[Len(s) + k] = t[k]
  OBVIOUS

LEMMA NotEmpty ==
  ASSUME NEW s, Len(s) = 1
  PROVE  s # <<>>
  <1>1. Len(<<>>) = 0
    OBVIOUS
  <1> QED  BY <1>1

(* The rows read for one C row, and a lane number that fits in 4 bits.     *)
Read(d, rows, g) ==
  /\ DOMAIN rows = Joined
  /\ \A t \in Joined : rows[t] \in Seq(Rows(d, t))
  /\ g \in 0..15

LEMMA CountType ==
  ASSUME NEW n \in Nat
  PROVE  /\ CountCR(n) \in 0..15 /\ CountCR(n) <= n
         /\ LaneNum(n) \subseteq 0..15
  <1>1. CountCR(n) \in 0..15 /\ CountCR(n) <= n
    BY DEF CountCR
  <1>2. n % 16 \in 0..15
    OBVIOUS
  <1> QED  BY <1>1, <1>2, LeftoverAssumption DEF LaneNum

LEMMA LaneNumType ==
  ASSUME NEW rows, IsDatabase(db), DOMAIN rows = Joined,
         \A t \in Joined : rows[t] \in Seq(Rows(db, t))
  PROVE  /\ LaneNums(db, rows) \subseteq 0..15
         /\ rows["Toll_ETA"] # <<>> =>
              Lanes(db["Toll_ETA"][rows["Toll_ETA"][1]]) \in Nat
  <1> DEFINE r == rows["Toll_ETA"]
  <1>1. CASE r = <<>>
    BY <1>1 DEF LaneNums
  <1>2. CASE r # <<>>
    <2>1. r[1] \in Rows(db, "Toll_ETA")
      BY <1>2 DEF Joined
    <2>2. "Toll_ETA" \in DOMAIN db /\ r[1] \in DOMAIN db["Toll_ETA"]
      BY <2>1 DEF Rows
    <2>3. db["Toll_ETA"][r[1]] \in EtaRow
      BY <2>2, RowsOfDatabase
    <2>4. Lanes(db["Toll_ETA"][r[1]]) \in Nat
      BY <2>3 DEF EtaRow, Lanes
    <2>5. LaneNum(Lanes(db["Toll_ETA"][r[1]])) \subseteq 0..15
      BY <2>4, CountType
    <2> QED  BY <1>2, <2>4, <2>5 DEF LaneNums
  <1> QED  BY <1>1, <1>2

(* The k-th unit after the header of r comes from the rows read.           *)
ComesFrom(rows, r, k) ==
  LET u == r[1 + k]
      l == k - r[1].eta - r[1].ptn
  IN  /\ u.unit = "eta" =>
           rows["Toll_ETA"] # <<>> /\ u.src = rows["Toll_ETA"][1]
      /\ u.unit = "ptn" =>
           rows["Toll_Pattern"] # <<>> /\ u.src = rows["Toll_Pattern"][1]
      /\ u.unit = "cr" => l \in 1..Len(rows["CR"]) /\ u.src = rows["CR"][l]

(* The units r of a record, one by one.                                    *)
MadeOf(d, i, rows, g, r) ==
  LET er  == rows["Toll_ETA"]
      pr  == rows["Toll_Pattern"]
      n   == CountCR(Len(rows["CR"]))
      eta == Len(er) = 1 /\ LanesFit(d["Toll_ETA"][er[1]])
      ptn == Len(pr) = 1
      e   == IF eta THEN 1 ELSE 0
      p   == IF ptn THEN 1 ELSE 0
  IN  /\ Len(r) = 1 + e + p + n
      /\ r[1] = HeaderUnit(i, n, e, p)
      /\ eta => r[2] = EtaUnit(er[1], Lanes(d["Toll_ETA"][er[1]]), g)
      /\ ptn => r[2 + e] = PatternUnit(pr[1])
      /\ \A k \in 1..n : r[1 + e + p + k] = CRUnit(rows["CR"][k])

(* A record: its units have their types, and its header tells what they    *)
(* are.                                                                    *)
LEMMA RecordShape ==
  ASSUME IsDatabase(db), NEW i \in Rows(db, "C"), NEW rows, NEW g,
         Read(db, rows, g)
  PROVE  LET r == Record(db, i, rows, g) IN
         /\ r \in Seq(Unit)
         /\ r # <<>>
         /\ r[1].unit = "record"
         /\ r[1].src = i
         /\ Len(r) = Size(r[1])
         /\ \A k \in 1..(Len(r) - 1) : r[1 + k].unit = Expected(r[1], k)
         /\ \A k \in 1..(Len(r) - 1) : ComesFrom(rows, r, k)
         /\ MadeOf(db, i, rows, g, r)
  <1> DEFINE er  == rows["Toll_ETA"]
             pr  == rows["Toll_Pattern"]
             cr  == rows["CR"]
             n   == CountCR(Len(cr))
             eta == Len(er) = 1 /\ LanesFit(db["Toll_ETA"][er[1]])
             ptn == Len(pr) = 1
             ln  == Lanes(db["Toll_ETA"][er[1]])
             h   == HeaderUnit(i, n, IF eta THEN 1 ELSE 0, IF ptn THEN 1 ELSE 0)
             EU  == EtaUnit(er[1], ln, g)
             PU  == PatternUnit(pr[1])
             E   == Opt(eta, EU)
             P   == Opt(ptn, PU)
             C   == [k \in 1..n |-> CRUnit(cr[k])]
             r   == Record(db, i, rows, g)
  <1>1. r = ((<<h>> \o E) \o P) \o C
    BY DEF Record, Opt
  <1>2. er \in Seq(Rows(db, "Toll_ETA")) /\ pr \in Seq(Rows(db, "Toll_Pattern"))
          /\ cr \in Seq(Rows(db, "CR")) /\ g \in 0..15
    BY DEF Read, Joined
  <1>3. n \in 0..15 /\ n <= Len(cr)
    BY <1>2, CountType
  <1>4. h \in Unit /\ h.unit = "record" /\ h.src = i /\ h.cnt = n
          /\ h.eta = (IF eta THEN 1 ELSE 0) /\ h.ptn = (IF ptn THEN 1 ELSE 0)
    BY <1>3 DEF HeaderUnit, Unit
  <1>5. eta => EtaUnit(er[1], ln, g) \in Unit
    <2> HAVE eta
    <2>1. ln \in Nat
      BY <1>2, LaneNumType DEF Read
    <2>2. er[1] \in Rows(db, "Toll_ETA")
      BY <1>2
    <2> QED  BY <1>2, <2>1, <2>2 DEF EtaUnit, Unit
  <1>6. ptn => PatternUnit(pr[1]) \in Unit
    BY <1>2 DEF PatternUnit, Unit
  <1>7. /\ C \in Seq(Unit) /\ Len(C) = n
        /\ \A k \in 1..n : /\ C[k] = CRUnit(cr[k])
                           /\ C[k].unit = "cr" /\ C[k].src = cr[k]
    <2> HIDE DEF n
    <2>1. \A k \in 1..n : /\ CRUnit(cr[k]) \in Unit /\ CRUnit(cr[k]).unit = "cr"
                          /\ CRUnit(cr[k]).src = cr[k]
      BY <1>2, <1>3 DEF CRUnit, Unit
    <2>2. \A k \in 1..n : C[k] = CRUnit(cr[k])
      OBVIOUS
    <2>3. C \in Seq(Unit) /\ Len(C) = n
      BY <1>3, <2>1
    <2> HIDE DEF C
    <2> QED  BY <2>1, <2>2, <2>3
  <1>8. /\ E \in Seq(Unit) /\ Len(E) = h.eta
        /\ eta => E[1] = EU /\ E[1].unit = "eta" /\ E[1].src = er[1]
    <2>1. /\ eta \in BOOLEAN /\ EtaUnit(er[1], ln, g).unit = "eta"
          /\ EtaUnit(er[1], ln, g).src = er[1]
      BY DEF EtaUnit
    <2> HIDE DEF eta
    <2> QED  BY <1>4, <1>5, <2>1, OptType
  <1>9. /\ P \in Seq(Unit) /\ Len(P) = h.ptn
        /\ ptn => P[1] = PU /\ P[1].unit = "ptn" /\ P[1].src = pr[1]
    <2>1. /\ ptn \in BOOLEAN /\ PatternUnit(pr[1]).unit = "ptn"
          /\ PatternUnit(pr[1]).src = pr[1]
      BY DEF PatternUnit
    <2> HIDE DEF ptn
    <2> QED  BY <1>4, <1>6, <2>1, OptType
  <1>10. <<h>> \in Seq(Unit) /\ Len(<<h>>) = 1 /\ <<h>>[1] = h
    BY <1>4
  <1>0. eta \in BOOLEAN /\ ptn \in BOOLEAN
    OBVIOUS
  <1>01. (eta => er # <<>>) /\ (ptn => pr # <<>>)
    <2>1. Len(er) = 1 => er # <<>>
      BY NotEmpty
    <2>2. Len(pr) = 1 => pr # <<>>
      BY NotEmpty
    <2> QED  BY <2>1, <2>2
  <1> DEFINE A == <<h>> \o E
             B == A \o P
  <1>02. h = HeaderUnit(i, n, IF eta THEN 1 ELSE 0, IF ptn THEN 1 ELSE 0)
    OBVIOUS
  <1> HIDE DEF h, EU, PU, E, P, C, r, A, B, eta, ptn, n
  <1>11. /\ A \in Seq(Unit) /\ Len(A) = 1 + h.eta /\ A[1] = h
         /\ eta => A[2] = EU /\ A[2].unit = "eta" /\ A[2].src = er[1]
    BY <1>4, <1>8, <1>10, ConcatType DEF A
  <1>12. /\ B \in Seq(Unit) /\ Len(B) = 1 + h.eta + h.ptn /\ B[1] = h
         /\ eta => B[2] = EU /\ B[2].unit = "eta" /\ B[2].src = er[1]
         /\ ptn => B[2 + h.eta] = PU /\ B[2 + h.eta].unit = "ptn" /\ B[2 + h.eta].src = pr[1]
    BY <1>4, <1>9, <1>11, ConcatType DEF B
  <1>13. /\ r \in Seq(Unit) /\ Len(r) = 1 + h.eta + h.ptn + n /\ r[1] = h
         /\ eta => r[2] = EU /\ r[2].unit = "eta" /\ r[2].src = er[1]
         /\ ptn => r[2 + h.eta] = PU /\ r[2 + h.eta].unit = "ptn" /\ r[2 + h.eta].src = pr[1]
         /\ \A k \in 1..n : /\ r[1 + h.eta + h.ptn + k] = CRUnit(cr[k])
                            /\ r[1 + h.eta + h.ptn + k].unit = "cr"
                            /\ r[1 + h.eta + h.ptn + k].src = cr[k]
    <2>1. r = B \o C
      BY <1>1 DEF A, B
    <2>2. /\ B \o C \in Seq(Unit) /\ Len(B \o C) = Len(B) + Len(C)
          /\ \A k \in 1..Len(B) : (B \o C)[k] = B[k]
          /\ \A k \in 1..Len(C) : (B \o C)[Len(B) + k] = C[k]
      <3>1. B \in Seq(Unit) /\ C \in Seq(Unit)
        BY <1>7, <1>12
      <3> QED  BY <3>1
    <2>3. 1 \in 1..Len(B) /\ (eta => 2 \in 1..Len(B))
            /\ (ptn => 2 + h.eta \in 1..Len(B))
      BY <1>0, <1>4, <1>12
    <2> QED  BY <1>7, <1>12, <2>1, <2>2, <2>3
  <1>14. \A k \in 1..(Len(r) - 1) : r[1 + k].unit = Expected(r[1], k)
    <2> TAKE k \in 1..(Len(r) - 1)
    <2>1. CASE k <= h.eta
      <3>1. eta /\ k = 1
        BY <1>0, <1>4, <2>1
      <3> QED  BY <1>13, <2>1, <3>1 DEF Expected
    <2>2. CASE ~ (k <= h.eta) /\ k <= h.eta + h.ptn
      <3>1. ptn /\ k = 1 + h.eta
        BY <1>0, <1>4, <2>2
      <3>2. 1 + k = 2 + h.eta
        BY <1>4, <3>1
      <3> QED  BY <1>13, <2>2, <3>1, <3>2 DEF Expected
    <2>3. CASE k > h.eta + h.ptn
      <3> DEFINE l == k - h.eta - h.ptn
      <3>1. l \in 1..n /\ 1 + k = 1 + h.eta + h.ptn + l
        BY <1>3, <1>4, <1>13, <2>3
      <3>2. ~ (k <= h.eta) /\ ~ (k <= h.eta + h.ptn)
        BY <1>4, <2>3
      <3> HIDE DEF l
      <3> QED  BY <1>13, <3>1, <3>2 DEF Expected
    <2> QED  BY <1>4, <2>1, <2>2, <2>3
  <1>15. \A k \in 1..(Len(r) - 1) : ComesFrom(rows, r, k)
    <2> TAKE k \in 1..(Len(r) - 1)
    <2>1. CASE k <= h.eta
      <3>1. eta /\ 1 + k = 2
        BY <1>0, <1>4, <2>1
      <3> QED  BY <1>01, <1>13, <3>1 DEF ComesFrom
    <2>2. CASE ~ (k <= h.eta) /\ k <= h.eta + h.ptn
      <3>1. ptn /\ 1 + k = 2 + h.eta
        BY <1>0, <1>4, <2>2
      <3> QED  BY <1>01, <1>13, <3>1 DEF ComesFrom
    <2>3. CASE k > h.eta + h.ptn
      <3> DEFINE l == k - h.eta - h.ptn
      <3>1. l \in 1..n /\ 1 + k = 1 + h.eta + h.ptn + l
        BY <1>3, <1>4, <1>13, <2>3
      <3>2. l \in 1..Len(cr)
        BY <1>2, <1>3, <3>1
      <3>3. r[1 + k].unit = "cr" /\ r[1 + k].src = cr[l]
        <4> HIDE DEF l
        <4> QED  BY <1>13, <3>1
      <3> QED  BY <1>13, <3>2, <3>3 DEF ComesFrom
    <2> QED  BY <1>4, <2>1, <2>2, <2>3
  <1>16. MadeOf(db, i, rows, g, r)
    <2>1. /\ Len(r) = 1 + (IF eta THEN 1 ELSE 0) + (IF ptn THEN 1 ELSE 0) + n
          /\ r[1] = HeaderUnit(i, n, IF eta THEN 1 ELSE 0, IF ptn THEN 1 ELSE 0)
          /\ eta => r[2] = EU
          /\ ptn => r[2 + (IF eta THEN 1 ELSE 0)] = PU
          /\ \A k \in 1..n : r[1 + (IF eta THEN 1 ELSE 0)
                                + (IF ptn THEN 1 ELSE 0) + k] = CRUnit(cr[k])
      BY <1>02, <1>4, <1>13
    <2> QED  BY <2>1 DEF MadeOf, eta, ptn, n, EU, PU
  <1> QED  BY <1>3, <1>4, <1>13, <1>14, <1>15, <1>16 DEF Size, r

-----------------------------------------------------------------------------
(* Types *)

TypeInv == TypeOK /\ Control

LEMMA NothingType ==
  /\ DOMAIN Nothing = Joined
  /\ \A t \in Joined : \A S : Nothing[t] \in Seq(S)
  BY DEF Nothing

LEMMA RebindType ==
  ASSUME NEW t \in Joined, NEW s \in Statement(t), NEW k \in Id
  PROVE  /\ Rebind(s, t, k) \in Statement(t)
         /\ Rebind(s, t, k).st = "null" <=> s.st = "null" /\ t \notin DOMAIN db
         /\ Rebind(s, t, k).st # "null" =>
              Rebind(s, t, k).st = "ready" /\ Rebind(s, t, k).key = k
  <1> DEFINE r == IF s.st = "null" THEN Create(t) ELSE Reset(s)
  <1>1. /\ r \in Statement(t)
        /\ r.st \in {"null", "ready"}
        /\ r.st = "null" <=> s.st = "null" /\ t \notin DOMAIN db
    BY DEF Reset, Create, Null, Prepared, Statement, Id
  <1>2. Rebind(s, t, k) = IF r.st = "null" THEN r ELSE BindText(r, k)
    BY DEF Rebind
  <1> HIDE DEF r
  <1>3. CASE r.st = "null"
    BY <1>1, <1>2, <1>3
  <1>4. CASE r.st = "ready"
    <2>1. Rebind(s, t, k) = [r EXCEPT !.key = k]
      BY <1>2, <1>4 DEF BindText
    <2> QED  BY <1>1, <1>4, <2>1 DEF Statement
  <1> QED  BY <1>1, <1>3, <1>4

LEMMA TypeInit == Init => TypeInv
  <1> SUFFICES ASSUME Init PROVE TypeInv
    OBVIOUS
  <1>1. IsDatabase(db)
    BY DatabasesAssumption DEF Init
  <1>2. \A t \in Tables : Null \in Statement(t)
    BY DEF Null, Statement, Id
  <1>3. DOMAIN sel = Joined /\ \A t \in Joined : sel[t] \in Statement(t)
    BY <1>2 DEF Init, Tables
  <1>4. DOMAIN found = Joined /\ \A t \in Joined : found[t] \in Seq(Rows(db, t))
    BY NothingType DEF Init
  <1>5. TypeOK
    <2>1. c \in Statement("C") /\ os \in Seq(Unit)
      BY <1>2 DEF Init, Tables
    <2> QED  BY <1>1, <1>3, <1>4, <2>1 DEF Init, TypeOK, Joined
  <1> QED  BY <1>5 DEF Init, TypeInv, Control, Null

(* Going on to the next table keeps the control on a row of C.             *)
LEMMA AdvanceType ==
  ASSUME TypeOK, Advance
  PROVE  /\ pc' \in {"select", "write"}
         /\ tab' \in Joined
  BY DEF TypeOK, Advance, Joined

LEMMA TypeStep == TypeInv /\ [Next]_vars => TypeInv'
  <1> SUFFICES ASSUME TypeInv, [Next]_vars PROVE TypeInv'
    OBVIOUS
  <1> USE DEF TypeInv
  <1>0. TypeOK /\ Control
    OBVIOUS
  <1>1. CASE OpenBin
    BY <1>1 DEF OpenBin, TypeOK, Control, Statement, Unit
  <1>2. CASE PrepareC
    <2>1. c' \in Statement("C") /\ (c'.st # "null" => "C" \in DOMAIN db)
      BY <1>2 DEF PrepareC, Create, Null, Prepared, Statement, Id
    <2> QED  BY <1>2, <2>1 DEF PrepareC, TypeOK, Control, Statement, Unit
  <1>3. CASE StepC
    <2>1. Selected(db) \in SUBSET Rows(db, "C")
      BY SelectedType
    <2>2. /\ c' \in Statement("C")
          /\ c'.st \in {"row", "done"}
          /\ c'.st = "row" => c'.pos \in Selected(db)
      BY <1>3, <2>1, StepRowType DEF StepC, TypeOK
    <2>3. /\ DOMAIN found' = Joined
          /\ \A t \in Joined : found'[t] \in Seq(Rows(db, t))
      BY <1>3, NothingType DEF StepC
    <2>4. TypeOK'
      BY <1>3, <2>2, <2>3 DEF StepC, TypeOK, Statement, Unit, Joined
    <2> QED  BY <1>3, <2>2, <2>4 DEF StepC, Control, Selected
  <1>4. CASE SkipTable
    BY <1>4, AdvanceType DEF SkipTable, TypeOK, Control, Statement, Unit
  <1>5. CASE Select
    <2>1. tab \in Joined /\ Key(tab) \in Id
      <3>1. c.pos \in DOMAIN db["C"] /\ "C" \in DOMAIN db
        BY <1>5 DEF Select, Control, Selected
      <3>2. db["C"][c.pos] \in CRow
        BY <3>1, RowsOfDatabase DEF TypeOK
      <3> QED  BY <3>2 DEF Key, CRow, TypeOK
    <2>2. Rebind(sel[tab], tab, Key(tab)) \in Statement(tab)
      BY <2>1, RebindType DEF TypeOK
    <2>3. Rebind(sel[tab], tab, Key(tab)).st # "null" => tab \in DOMAIN db
      BY <2>1, RebindType DEF TypeOK, Control
    <2>4. /\ DOMAIN sel' = Joined
          /\ sel'[tab] = Rebind(sel[tab], tab, Key(tab))
          /\ \A t \in Joined \ {tab} : sel'[t] = sel[t]
      BY <1>5, <2>1 DEF Select, TypeOK
    <2>5. CASE sel'[tab].st = "null"
      BY <1>5, <2>1, <2>2, <2>3, <2>4, <2>5, AdvanceType
         DEF Select, TypeOK, Control, Statement, Unit
    <2>6. CASE sel'[tab].st # "null"
      BY <1>5, <2>1, <2>2, <2>3, <2>4, <2>6
         DEF Select, TypeOK, Control, Statement, Unit
    <2> QED  BY <2>5, <2>6
  <1>6. CASE StepJoined
    <2>1. PICK s \in StepRow(sel[tab], Hits(db, tab, sel[tab].key)) :
            /\ sel' = [sel EXCEPT ![tab] = s]
            /\ IF s.st = "done" THEN Advance /\ UNCHANGED found
               ELSE /\ found' = [found EXCEPT ![tab] = Append(@, s.pos)]
                    /\ pc' = IF db[tab][s.pos].bad THEN "abort" ELSE "scan"
                    /\ UNCHANGED tab
      BY <1>6 DEF StepJoined
    <2>2. tab \in Joined /\ Hits(db, tab, sel[tab].key) \in SUBSET Rows(db, tab)
      BY SelectedType DEF TypeOK
    <2>3. /\ s \in Statement(tab)
          /\ s.st \in {"row", "done"}
          /\ s.st = "row" => s.pos \in Rows(db, tab)
      BY <2>2, StepRowType DEF TypeOK
    <2>4. /\ DOMAIN sel' = Joined
          /\ sel'[tab] = s
          /\ \A t \in Joined \ {tab} : sel'[t] = sel[t]
      BY <2>1, <2>2 DEF TypeOK
    <2>5. CASE s.st = "done"
      BY <1>6, <2>1, <2>2, <2>3, <2>4, <2>5, AdvanceType
         DEF StepJoined, TypeOK, Control, Statement, Unit
    <2>6. CASE s.st = "row"
      <3>1. /\ DOMAIN found' = Joined
            /\ found'[tab] = Append(found[tab], s.pos)
            /\ \A t \in Joined \ {tab} : found'[t] = found[t]
        BY <2>1, <2>2, <2>6 DEF TypeOK
      <3>2. found'[tab] \in Seq(Rows(db, tab))
        BY <2>2, <2>3, <2>6, <3>1 DEF TypeOK
      <3> QED  BY <1>6, <2>1, <2>2, <2>3, <2>4, <2>6, <3>1, <3>2
               DEF StepJoined, TypeOK, Control, Statement, Unit
    <2> QED  BY <2>3, <2>5, <2>6
  <1>7. CASE WriteRecord
    <2>1. PICK g \in LaneNums(db, found) : os' = os \o Record(db, c.pos, found, g)
      BY <1>7 DEF WriteRecord
    <2>2. Read(db, found, g) /\ c.pos \in Rows(db, "C")
      BY <1>7, LaneNumType, SelectedType DEF WriteRecord, Read, TypeOK, Control
    <2>3. Record(db, c.pos, found, g) \in Seq(Unit)
      BY <2>2, RecordShape DEF TypeOK
    <2>4. os' \in Seq(Unit)
      BY <2>1, <2>3, ConcatType DEF TypeOK
    <2>5. "C" \in DOMAIN db
      BY <2>2 DEF Rows
    <2> QED  BY <1>7, <2>4, <2>5 DEF WriteRecord, TypeOK, Control, Statement, Unit
  <1>8. CASE Finish
    BY <1>8 DEF Finish, TypeOK, Control, Statement, Unit
  <1>9. CASE SaveBin
    BY <1>9 DEF SaveBin, TypeOK, Control, Statement, Unit
  <1>10. CASE Stopped \/ UNCHANGED vars
    BY <1>10 DEF Stopped, vars, TypeOK, Control, Statement, Unit
  <1> QED  BY <1>1, <1>2, <1>3, <1>4, <1>5, <1>6, <1>7, <1>8, <1>9, <1>10
           DEF Next

(* Every variable of the export keeps its type: the rows a statement is on *)
(* and the rows read exist, and counts and lane numbers fit in their bits. *)
THEOREM TypeCorrect == Spec => []TypeOK
  <1>1. TypeInv => TypeOK
    BY DEF TypeInv
  <1> QED  BY TypeInit, TypeStep, <1>1, PTL DEF Spec

-----------------------------------------------------------------------------
(* Framing *)

(* The records lie end to end from the first unit to the last.             *)
Chained ==
  /\ os # <<>> => 1 \in Headers
  /\ \A i \in Headers :
       /\ After(i) = Len(os) + 1 \/ After(i) \in Headers
       /\ \A k \in 1..(Size(os[i]) - 1) :
            os[i + k].unit = Expected(os[i], k)

(* The row counter counts the headers, and the file string is made when    *)
(* nothing more is added to the stream.                                    *)
Counted ==
  /\ rownum = Cardinality(Headers)
  /\ pc \notin {"save", "end"} => bin = <<>>
  /\ bin # <<>> => bin = <<FileHeader(rownum, Len(os))>> \o os

FrameInv == TypeInv /\ Chained /\ Counted

LEMMA HeaderType ==
  ASSUME TypeOK, NEW i \in Headers
  PROVE  /\ i \in 1..Len(os)
         /\ os[i].cnt \in 0..15 /\ os[i].eta \in 0..1 /\ os[i].ptn \in 0..1
         /\ Size(os[i]) \in Nat \ {0}
  <1>1. i \in 1..Len(os) /\ os[i] \in Unit /\ os[i].unit = "record"
    BY DEF TypeOK, Headers
  <1>2. os[i].cnt \in 0..15 /\ os[i].eta \in 0..1 /\ os[i].ptn \in 0..1
    BY <1>1 DEF Unit
  <1> QED  BY <1>1, <1>2 DEF Size

LEMMA HeadersFinite == TypeOK => IsFiniteSet(Headers)
  <1> SUFFICES ASSUME TypeOK PROVE IsFiniteSet(Headers)
    OBVIOUS
  <1>1. Headers \subseteq 1..Len(os) /\ Len(os) \in Nat
    BY DEF Headers, TypeOK
  <1>2. IsFiniteSet(1..Len(os))
    BY <1>1, FS_Interval
  <1> QED  BY <1>1, <1>2, FS_Subset

(* What does not touch the stream keeps it framed.                         *)
LEMMA FrameKept ==
  ASSUME UNCHANGED os
  PROVE  /\ Headers' = Headers
         /\ Chained => Chained'
  BY DEF Headers, Chained, After

(* r is the record that WriteRecord adds to the stream.                    *)
Written(r) ==
  /\ r \in Seq(Unit) /\ r # <<>> /\ Len(r) = Size(r[1])
  /\ r[1].unit = "record" /\ r[1].src = c.pos
  /\ \A k \in 1..(Len(r) - 1) : /\ r[1 + k].unit = Expected(r[1], k)
                                 /\ ComesFrom(found, r, k)
  /\ Len(os') = Len(os) + Len(r)
  /\ \A i \in 1..Len(os) : os'[i] = os[i]
  /\ \A i \in 1..Len(r) : os'[Len(os) + i] = r[i]

LEMMA WrittenRecord ==
  ASSUME TypeInv, WriteRecord
  PROVE  \E r : Written(r)
  <1>1. PICK g \in LaneNums(db, found) : os' = os \o Record(db, c.pos, found, g)
    BY DEF WriteRecord
  <1> DEFINE r == Record(db, c.pos, found, g)
  <1>2. Read(db, found, g) /\ c.pos \in Rows(db, "C")
    BY LaneNumType, SelectedType
       DEF WriteRecord, Read, TypeInv, TypeOK, Control
  <1>3. /\ r \in Seq(Unit) /\ r # <<>> /\ r[1].unit = "record"
        /\ r[1].src = c.pos /\ Len(r) = Size(r[1])
        /\ \A k \in 1..(Len(r) - 1) : /\ r[1 + k].unit = Expected(r[1], k)
                                       /\ ComesFrom(found, r, k)
    BY <1>2, RecordShape DEF TypeInv, TypeOK
  <1>4. /\ Len(os') = Len(os) + Len(r)
        /\ \A i \in 1..Len(os) : os'[i] = os[i]
        /\ \A i \in 1..Len(r) : os'[Len(os) + i] = r[i]
    <2>1. os \in Seq(Unit) /\ os' = os \o r
      BY <1>1 DEF TypeInv, TypeOK
    <2> HIDE DEF r
    <2> QED  BY <1>3, <2>1, ConcatType
  <1> HIDE DEF r
  <1>5. Written(r)
    BY <1>3, <1>4 DEF Written
  <1> QED  BY <1>5

(* One record more: the stream so far gets a header right after its end.   *)
LEMMA FrameWrite ==
  ASSUME TypeInv, Chained, WriteRecord
  PROVE  /\ Headers' = Headers \cup {Len(os) + 1}
         /\ Chained'
  <1>1. PICK r : Written(r)
    BY WrittenRecord
  <1> DEFINE L == Len(os)
  <1>3. /\ r \in Seq(Unit) /\ r # <<>> /\ r[1].unit = "record"
        /\ Len(r) = Size(r[1])
        /\ \A k \in 1..(Len(r) - 1) : r[1 + k].unit = Expected(r[1], k)
    BY <1>1 DEF Written
  <1>4. /\ os \in Seq(Unit) /\ L \in Nat /\ Len(r) \in Nat \ {0}
        /\ Len(os') = L + Len(r)
        /\ \A i \in 1..L : os'[i] = os[i]
        /\ \A i \in 1..Len(r) : os'[L + i] = r[i]
    BY <1>1, <1>3 DEF Written, TypeInv, TypeOK
  <1>5. \A k \in 1..(Len(r) - 1) :
          /\ os'[(L + 1) + k].unit = Expected(r[1], k)
          /\ os'[(L + 1) + k].unit # "record"
    <2> TAKE k \in 1..(Len(r) - 1)
    <2>1. os'[L + (1 + k)] = r[1 + k] /\ (L + 1) + k = L + (1 + k)
      BY <1>4
    <2> QED  BY <1>3, <2>1 DEF Expected
  <1>6. os'[L + 1] = r[1]
    BY <1>4
  <1>7. Headers' = Headers \cup {L + 1}
    <2>1. \A i \in 1..Len(os') : \/ i \in 1..L
                               \/ i = L + 1
                               \/ i - (L + 1) \in 1..(Len(r) - 1)
      BY <1>4
    <2>2. \A i \in Headers' : i \in Headers \cup {L + 1}
      <3> TAKE i \in Headers'
      <3>1. i \in 1..Len(os') /\ os'[i].unit = "record"
        BY DEF Headers
      <3>2. CASE i \in 1..L
        BY <1>4, <3>1, <3>2 DEF Headers
      <3>3. CASE i - (L + 1) \in 1..(Len(r) - 1)
        <4>1. (L + 1) + (i - (L + 1)) = i
          BY <1>4, <3>1
        <4> QED  BY <1>5, <3>1, <3>3, <4>1
      <3> QED  BY <2>1, <3>1, <3>2, <3>3
    <2>3. \A i \in Headers \cup {L + 1} : i \in Headers'
      BY <1>3, <1>4, <1>6 DEF Headers
    <2> QED  BY <2>2, <2>3
  <1>8. 1 \in Headers'
    <2>1. CASE os = <<>>
      BY <1>7, <2>1
    <2>2. CASE os # <<>>
      BY <1>7, <2>2 DEF Chained
    <2> QED  BY <2>1, <2>2
  <1>9. ASSUME NEW i \in Headers
        PROVE  /\ After(i)' = Len(os') + 1 \/ After(i)' \in Headers'
               /\ \A k \in 1..(Size(os'[i]) - 1) :
                    os'[i + k].unit = Expected(os'[i], k)
    <2>1. i \in 1..L /\ os'[i] = os[i] /\ Size(os[i]) \in Nat \ {0}
      BY <1>4, HeaderType DEF TypeInv
    <2>2. After(i) = L + 1 \/ After(i) \in Headers
      BY DEF Chained
    <2>3. After(i)' = After(i) /\ After(i) \in 1..(L + 1)
      BY <2>1, <2>2, <1>4 DEF After, Headers
    <2>4. \A k \in 1..(Size(os[i]) - 1) : i + k \in 1..L
      BY <2>1, <2>3, <1>4 DEF After
    <2>5. \A k \in 1..(Size(os[i]) - 1) : os[i + k].unit = Expected(os[i], k)
      BY DEF Chained
    <2> QED  BY <1>4, <1>7, <2>1, <2>2, <2>3, <2>4, <2>5
  <1>10. /\ (L + 1) + Size(os'[L + 1]) = Len(os') + 1
         /\ \A k \in 1..(Size(os'[L + 1]) - 1) :
              os'[(L + 1) + k].unit = Expected(os'[L + 1], k)
    <2>1. (L + 1) + Len(r) = Len(os') + 1
      BY <1>4
    <2> QED  BY <1>3, <1>5, <1>6, <2>1
  <1>11. Chained'
    <2>1. ASSUME NEW i \in Headers'
          PROVE  /\ After(i)' = Len(os') + 1 \/ After(i)' \in Headers'
                 /\ \A k \in 1..(Size(os'[i]) - 1) :
                      os'[i + k].unit = Expected(os'[i], k)
      <3>1. CASE i \in Headers
        BY <1>9, <3>1
      <3>2. CASE i = L + 1
        <4>1. After(i)' = i + Size(os'[i])
          BY DEF After
        <4> QED  BY <1>10, <3>2, <4>1
      <3> QED  BY <1>7, <3>1, <3>2
    <2> QED  BY <1>8, <2>1 DEF Chained
  <1> QED  BY <1>7, <1>11

LEMMA FrameStep == FrameInv /\ [Next]_vars => FrameInv'
  <1> SUFFICES ASSUME FrameInv, [Next]_vars PROVE FrameInv'
    OBVIOUS
  <1>1. TypeInv /\ TypeOK /\ TypeInv' /\ Chained /\ Counted
    BY TypeStep DEF FrameInv, TypeInv
  <1>2. CASE WriteRecord
    <2>1. Headers' = Headers \cup {Len(os) + 1} /\ Chained'
      BY <1>1, <1>2, FrameWrite
    <2>2. Len(os) + 1 \notin Headers
      BY <1>1 DEF Headers, TypeOK
    <2>3. Cardinality(Headers') = Cardinality(Headers) + 1
      BY <1>1, <2>1, <2>2, HeadersFinite, FS_AddElement
    <2> QED  BY <1>1, <1>2, <2>1, <2>3 DEF WriteRecord, FrameInv, Counted
  <1>3. CASE Finish
    BY <1>1, <1>3, FrameKept DEF Finish, FrameInv, Counted
  <1>4. CASE OpenBin \/ PrepareC \/ StepC \/ SkipTable \/ Select \/ StepJoined
    <2>1. UNCHANGED <<os, rownum, bin>> /\ pc \notin {"save", "end"}
      BY <1>4 DEF OpenBin, PrepareC, StepC, SkipTable, Select, StepJoined
    <2> QED  BY <1>1, <2>1, FrameKept DEF FrameInv, Counted
  <1>5. CASE SaveBin \/ Stopped \/ UNCHANGED vars
    <2>1. UNCHANGED <<os, rownum, bin>> /\ (pc' = pc \/ pc' = "end")
      BY <1>5 DEF SaveBin, Stopped, vars
    <2> QED  BY <1>1, <1>5, <2>1, FrameKept
             DEF FrameInv, Counted, SaveBin, Stopped, vars
  <1> QED  BY <1>2, <1>3, <1>4, <1>5 DEF Next

LEMMA FrameInit == Init => FrameInv
  <1> SUFFICES ASSUME Init PROVE FrameInv
    OBVIOUS
  <1>1. Headers = {}
    BY DEF Init, Headers
  <1>2. Cardinality(Headers) = 0
    BY <1>1, FS_EmptySet
  <1> QED  BY <1>1, <1>2, TypeInit DEF Init, FrameInv, Chained, Counted

(***************************************************************************)
(* The stream can be read from its headers alone, and the header of the    *)
(* file counts its records and units, for every database and whichever     *)
(* steps fail.                                                             *)
(***************************************************************************)
THEOREM StreamFramed == Spec => []Framed
  <1>1. FrameInv => Framed
    BY DEF FrameInv, Chained, Counted, Framed
  <1> QED  BY FrameInit, FrameStep, <1>1, PTL DEF Spec

-----------------------------------------------------------------------------
(* The join *)

Increasing(s) == \A a, b \in 1..Len(s) : a < b => s[a] < s[b]

(* Before each number of s come all the smaller ones of hits.              *)
NoGaps(s, hits) ==
  \A a \in 1..Len(s) : \A r \in hits :
    r < s[a] => \E b \in 1..(a - 1) : s[b] = r

(* The rows read for the current row of C have its IDs, in table order,    *)
(* and are the first of those that have.                                   *)
ReadFor(t) ==
  /\ found[t] # <<>> => Key(t) # NoId
  /\ \A a \in 1..Len(found[t]) : found[t][a] \in Hits(db, t, Key(t))
  /\ Increasing(found[t])
  /\ NoGaps(found[t], Hits(db, t, Key(t)))

(* The tables not read yet for the current row of C.                       *)
Pending ==
  CASE tab = "CR"           -> Joined
    [] tab = "Toll_ETA"     -> {"Toll_ETA", "Toll_Pattern"}
    [] tab = "Toll_Pattern" -> {"Toll_Pattern"}

RowsRead ==
  /\ pc \in {"select", "scan", "write"} => \A t \in Joined : ReadFor(t)
  /\ pc = "select" => \A t \in Pending : found[t] = <<>>
  /\ pc = "scan" => \A t \in Pending \ {tab} : found[t] = <<>>

(* The statement being stepped is bound to the ID of the current row, and  *)
(* stands on the last row read, with no row before it left out.            *)
Scanning ==
  pc = "scan" =>
    /\ Key(tab) # NoId
    /\ sel[tab].key = Key(tab)
    /\ sel[tab].st \in {"ready", "row"}
    /\ \A a \in 1..Len(found[tab]) : found[tab][a] <= sel[tab].pos
    /\ \A r \in Hits(db, tab, Key(tab)) :
         r <= sel[tab].pos => \E a \in 1..Len(found[tab]) : found[tab][a] = r

(* The records written are those of rows of C before the one being read.   *)
RecordsOf ==
  /\ pc \in {"open", "prepare"} => os = <<>>
  /\ pc = "next" =>
       c.st \in {"ready", "row"} /\ \A i \in Headers : os[i].src <= c.pos
  /\ pc \in {"select", "scan", "write"} =>
       c.st = "row" /\ \A i \in Headers : os[i].src < c.pos
  /\ \A i, j \in Headers : i < j => os[i].src < os[j].src
  /\ \A i \in Headers : os[i].src \in Selected(db)

UnitSound(i, k) ==
  LET u    == os[k].unit
      id   == IdFor(db["C"][os[i].src], u)
      hits == Hits(db, TableOf[u], id)
      past == {l \in (i + 1)..(k - 1) : os[l].unit = u}
  IN  /\ id # NoId
      /\ os[k].src \in hits
      /\ {os[l].src : l \in past} = {r \in hits : r < os[k].src}

UnitsSound == \A i, k \in 1..Len(os) : Owns(i, k) => UnitSound(i, k)

JoinInv == FrameInv /\ RowsRead /\ Scanning /\ RecordsOf /\ UnitsSound

(* A step to a row is a step forward, to the next row with the ID bound.   *)
LEMMA StepForward ==
  ASSUME NEW t, NEW s \in Statement(t), s.st # "done", NEW hits,
         NEW r \in StepRow(s, hits), r.st = "row"
  PROVE  /\ r.pos \in hits /\ r.pos > s.pos /\ r.key = s.key
         /\ \A i \in hits : i > s.pos => r.pos <= i
  <1> DEFINE rest == {i \in hits : i > s.pos}
  <1>1. PICK i \in rest : /\ \A j \in rest : i <= j
                          /\ r = [s EXCEPT !.st = "row", !.pos = i]
    BY DEF StepRow, Statement
  <1>2. r.pos = i /\ r.key = s.key
    BY <1>1 DEF Statement
  <1> QED  BY <1>1, <1>2

LEMMA BoundBeforeFirst ==
  ASSUME NEW t \in Joined, NEW s \in Statement(t), NEW k,
         Rebind(s, t, k).st # "null"
  PROVE  Rebind(s, t, k).pos = 0
  <1> DEFINE r == IF s.st = "null" THEN Create(t) ELSE Reset(s)
  <1>1. r.st \in {"null", "ready"} /\ r.pos = 0 /\ r = [st |-> r.st, key |-> r.key, pos |-> r.pos]
    BY DEF Reset, Create, Null, Prepared, Statement
  <1>2. Rebind(s, t, k) = IF r.st = "null" THEN r ELSE BindText(r, k)
    BY DEF Rebind
  <1> HIDE DEF r
  <1> QED  BY <1>1, <1>2 DEF BindText

LEMMA HitsAreNumbers ==
  ASSUME TypeOK, NEW t \in Tables
  PROVE  /\ \A k : Hits(db, t, k) \subseteq Nat \ {0}
         /\ Selected(db) \subseteq Nat \ {0}
  <1>1. Rows(db, t) \subseteq Nat \ {0} /\ Rows(db, "C") \subseteq Nat \ {0}
    BY RowsAreNumbers DEF TypeOK, Tables
  <1> QED  BY <1>1 DEF Hits, Selected, Rows

LEMMA NothingRead ==
  ASSUME NEW t \in Joined, found[t] = <<>>
  PROVE  ReadFor(t)
  <1>1. Len(found[t]) = 0
    BY Zenon, Len(<<>>) = 0
  <1> QED  BY <1>1 DEF ReadFor, Increasing, NoGaps

(* After the current table come the pending ones but itself.               *)
LEMMA AdvancePending ==
  ASSUME TypeOK, Advance
  PROVE  pc' = "select" => Pending' \subseteq Pending \ {tab}
  BY DEF TypeOK, Advance, Pending, Joined

LEMMA PendingType == TypeOK => tab \in Pending /\ Pending \subseteq Joined
  BY DEF TypeOK, Pending, Joined

LEMMA AppendType ==
  ASSUME NEW S, NEW s \in Seq(S), NEW e
  PROVE  /\ Len(s) \in Nat /\ Len(Append(s, e)) = Len(s) + 1
         /\ Append(s, e)[Len(s) + 1] = e
         /\ \A a \in 1..Len(s) : Append(s, e)[a] = s[a] /\ s[a] \in S
  OBVIOUS

(* The reading of the joined tables for one row of C.                      *)
LEMMA ReadStep ==
  TypeInv /\ RowsRead /\ Scanning /\ [Next]_vars => RowsRead' /\ Scanning'
  <1> SUFFICES ASSUME TypeInv, RowsRead, Scanning, [Next]_vars
               PROVE  RowsRead' /\ Scanning'
    OBVIOUS
  <1>1. TypeOK /\ Control /\ tab \in Joined /\ tab \in Pending
          /\ Pending \subseteq Joined
    BY PendingType DEF TypeInv, TypeOK
  <1>2. ASSUME UNCHANGED <<db, c>>
        PROVE  /\ \A t : Key(t)' = Key(t)
               /\ \A t : UNCHANGED (found[t]) => (ReadFor(t) => ReadFor(t)')
    BY <1>2 DEF Key, ReadFor
  <1>3. CASE pc' \notin {"select", "scan", "write"}
    BY <1>3 DEF RowsRead, Scanning
  <1>4. CASE StepC /\ pc' = "select"
    <2>1. pc' = "select" /\ found' = Nothing
      BY <1>4 DEF StepC
    <2>2. \A t \in Joined : found'[t] = <<>>
      BY <2>1 DEF Nothing
    <2>3. ASSUME NEW t \in Joined PROVE ReadFor(t)'
      <3>1. Len(found'[t]) = 0
        BY <2>2
      <3> QED  BY <2>2, <3>1 DEF ReadFor, Increasing, NoGaps
    <2>4. Pending' \subseteq Joined
      BY <1>4 DEF StepC, Pending, Joined
    <2> QED  BY <2>1, <2>2, <2>3, <2>4 DEF RowsRead, Scanning
  <1>5. CASE SkipTable
    <2>1. UNCHANGED <<db, c, found>> /\ Advance /\ pc = "select"
      BY <1>5 DEF SkipTable
    <2>2. pc' # "scan"
      BY <1>1, <2>1, AdvanceType
    <2>3. pc' = "select" => Pending' \subseteq Pending
      BY <1>1, <2>1, AdvancePending
    <2> QED  BY <1>2, <2>1, <2>2, <2>3 DEF RowsRead, Scanning
  <1>6. CASE Select
    <2>1. /\ UNCHANGED <<db, c, found>> /\ pc = "select" /\ Key(tab) # NoId
          /\ sel' = [sel EXCEPT ![tab] = Rebind(sel[tab], tab, Key(tab))]
      BY <1>6 DEF Select
    <2>2. CASE sel'[tab].st = "null"
      <3>1. Advance
        BY <1>6, <2>2 DEF Select
      <3>2. pc' # "scan"
        BY <1>1, <3>1, AdvanceType
      <3>3. pc' = "select" => Pending' \subseteq Pending
        BY <1>1, <3>1, AdvancePending
      <3> QED  BY <1>2, <2>1, <3>2, <3>3 DEF RowsRead, Scanning
    <2>3. CASE sel'[tab].st # "null"
      <3>1. pc' = "scan" /\ tab' = tab /\ Pending' = Pending
        BY <1>6, <2>3 DEF Select, Pending
      <3>2. sel'[tab] = Rebind(sel[tab], tab, Key(tab))
        BY <1>1, <2>1 DEF TypeOK
      <3>3. Key(tab) \in Id
        <4>1. c.pos \in DOMAIN db["C"] /\ "C" \in DOMAIN db
          BY <1>1, <2>1 DEF Control, Selected
        <4>2. db["C"][c.pos] \in CRow
          BY <1>1, <4>1, RowsOfDatabase DEF TypeOK
        <4> QED  BY <4>2 DEF Key, CRow
      <3>4. sel'[tab].st = "ready" /\ sel'[tab].key = Key(tab)
        BY <1>1, <2>3, <3>2, <3>3, RebindType DEF TypeOK
      <3>5. found'[tab] = <<>> /\ Len(found'[tab]) = 0
        <4>1. found[tab] = <<>>
          BY <1>1, <2>1 DEF RowsRead
        <4>2. Len(<<>>) = 0
          OBVIOUS
        <4> QED  BY <2>1, <4>1, <4>2
      <3>6. sel'[tab].pos = 0 /\ Hits(db, tab, Key(tab)) \subseteq Nat \ {0}
        BY <1>1, <2>3, <3>2, BoundBeforeFirst, HitsAreNumbers
           DEF TypeOK, Tables
      <3>8. \A r \in Hits(db, tab, Key(tab)) : ~ (r <= sel'[tab].pos)
        BY <3>6
      <3>9. Scanning'
        BY <1>2, <2>1, <3>1, <3>4, <3>5, <3>8 DEF Scanning
      <3>7. RowsRead'
        BY <1>2, <2>1, <3>1 DEF RowsRead
      <3> QED  BY <3>7, <3>9
    <2> QED  BY <2>2, <2>3
  <1>7. CASE StepJoined
    <2> DEFINE hits == Hits(db, tab, sel[tab].key)
    <2>1. PICK s \in StepRow(sel[tab], hits) :
            /\ sel' = [sel EXCEPT ![tab] = s]
            /\ IF s.st = "done" THEN Advance /\ UNCHANGED found
               ELSE /\ found' = [found EXCEPT ![tab] = Append(@, s.pos)]
                    /\ pc' = IF db[tab][s.pos].bad THEN "abort" ELSE "scan"
                    /\ UNCHANGED tab
      BY <1>7 DEF StepJoined
    <2>2. UNCHANGED <<db, c>> /\ pc = "scan"
      BY <1>7 DEF StepJoined
    <2>3. /\ Key(tab) # NoId /\ sel[tab].key = Key(tab)
          /\ sel[tab].st \in {"ready", "row"}
          /\ \A a \in 1..Len(found[tab]) : found[tab][a] <= sel[tab].pos
          /\ \A r \in hits : r <= sel[tab].pos =>
               \E a \in 1..Len(found[tab]) : found[tab][a] = r
      BY <2>2 DEF Scanning
    <2>4. CASE s.st = "done"
      <3>1. Advance /\ found' = found
        BY <2>1, <2>4
      <3>2. pc' # "scan"
        BY <1>1, <3>1, AdvanceType
      <3>3. pc' = "select" => Pending' \subseteq Pending \ {tab}
        BY <1>1, <3>1, AdvancePending
      <3> QED  BY <1>2, <2>2, <3>1, <3>2, <3>3 DEF RowsRead, Scanning
    <2>5. CASE s.st = "row" /\ pc' = "scan"
      <3>1. /\ tab' = tab /\ Pending' = Pending
            /\ found' = [found EXCEPT ![tab] = Append(found[tab], s.pos)]
        BY <2>1, <2>5 DEF Pending
      <3>2. sel[tab] \in Statement(tab) /\ sel[tab].st # "done"
        BY <1>1, <2>3 DEF TypeOK
      <3>3. /\ s.pos \in hits /\ s.pos > sel[tab].pos /\ s.key = sel[tab].key
            /\ \A r \in hits : r > sel[tab].pos => s.pos <= r
        BY <2>5, <3>2, StepForward
      <3>4. sel'[tab] = s
        BY <1>1, <2>1 DEF TypeOK
      <3>5. /\ found'[tab] = Append(found[tab], s.pos)
            /\ \A t \in Joined \ {tab} : found'[t] = found[t]
        BY <1>1, <3>1 DEF TypeOK
      <3>6. PICK S \in SUBSET Nat : found[tab] \in Seq(S)
        <4>1. found[tab] \in Seq(Rows(db, tab))
          BY <1>1 DEF TypeOK
        <4>2. Rows(db, tab) \subseteq Nat
          BY <1>1, RowsAreNumbers DEF TypeOK, Tables
        <4> QED  BY <4>1, <4>2
      <3>7. s.pos \in Nat /\ sel[tab].pos \in Nat
        <4>1. {0} \cup Rows(db, tab) \subseteq Nat
          BY <1>1, RowsAreNumbers DEF TypeOK, Tables
        <4>2. s.pos \in Nat
          BY <1>1, <3>3, HitsAreNumbers DEF Tables
        <4> QED  BY <3>2, <4>1, <4>2 DEF Statement
      <3> DEFINE n == Len(found[tab])
      <3>8. /\ n \in Nat /\ Len(found'[tab]) = n + 1
            /\ found'[tab][n + 1] = s.pos
            /\ \A a \in 1..n : found'[tab][a] = found[tab][a] /\ found[tab][a] \in Nat
        <4> DEFINE q == found[tab]
        <4>1. q \in Seq(S)
          BY <3>6
        <4> HIDE DEF hits, q
        <4>2. /\ Len(q) \in Nat /\ Len(Append(q, s.pos)) = Len(q) + 1
              /\ Append(q, s.pos)[Len(q) + 1] = s.pos
              /\ \A a \in 1..Len(q) : Append(q, s.pos)[a] = q[a] /\ q[a] \in S
          BY <4>1, AppendType
        <4>3. found'[tab] = Append(q, s.pos)
          BY <3>5 DEF q
        <4> QED  BY <3>6, <4>2, <4>3 DEF q
      <3> HIDE DEF n, hits
      <3>9. \A a \in 1..(n + 1) : a \in 1..n \/ a = n + 1
        BY <3>8
      <3>10. \A a \in 1..n : found[tab][a] < s.pos
        BY <2>3, <3>3, <3>7, <3>8 DEF n
      <3>11. Increasing(found'[tab])
        <4> SUFFICES ASSUME NEW a \in 1..(n + 1), NEW b \in 1..(n + 1), a < b
                     PROVE  found'[tab][a] < found'[tab][b]
          BY <3>8 DEF Increasing
        <4>1. a \in 1..n
          BY <3>8
        <4>2. Increasing(found[tab])
          BY <1>1, <2>2 DEF RowsRead, ReadFor
        <4>3. CASE b \in 1..n
          BY <3>8, <4>1, <4>2, <4>3 DEF Increasing, n
        <4>4. CASE b = n + 1
          BY <3>8, <3>10, <4>1, <4>4
        <4> QED  BY <3>9, <4>3, <4>4
      <3>12. \A a \in 1..Len(found'[tab]) : found'[tab][a] \in Hits(db, tab, Key(tab))
        <4>1. \A a \in 1..n : found[tab][a] \in Hits(db, tab, Key(tab))
          BY <1>1, <2>2 DEF RowsRead, ReadFor, n
        <4>2. s.pos \in Hits(db, tab, Key(tab))
          BY <2>3, <3>3 DEF hits
        <4> QED  BY <3>8, <3>9, <4>1, <4>2
      <3>19. /\ hits = Hits(db, tab, Key(tab)) /\ hits \subseteq Nat
             /\ \A r \in hits : r <= sel[tab].pos =>
                  \E a \in 1..n : found[tab][a] = r
        BY <1>1, <2>3, HitsAreNumbers DEF Tables, hits, n
      <3>20. \A r \in hits : r < s.pos => r <= sel[tab].pos
        BY <3>3, <3>7, <3>19
      <3>21. NoGaps(found'[tab], hits)
        <4> SUFFICES ASSUME NEW a \in 1..(n + 1), NEW r \in hits,
                            r < found'[tab][a]
                     PROVE  \E b \in 1..(a - 1) : found'[tab][b] = r
          BY <3>8 DEF NoGaps
        <4>1. CASE a \in 1..n
          <5>1. NoGaps(found[tab], hits) /\ r < found[tab][a]
            BY <1>1, <2>2, <3>8, <3>19, <4>1 DEF RowsRead, ReadFor
          <5>2. PICK b \in 1..(a - 1) : found[tab][b] = r
            BY <4>1, <5>1 DEF NoGaps, n
          <5> QED  BY <3>8, <4>1, <5>2
        <4>2. CASE a = n + 1
          <5>1. PICK b \in 1..n : found[tab][b] = r
            BY <3>8, <3>19, <3>20, <4>2
          <5> QED  BY <3>8, <4>2, <5>1
        <4> QED  BY <3>9, <4>1, <4>2
      <3>22. \A r \in hits : r <= s.pos =>
               \E a \in 1..(n + 1) : found'[tab][a] = r
        <4> SUFFICES ASSUME NEW r \in hits, r <= s.pos
                     PROVE  \E a \in 1..(n + 1) : found'[tab][a] = r
          OBVIOUS
        <4>1. CASE r = s.pos
          BY <3>8, <4>1
        <4>2. CASE r < s.pos
          <5>1. PICK b \in 1..n : found[tab][b] = r
            BY <3>19, <3>20, <4>2
          <5> QED  BY <3>8, <5>1
        <4> QED  BY <3>7, <3>19, <4>1, <4>2
      <3>13. ReadFor(tab)'
        BY <1>2, <2>2, <2>3, <3>1, <3>11, <3>12, <3>19, <3>21 DEF ReadFor
      <3>14. \A a \in 1..Len(found'[tab]) : found'[tab][a] <= s.pos
        BY <3>7, <3>8, <3>9, <3>10
      <3>15. Scanning'
        BY <1>2, <2>2, <2>3, <2>5, <3>1, <3>3, <3>4, <3>8, <3>14, <3>19, <3>22
           DEF Scanning
      <3>16. \A t \in Joined : ReadFor(t)'
        <4> TAKE t \in Joined
        <4>1. CASE t = tab
          BY <3>1, <3>13, <4>1
        <4>2. CASE t # tab
          BY <1>2, <2>2, <3>5, <4>2 DEF RowsRead
        <4> QED  BY <4>1, <4>2
      <3>17. \A t \in Pending \ {tab} : found'[t] = <<>>
        BY <1>1, <2>2, <3>5 DEF RowsRead
      <3>18. RowsRead'
        BY <2>5, <3>1, <3>16, <3>17 DEF RowsRead
      <3> QED  BY <3>15, <3>18
    <2>6. s.st = "done" \/ s.st = "row"
      <3>1. sel[tab] \in Statement(tab) /\ hits \in SUBSET Rows(db, tab)
        BY <1>1, SelectedType DEF TypeOK
      <3> HIDE DEF hits
      <3> QED  BY <2>1, <3>1, StepRowType
    <2> QED  BY <1>3, <2>1, <2>4, <2>5, <2>6
  <1>8. CASE Stopped \/ UNCHANGED vars
    BY <1>8 DEF Stopped, vars, RowsRead, Scanning, ReadFor, Key, Pending
  <1>9. CASE OpenBin \/ PrepareC \/ WriteRecord \/ Finish \/ SaveBin
    BY <1>3, <1>9 DEF OpenBin, PrepareC, WriteRecord, Finish, SaveBin
  <1>10. CASE StepC /\ pc' # "select"
    BY <1>3, <1>10 DEF StepC
  <1> QED  BY <1>4, <1>5, <1>6, <1>7, <1>8, <1>9, <1>10 DEF Next

(* The records so far and the row of C being read.                         *)
LEMMA RecordsStep ==
  TypeInv /\ Chained /\ RecordsOf /\ [Next]_vars => RecordsOf'
  <1> SUFFICES ASSUME TypeInv, Chained, RecordsOf, [Next]_vars
               PROVE  RecordsOf'
    OBVIOUS
  <1>1. TypeOK /\ db' = db /\ Selected(db)' = Selected(db)
    BY DEF TypeInv, Next, OpenBin, PrepareC, StepC, SkipTable, Select,
           StepJoined, WriteRecord, Finish, SaveBin, Stopped, vars
  <1>2. \A i \in Headers : os[i].src \in Nat
    BY <1>1, HitsAreNumbers DEF RecordsOf, Tables
  <1>3. CASE WriteRecord
    <2> DEFINE L == Len(os)
    <2>1. PICK r : Written(r)
      BY <1>3, WrittenRecord DEF TypeInv
    <2>2. Headers' = Headers \cup {L + 1}
      BY <1>3, FrameWrite
    <2>3. /\ L \in Nat /\ os'[L + 1].src = c.pos
          /\ \A i \in Headers : i \in 1..L /\ os'[i] = os[i]
      BY <1>1, <2>1 DEF Written, Headers, TypeOK
    <2>4. /\ pc = "write" /\ pc' = "next" /\ c' = c
      BY <1>3 DEF WriteRecord
    <2>5. /\ c.st = "row" /\ c.pos \in Selected(db) /\ c.pos \in Nat
          /\ \A i \in Headers : os[i].src < c.pos
      BY <1>1, <2>4, HitsAreNumbers DEF RecordsOf, TypeInv, Control, Tables
    <2> HIDE DEF L
    <2>6. \A i \in Headers' : os'[i].src <= c.pos
      BY <1>2, <2>2, <2>3, <2>5
    <2>7. \A i, j \in Headers' : i < j => os'[i].src < os'[j].src
      <3> SUFFICES ASSUME NEW i \in Headers', NEW j \in Headers', i < j
                   PROVE  os'[i].src < os'[j].src
        OBVIOUS
      <3>1. i \in Headers
        BY <2>2, <2>3
      <3>2. CASE j \in Headers
        BY <2>3, <3>1, <3>2 DEF RecordsOf
      <3>3. CASE j = L + 1
        BY <2>3, <2>5, <3>1, <3>3
      <3> QED  BY <2>2, <3>2, <3>3
    <2>8. \A i \in Headers' : os'[i].src \in Selected(db)
      BY <2>2, <2>3, <2>5 DEF RecordsOf
    <2> QED  BY <1>1, <2>4, <2>5, <2>6, <2>7, <2>8 DEF RecordsOf
  <1>4. ASSUME UNCHANGED os
        PROVE  /\ Headers' = Headers
               /\ \A i, j \in Headers' : i < j => os'[i].src < os'[j].src
               /\ \A i \in Headers' : os'[i].src \in Selected(db)'
    BY <1>1, <1>4 DEF Headers, RecordsOf
  <1>5. CASE StepC
    <2>1. /\ c' \in StepRow(c, Selected(db)) /\ UNCHANGED os /\ pc = "next"
          /\ c.st # "done" /\ c \in Statement("C")
          /\ \A i \in Headers : os[i].src <= c.pos
      BY <1>1, <1>5 DEF StepC, RecordsOf, TypeOK
    <2>2. CASE c'.st = "row"
      <3>1. c'.pos \in Selected(db) /\ c'.pos > c.pos
        BY <2>1, <2>2, StepForward
      <3>2. c'.pos \in Nat
        BY <1>1, <3>1, HitsAreNumbers DEF Tables
      <3>3. c.pos \in Nat
        <4>1. {0} \cup Rows(db, "C") \subseteq Nat
          BY <1>1, RowsAreNumbers DEF TypeOK, Tables
        <4> QED  BY <2>1, <4>1 DEF Statement
      <3>4. \A i \in Headers : os[i].src < c'.pos
        BY <1>2, <2>1, <3>1, <3>2, <3>3
      <3>5. pc' \in {"abort", "select"}
        BY <1>5, <2>2 DEF StepC
      <3> QED  BY <1>4, <2>1, <2>2, <3>4, <3>5 DEF RecordsOf
    <2>3. CASE c'.st = "done"
      <3>1. pc' = "finish"
        BY <1>5, <2>3 DEF StepC
      <3> QED  BY <1>4, <2>1, <3>1 DEF RecordsOf
    <2>4. c'.st \in {"row", "done"}
      BY <2>1, SelectedType, StepRowType
    <2> QED  BY <2>2, <2>3, <2>4
  <1>6. CASE OpenBin
    BY <1>4, <1>6 DEF OpenBin, RecordsOf
  <1>7. CASE PrepareC
    <2>1. os = <<>> /\ os' = os /\ pc' \in {"save", "next"}
            /\ (pc' = "next" => c'.st = "ready")
      BY <1>7 DEF PrepareC, RecordsOf, Create, Prepared, Null
    <2>2. Headers' = {}
      BY <2>1 DEF Headers
    <2> QED  BY <1>4, <2>1, <2>2 DEF RecordsOf
  <1>8. CASE SkipTable \/ Select \/ StepJoined
    <2>1. UNCHANGED <<os, c>> /\ pc \in {"select", "scan"}
      BY <1>8 DEF SkipTable, Select, StepJoined
    <2>2. pc' \in {"select", "scan", "write", "abort"}
      <3>1. CASE SkipTable
        BY <3>1, <1>1, AdvanceType DEF SkipTable
      <3>2. CASE Select
        BY <3>2, <1>1, AdvanceType DEF Select
      <3>3. CASE StepJoined
        BY <3>3, <1>1, AdvanceType DEF StepJoined
      <3> QED  BY <1>8, <3>1, <3>2, <3>3
    <2> QED  BY <1>4, <2>1, <2>2 DEF RecordsOf
  <1>9. CASE Finish \/ SaveBin \/ Stopped \/ UNCHANGED vars
    BY <1>4, <1>9 DEF Finish, SaveBin, Stopped, vars, RecordsOf
  <1> QED  BY <1>3, <1>5, <1>6, <1>7, <1>8, <1>9 DEF Next

(* The units of the records so far do not change when one is added.        *)
LEMMA OldUnits ==
  ASSUME TypeInv, Chained, UnitsSound, WriteRecord, NEW r, Written(r),
         NEW i \in Headers, NEW k \in (i + 1)..(After(i)' - 1)
  PROVE  UnitSound(i, k)'
  <1> DEFINE L == Len(os)
  <1>1. /\ L \in Nat /\ \A m \in 1..L : os'[m] = os[m]
        /\ db' = db
    BY DEF Written, TypeInv, TypeOK, WriteRecord
  <1>2. i \in 1..L /\ Size(os[i]) \in Nat \ {0}
    BY HeaderType DEF TypeInv
  <1>3. After(i)' = After(i) /\ After(i) \in 1..(L + 1)
    <2>1. After(i) = L + 1 \/ After(i) \in Headers
      BY DEF Chained
    <2> QED  BY <1>1, <1>2, <2>1 DEF After, Headers
  <1> HIDE DEF L
  <1>4. k \in 1..L /\ Owns(i, k)
    BY <1>1, <1>2, <1>3 DEF Owns
  <1>5. UnitSound(i, k)
    BY <1>2, <1>4 DEF UnitsSound, L
  <1>6. os'[i] = os[i] /\ os'[k] = os[k]
        /\ \A l \in (i + 1)..(k - 1) : os'[l] = os[l]
    BY <1>1, <1>2, <1>4
  <1>7. {os'[l].src : l \in {l \in (i + 1)..(k - 1) : os'[l].unit = os'[k].unit}}
          = {os[l].src : l \in {l \in (i + 1)..(k - 1) : os[l].unit = os[k].unit}}
    BY <1>6
  <1> QED  BY <1>1, <1>5, <1>6, <1>7 DEF UnitSound

(* The rows before one of those read are the earlier ones with its ID.     *)
LEMMA EarlierRows ==
  ASSUME NEW S \in SUBSET Nat, NEW s \in Seq(S), Increasing(s),
         NEW hits \in SUBSET Nat, \A a \in 1..Len(s) : s[a] \in hits,
         NoGaps(s, hits), NEW a \in 1..Len(s)
  PROVE  /\ \A b \in 1..(a - 1) : s[b] \in hits /\ s[b] < s[a]
         /\ \A r \in hits : r < s[a] => \E b \in 1..(a - 1) : s[b] = r
  <1>1. ASSUME NEW b \in 1..(a - 1)
        PROVE  s[b] \in hits /\ s[b] < s[a]
    <2>1. b \in 1..Len(s) /\ b < a
      OBVIOUS
    <2> QED  BY <2>1 DEF Increasing
  <1>2. ASSUME NEW r \in hits, r < s[a]
        PROVE  \E b \in 1..(a - 1) : s[b] = r
    BY <1>2 DEF NoGaps
  <1> QED  BY <1>1, <1>2

(* The rows a joined table was read for before row a are all its rows with *)
(* the ID that come before that one.                                       *)
LEMMA RowsReadBefore ==
  ASSUME TypeInv, NEW t \in Joined, ReadFor(t), found[t] \in Seq(Rows(db, t)),
         NEW a \in 1..Len(found[t])
  PROVE  {found[t][b] : b \in 1..(a - 1)}
           = {x \in Hits(db, t, Key(t)) : x < found[t][a]}
  <1> DEFINE q == found[t]
             H == Hits(db, t, Key(t))
             R == Rows(db, t)
  <1>1. /\ R \in SUBSET Nat /\ H \in SUBSET Nat
    BY RowsAreNumbers, HitsAreNumbers DEF TypeInv, TypeOK, Tables
  <1>2. /\ q \in Seq(R) /\ Increasing(q) /\ NoGaps(q, H) /\ a \in 1..Len(q)
        /\ \A b \in 1..Len(q) : q[b] \in H
    BY <1>1 DEF ReadFor
  <1> HIDE DEF q, H, R
  <1>3. /\ \A b \in 1..(a - 1) : q[b] \in H /\ q[b] < q[a]
        /\ \A x \in H : x < q[a] => \E b \in 1..(a - 1) : q[b] = x
    BY <1>1, <1>2, EarlierRows
  <1>4. {q[b] : b \in 1..(a - 1)} = {x \in H : x < q[a]}
    BY <1>3
  <1> QED  BY <1>4 DEF q, H

(* The units of the record added are the rows read for it.                 *)
LEMMA NewUnits ==
  ASSUME TypeInv, RowsRead, WriteRecord, NEW r, Written(r),
         NEW i, i = Len(os) + 1, NEW k \in (i + 1)..Len(os')
  PROVE  UnitSound(i, k)'
  <1> DEFINE L == Len(os)
             row == db["C"][c.pos]
             e == r[1].eta
             p == r[1].ptn
             u == os'[k].unit
             before == {os'[l].src :
                          l \in {l \in (i + 1)..(k - 1) : os'[l].unit = u}}
  <1>1. /\ L \in Nat /\ Len(r) \in Nat \ {0} /\ Len(os') = L + Len(r)
        /\ os'[i].src = c.pos /\ i = L + 1
        /\ \A m \in 1..(Len(r) - 1) : /\ os'[i + m] = r[1 + m]
                                     /\ os'[i + m].unit = Expected(r[1], m)
                                     /\ ComesFrom(found, r, m)
        /\ db' = db
    <2>1. \A m \in 1..(Len(r) - 1) : os'[L + (1 + m)] = r[1 + m]
      BY DEF Written
    <2>2. \A m \in 1..(Len(r) - 1) : L + (1 + m) = i + m
      BY DEF TypeInv, TypeOK
    <2> QED  BY <2>1, <2>2 DEF Written, TypeInv, TypeOK, WriteRecord
  <1>2. \A t \in Joined : ReadFor(t) /\ found[t] \in Seq(Rows(db, t))
    BY DEF RowsRead, WriteRecord, TypeInv, TypeOK
  <1>3. e \in 0..1 /\ p \in 0..1
    <2>1. r[1] \in Unit /\ r[1].unit = "record"
      BY DEF Written
    <2> QED  BY <2>1 DEF Unit
  <1>4. PICK m \in 1..(Len(r) - 1) : k = i + m
    <2>1. k - i \in 1..(Len(r) - 1) /\ k = i + (k - i)
      BY <1>1
    <2> QED  BY <2>1
  <1>5. \A l \in (i + 1)..(k - 1) :
          l - i \in 1..(Len(r) - 1) /\ l - i < m /\ l = i + (l - i)
    BY <1>1, <1>4
  (* What is left to show for a unit made of row a of its table's.         *)
  <1>6. ASSUME NEW t \in Joined, TableOf[u] = t, IdFor(row, u) = Key(t),
               NEW a \in 1..Len(found[t]), os'[k].src = found[t][a],
               before = {found[t][b] : b \in 1..(a - 1)}
        PROVE  UnitSound(i, k)'
    <2>1. found[t] # <<>>
      <3>1. Len(<<>>) = 0
        OBVIOUS
      <3> QED  BY <3>1
    <2>2. /\ Key(t) # NoId /\ os'[k].src \in Hits(db, t, Key(t))
      BY <1>2, <1>6, <2>1 DEF ReadFor
    <2>3. {found[t][b] : b \in 1..(a - 1)}
            = {x \in Hits(db, t, Key(t)) : x < found[t][a]}
      BY <1>2, RowsReadBefore
    <2> HIDE DEF before
    <2>4. before = {x \in Hits(db, t, Key(t)) : x < os'[k].src}
      BY <1>6, <2>3
    <2> QED  BY <1>1, <1>6, <2>2, <2>4 DEF UnitSound, before, row, u
  <1> HIDE DEF row, L, e, p
  <1>7. \A t \in Joined : found[t] # <<>> => 1 \in 1..Len(found[t])
    BY <1>2
  <1>8. /\ IdFor(row, "cr") = Key("CR") /\ IdFor(row, "eta") = Key("Toll_ETA")
        /\ IdFor(row, "ptn") = Key("Toll_Pattern")
        /\ TableOf["cr"] = "CR" /\ TableOf["eta"] = "Toll_ETA"
        /\ TableOf["ptn"] = "Toll_Pattern"
    BY DEF Key, row, IdFor, TableOf
  <1>9. u = Expected(r[1], m) /\ os'[k] = r[1 + m] /\ ComesFrom(found, r, m)
    BY <1>1, <1>4
  <1>10. ASSUME before = {}, NEW t \in Joined, found[t] # <<>>,
                TableOf[u] = t, IdFor(row, u) = Key(t),
                os'[k].src = found[t][1]
         PROVE  UnitSound(i, k)'
    <2>1. {found[t][b] : b \in 1..(1 - 1)} = {}
      OBVIOUS
    <2>2. before = {found[t][b] : b \in 1..(1 - 1)}
      BY <1>10, <2>1
    <2> HIDE DEF before, u
    <2> QED  BY <1>6, <1>7, <1>10, <2>2
  <1>11. CASE m <= e
    <2>1. m = 1 /\ u = "eta"
      BY <1>3, <1>9, <1>11 DEF Expected, e
    <2>2. \A l \in (i + 1)..(k - 1) : FALSE
      BY <1>5, <2>1
    <2>3. before = {}
      BY <2>2
    <2>4. found["Toll_ETA"] # <<>> /\ os'[k].src = found["Toll_ETA"][1]
      BY <1>9, <2>1 DEF ComesFrom
    <2> HIDE DEF before
    <2> QED  BY <1>8, <1>10, <2>1, <2>3, <2>4 DEF Joined
  <1>12. CASE ~ (m <= e) /\ m <= e + p
    <2>1. u = "ptn"
      BY <1>9, <1>12 DEF Expected, e, p
    <2>2. \A l \in (i + 1)..(k - 1) : os'[l].unit = "eta"
      <3> TAKE l \in (i + 1)..(k - 1)
      <3>1. l - i <= e
        BY <1>3, <1>5, <1>12
      <3>2. os'[i + (l - i)].unit = Expected(r[1], l - i)
        BY <1>1, <1>5
      <3> QED  BY <1>5, <3>1, <3>2 DEF Expected, e
    <2>3. before = {}
      BY <2>1, <2>2
    <2>4. found["Toll_Pattern"] # <<>> /\ os'[k].src = found["Toll_Pattern"][1]
      BY <1>9, <2>1 DEF ComesFrom
    <2> HIDE DEF before
    <2> QED  BY <1>8, <1>10, <2>1, <2>3, <2>4 DEF Joined
  <1>13. CASE m > e + p
    <2> DEFINE cr == found["CR"]
               a  == m - e - p
    <2>1. u = "cr"
      BY <1>3, <1>9, <1>13 DEF Expected, e, p
    <2>2. ASSUME NEW j \in 1..(Len(r) - 1), os'[i + j].unit = "cr"
          PROVE  j - e - p \in 1..Len(cr) /\ os'[i + j].src = cr[j - e - p]
      BY <1>1, <2>2 DEF ComesFrom, e, p
    <2>3. a \in 1..Len(cr) /\ os'[k].src = cr[a]
      BY <1>4, <2>1, <2>2
    <2>4. ASSUME NEW l \in (i + 1)..(k - 1), os'[l].unit = "cr"
          PROVE  \E b \in 1..(a - 1) : os'[l].src = cr[b]
      <3>1. /\ (l - i) - e - p \in 1..Len(cr)
            /\ os'[l].src = cr[(l - i) - e - p]
        BY <1>5, <2>2, <2>4
      <3>2. (l - i) - e - p \in 1..(a - 1)
        BY <1>1, <1>3, <1>5, <3>1
      <3> QED  BY <3>1, <3>2
    <2>5. ASSUME NEW b \in 1..(a - 1)
          PROVE  \E l \in (i + 1)..(k - 1) :
                   os'[l].unit = "cr" /\ os'[l].src = cr[b]
      <3> DEFINE j == b + e + p
      <3>1. /\ j \in 1..(Len(r) - 1) /\ j < m /\ j - e - p = b
            /\ ~ (j <= e) /\ ~ (j <= e + p) /\ i + j \in (i + 1)..(k - 1)
        BY <1>1, <1>3, <1>4
      <3> HIDE DEF j
      <3>2. os'[i + j].unit = "cr"
        BY <1>1, <3>1 DEF Expected, e, p
      <3>3. os'[i + j].src = cr[b]
        BY <2>2, <3>1, <3>2
      <3> QED  BY <3>1, <3>2, <3>3
    <2>6. before = {cr[b] : b \in 1..(a - 1)}
      <3>1. before = {os'[l].src :
                        l \in {l \in (i + 1)..(k - 1) : os'[l].unit = "cr"}}
        BY <2>1
      <3> DEFINE N == a - 1
                 K == k - 1
      <3>2. /\ \A l \in (i + 1)..K : os'[l].unit = "cr" =>
                 \E b \in 1..N : os'[l].src = cr[b]
            /\ \A b \in 1..N : \E l \in (i + 1)..K :
                 os'[l].unit = "cr" /\ os'[l].src = cr[b]
        BY <2>4, <2>5
      <3> HIDE DEF a, cr, before, N, K
      <3>3. {os'[l].src : l \in {l \in (i + 1)..K : os'[l].unit = "cr"}}
              = {cr[b] : b \in 1..N}
        <4> DEFINE P == {l \in (i + 1)..K : os'[l].unit = "cr"}
                   A == {os'[l].src : l \in P}
                   B == {cr[b] : b \in 1..N}
        <4>1. ASSUME NEW l \in P PROVE os'[l].src \in B
          BY <3>2
        <4>2. ASSUME NEW b \in 1..N PROVE cr[b] \in A
          <5>1. PICK l \in (i + 1)..K : os'[l].unit = "cr" /\ os'[l].src = cr[b]
            BY <3>2
          <5>2. l \in P
            BY <5>1
          <5> HIDE DEF P
          <5> QED  BY <5>1, <5>2
        <4>3. \A x \in A : x \in B
          <5> HIDE DEF P, B
          <5> QED  BY <4>1
        <4>4. \A x \in B : x \in A
          <5> HIDE DEF A
          <5> QED  BY <4>2
        <4>5. A = B
          <5> HIDE DEF A, B
          <5>1. \A x : x \in A <=> x \in B
            BY <4>3, <4>4
          <5> QED  BY <5>1
        <4> QED  BY <4>5
      <3> QED  BY <3>1, <3>3 DEF N, K
    <2> HIDE DEF before, a
    <2> QED  BY <1>6, <1>8, <2>1, <2>3, <2>6 DEF Joined
  <1> QED  BY <1>3, <1>11, <1>12, <1>13

LEMMA JoinStep == JoinInv /\ [Next]_vars => JoinInv'
  <1> SUFFICES ASSUME JoinInv, [Next]_vars PROVE JoinInv'
    OBVIOUS
  <1>1. /\ TypeInv /\ TypeOK /\ Chained /\ FrameInv /\ FrameInv' /\ Chained' /\ TypeInv'
        /\ RowsRead /\ Scanning /\ RecordsOf /\ UnitsSound
    BY FrameStep DEF JoinInv, FrameInv, TypeInv
  <1>2. RowsRead' /\ Scanning' /\ RecordsOf'
    BY <1>1, ReadStep, RecordsStep
  <1>3. CASE WriteRecord
    <2>1. PICK r : Written(r)
      BY <1>1, <1>3, WrittenRecord
    <2>2. Headers' = Headers \cup {Len(os) + 1}
      BY <1>1, <1>3, FrameWrite
    <2>3. ASSUME NEW i \in 1..Len(os'), NEW k \in 1..Len(os'), Owns(i, k)'
          PROVE  UnitSound(i, k)'
      <3>1. i \in Headers' /\ k \in (i + 1)..(After(i)' - 1)
        BY <2>3 DEF Owns
      <3>2. CASE i \in Headers
        BY <1>1, <1>3, <2>1, <3>1, <3>2, OldUnits
      <3>3. CASE i = Len(os) + 1
        <4>1. k \in (i + 1)..Len(os')
          BY <3>1
        <4> QED  BY <1>1, <1>3, <2>1, <3>3, <4>1, NewUnits
      <3> QED  BY <2>2, <3>1, <3>2, <3>3
    <2>4. UnitsSound'
      BY <2>3 DEF UnitsSound
    <2> QED  BY <1>1, <1>2, <2>4 DEF JoinInv
  <1>4. CASE ~ WriteRecord
    <2>1. UNCHANGED <<os, db>>
      BY <1>4 DEF Next, OpenBin, PrepareC, StepC, SkipTable, Select, StepJoined,
                  Finish, SaveBin, Stopped, vars
    <2>3. ASSUME NEW i, NEW k
          PROVE  UnitSound(i, k)' <=> UnitSound(i, k)
      BY <2>1 DEF UnitSound
    <2>2. UnitsSound'
      BY <1>1, <2>1, <2>3 DEF UnitsSound, Owns, Headers, After
    <2> QED  BY <1>1, <1>2, <2>2 DEF JoinInv
  <1> QED  BY <1>3, <1>4

LEMMA JoinInit == Init => JoinInv
  <1> SUFFICES ASSUME Init PROVE JoinInv
    OBVIOUS
  <1>1. os = <<>> /\ pc = "open" /\ Headers = {}
    BY DEF Init, Headers
  <1> QED  BY <1>1, FrameInit
           DEF JoinInv, RowsRead, Scanning, RecordsOf, UnitsSound, Owns

LEMMA JoinGood == JoinInv => JoinSound
  BY DEF JoinInv, RecordsOf, UnitsSound, UnitSound, JoinSound

(***************************************************************************)
(* For every database and whichever steps fail: the records are those of   *)
(* rows of C in table order, and the units of each kind in a record come   *)
(* from the first rows with the ID of its row, one after the other and     *)
(* none left out in between, never from one found for an earlier row.      *)
(***************************************************************************)
THEOREM JoinIsSound == Spec => []JoinSound
  BY JoinInit, JoinStep, JoinGood, PTL DEF Spec

-----------------------------------------------------------------------------
(* The file *)

(* The file is empty from its opening to its writing.                      *)
FileInv ==
  /\ pc \notin {"open", "end"} => file = <<>>
  /\ ok => pc = "end" /\ \E n \in 0..Len(bin) : file = SubSeq(bin, 1, n)

LEMMA FileInit == Init => FileInv
  BY DEF Init, FileInv

LEMMA FileStep == TypeInv /\ FileInv /\ [Next]_vars => FileInv'
  <1> SUFFICES ASSUME TypeInv, FileInv, [Next]_vars PROVE FileInv'
    OBVIOUS
  <1>1. CASE SaveBin
    BY <1>1 DEF SaveBin, FileInv
  <1>2. CASE SkipTable \/ Select \/ StepJoined
    <2>1. UNCHANGED <<bin, file, ok>> /\ pc \in {"select", "scan"}
      BY <1>2 DEF SkipTable, Select, StepJoined
    <2> QED  BY <2>1 DEF FileInv
  <1>3. CASE OpenBin \/ PrepareC \/ StepC \/ WriteRecord \/ Finish
    BY <1>3 DEF OpenBin, PrepareC, StepC, WriteRecord, Finish, FileInv
  <1>4. CASE Stopped \/ UNCHANGED vars
    BY <1>4 DEF Stopped, vars, FileInv
  <1> QED  BY <1>1, <1>2, <1>3, <1>4 DEF Next

LEMMA FileGood == FrameInv /\ FileInv => CutShows
  <1> SUFFICES ASSUME FrameInv, FileInv, ok PROVE CutShows
    BY DEF FileInv, CutShows
  <1>1. PICK n \in 0..Len(bin) : file = SubSeq(bin, 1, n)
    BY DEF FileInv
  <1>2. CASE bin = <<>>
    <2>1. n = 0
      BY <1>1, <1>2
    <2> QED  BY <1>1, <1>2, <2>1 DEF CutShows
  <1>3. CASE bin # <<>>
    <2> DEFINE h == FileHeader(rownum, Len(os))
    <2>1. bin = <<h>> \o os /\ os \in Seq(Unit) /\ Len(os) \in Nat
      BY <1>3 DEF FrameInv, Counted, TypeInv, TypeOK
    <2>2. h.unit = "file" /\ h.datsiz = Len(os)
      BY DEF FileHeader
    <2> HIDE DEF h
    <2>3. \E S : os \in Seq(S) /\ <<h>> \in Seq(S)
      <3>1. os \in Seq(Unit \cup {h}) /\ <<h>> \in Seq(Unit \cup {h})
        BY <2>1
      <3> QED  BY <3>1
    <2>4. Len(bin) = 1 + Len(os) /\ bin[1] = h /\ \E S : bin \in Seq(S)
      BY <2>1, <2>3
    <2>5. CASE n = 0
      BY <1>1, <2>5 DEF CutShows
    <2>6. CASE n = Len(bin)
      BY <1>1, <2>4, <2>6 DEF CutShows
    <2>7. CASE n \in 1..(Len(bin) - 1)
      <3>1. Len(file) = n /\ file[1] = h
        BY <1>1, <2>4, <2>7
      <3>2. file[1].unit = "file" /\ Len(file) < 1 + file[1].datsiz
        BY <2>1, <2>2, <2>4, <2>7, <3>1
      <3> QED  BY <3>2 DEF CutShows
    <2> QED  BY <2>4, <2>5, <2>6, <2>7
  <1> QED  BY <1>2, <1>3

(***************************************************************************)
(* For every database, every content of the file before and every point at *)
(* which the program ends or its writing stops short: what is left of a    *)
(* run is empty, complete, or shorter than its own header announces.       *)
(***************************************************************************)
THEOREM CutFilesShow == Spec => []CutShows
  <1>1. FrameInv => TypeInv
    BY DEF FrameInv
  <1> QED  BY FrameInit, FrameStep, FileInit, FileStep, FileGood, <1>1, PTL
           DEF Spec
=============================================================================
