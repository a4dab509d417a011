-------------------------- MODULE CondRefineProofs ----------------------------
(***************************************************************************)
(* The export of the combined database implements its promise: every       *)
(* behaviour of CondExport is one of CondStream (ImplementsPromise), on    *)
(* databases whose steps fail as well.  What the steps of the joins have   *)
(* read so far (AllRead) and which rows of C are done (Place) are added to *)
(* the invariant of CondExportProofs.                                      *)
(***************************************************************************)
EXTENDS CondRefine, CondExportProofs, FunctionTheorems

-----------------------------------------------------------------------------
(* The operators of the promise are those of the export *)

LEMMA SameFinite == \A S : Promise!IsFiniteSet(S) <=> IsFiniteSet(S)
  BY DEF Promise!IsFiniteSet, IsFiniteSet

LEMMA SameCardinality == \A S : Promise!Cardinality(S) = Cardinality(S)
  BY SameFinite DEF Promise!Cardinality, Cardinality

LEMMA SameRows ==
  /\ \A d : Promise!IsDatabase(d) <=> IsDatabase(d)
  /\ \A d : Promise!Selected(d) = Selected(d)
  /\ \A d, t, k : Promise!Hits(d, t, k) = Hits(d, t, k)
  /\ \A d, t, k : Promise!Matches(d, t, k) = IF k = NoId THEN {} ELSE Hits(d, t, k)
  <1>1. \A d : Promise!IsDatabase(d) <=> IsDatabase(d)
    BY DEF Promise!IsDatabase, IsDatabase, Promise!Tables, Tables,
           Promise!Joined, Joined, Promise!CRow, CRow, Promise!EtaRow, EtaRow,
           Promise!JoinRow, JoinRow, Promise!Id, Id
  <1>2. \A d : Promise!Selected(d) = Selected(d)
    BY DEF Promise!Selected, Selected
  <1>3. \A d, t, k : Promise!Hits(d, t, k) = Hits(d, t, k)
    BY DEF Promise!Hits, Hits
  <1> QED  BY <1>1, <1>2, <1>3 DEF Promise!Matches

LEMMA SameUnits ==
  /\ \A i, n, e, p : Promise!HeaderUnit(i, n, e, p) = HeaderUnit(i, n, e, p)
  /\ \A i, n, g : Promise!EtaUnit(i, n, g) = EtaUnit(i, n, g)
  /\ \A i : Promise!PatternUnit(i) = PatternUnit(i)
  /\ \A i : Promise!CRUnit(i) = CRUnit(i)
  /\ \A n, z : Promise!FileHeader(n, z) = FileHeader(n, z)
  /\ \A r : Promise!Lanes(r) = Lanes(r)
  BY DEF Promise!HeaderUnit, HeaderUnit, Promise!EtaUnit, EtaUnit,
         Promise!PatternUnit, PatternUnit, Promise!CRUnit, CRUnit,
         Promise!FileHeader, FileHeader, Promise!Lanes, Lanes

-----------------------------------------------------------------------------
(* The smallest elements of a set, and a sequence that lists them *)

FirstOf(s, n) == {s[a] : a \in 1..n}
Among(s) == FirstOf(s, Len(s))

LEMMA ListedCount ==
  ASSUME NEW s \in Seq(Nat), Increasing(s), NEW n \in 0..Len(s)
  PROVE  /\ IsFiniteSet({s[a] : a \in 1..n})
         /\ Cardinality({s[a] : a \in 1..n}) = n
  <1> DEFINE f == [a \in 1..n |-> s[a]]
             T == {s[a] : a \in 1..n}
  <1>1. n \in Nat /\ \A a \in 1..n : a \in 1..Len(s) /\ s[a] \in Nat
    OBVIOUS
  <1>2. \A a, b \in 1..n : s[a] = s[b] => a = b
    BY <1>1 DEF Increasing
  <1>3. f \in [1..n -> T] /\ \A a \in 1..n : f[a] = s[a]
    OBVIOUS
  <1>4. \A y \in T : \E a \in 1..n : f[a] = y
    OBVIOUS
  <1> HIDE DEF f, T
  <1>5. f \in Bijection(1..n, T)
    BY <1>2, <1>3, <1>4, Fun_IsBij
  <1>6. ExistsBijection(1..n, T)
    BY <1>5 DEF ExistsBijection
  <1>7. IsFiniteSet(1..n) /\ Cardinality(1..n) = n
    BY <1>1, FS_Interval
  <1>8. IsFiniteSet(T) /\ Cardinality(T) = n
    BY <1>6, <1>7, FS_Bijection
  <1> QED  BY <1>8 DEF T

LEMMA BelowCount ==
  ASSUME NEW s \in Seq(Nat), Increasing(s), NEW n \in 0..Len(s),
         NEW a \in 1..n
  PROVE  Cardinality({j \in FirstOf(s, n) : j < s[a]}) = a - 1
  <1>1. \A b \in 1..n : b \in 1..Len(s) /\ s[b] \in Nat
    OBVIOUS
  <1>2. \A b \in 1..n : s[b] < s[a] <=> b < a
    BY <1>1 DEF Increasing
  <1>3. {j \in FirstOf(s, n) : j < s[a]} = {s[b] : b \in 1..(a - 1)}
    BY <1>2 DEF FirstOf
  <1>4. a - 1 \in 0..Len(s)
    OBVIOUS
  <1> QED  BY <1>3, <1>4, ListedCount

LEMMA LowestIs ==
  ASSUME NEW s \in Seq(Nat), Increasing(s), NEW n \in 0..Len(s),
         NEW k \in 1..n
  PROVE  Promise!Lowest(FirstOf(s, n), n)[k] = s[k]
  <1> DEFINE S == FirstOf(s, n)
             Below(i) == {j \in S : j < i}
  <1>1. \A a \in 1..n : Cardinality(Below(s[a])) = a - 1
    BY BelowCount
  <1>2. s[k] \in S /\ \A i \in S : \E a \in 1..n : i = s[a]
    BY DEF FirstOf
  <1> HIDE DEF S, Below
  <1>3. \A i \in S : Cardinality(Below(i)) = k - 1 => i = s[k]
    <2> SUFFICES ASSUME NEW a \in 1..n, Cardinality(Below(s[a])) = k - 1
                 PROVE  a = k
      BY <1>2
    <2>1. a - 1 = k - 1
      BY <1>1
    <2> QED  BY <2>1
  <1>4. Cardinality(Below(s[k])) = k - 1
    BY <1>1
  <1>5. (CHOOSE i \in S : Cardinality(Below(i)) = k - 1) = s[k]
    BY <1>2, <1>3, <1>4
  <1>6. \A T : Promise!Lowest(T, n)[k] =
               CHOOSE i \in T : Cardinality({j \in T : j < i}) = k - 1
    BY SameCardinality DEF Promise!Lowest
  <1> QED  BY <1>5, <1>6 DEF S, Below

(* Those of a list with fewer than 15 before them are its first 15.        *)
LEMMA KeptIs ==
  ASSUME NEW s \in Seq(Nat), Increasing(s)
  PROVE  {r \in Among(s) : Cardinality({j \in Among(s) : j < r}) < 15}
           = FirstOf(s, CountCR(Len(s)))
  <1> DEFINE S == Among(s)
             C(r) == Cardinality({j \in S : j < r})
             n == CountCR(Len(s))
  <1>1. Len(s) \in Nat /\ Len(s) \in 0..Len(s)
    OBVIOUS
  <1>2. \A a \in 1..Len(s) : C(s[a]) = a - 1
    BY <1>1, BelowCount DEF Among
  <1>3. \A a \in 1..Len(s) : a - 1 < 15 <=> a \in 1..n
    BY <1>1 DEF CountCR
  <1>4. \A a \in 1..n : a \in 1..Len(s)
    BY <1>1 DEF CountCR
  <1>5. S = {s[a] : a \in 1..Len(s)}
    BY DEF Among, FirstOf
  <1> HIDE DEF S, C, n
  <1>6. {r \in S : C(r) < 15} = {s[a] : a \in 1..n}
    BY <1>2, <1>3, <1>4, <1>5
  <1> QED  BY <1>6 DEF FirstOf, S, C, n

-----------------------------------------------------------------------------
(* A record made of the rows read for its IDs is one promised *)

(* The ID of row i of C that table t is searched for, and what it finds.   *)
IdOf(d, i, t) == IF t = "CR" THEN d["C"][i].crid ELSE d["C"][i].cond

Wanted(d, i, t) == IF IdOf(d, i, t) = NoId THEN {} ELSE Hits(d, t, IdOf(d, i, t))

(* What may be read of them.                                               *)
Readable(d, i, t) ==
  IF d \in Faulty
  THEN {{j \in Wanted(d, i, t) : j <= x} : x \in Wanted(d, i, t) \cup {0}}
  ELSE {Wanted(d, i, t)}

ReadRows(d, i, rows) ==
  /\ DOMAIN rows = Joined
  /\ \A t \in Joined :
       /\ rows[t] \in Seq(Rows(d, t)) /\ Increasing(rows[t])
       /\ Among(rows[t]) \in Readable(d, i, t)

(* All the elements, if there is one only.                                 *)
LEMMA OnlyOne ==
  ASSUME NEW s \in Seq(Nat), Increasing(s)
  PROVE  /\ IsFiniteSet(Among(s)) /\ Cardinality(Among(s)) = Len(s)
         /\ Len(s) = 1 => Among(s) = {s[1]}
  <1>1. IsFiniteSet(Among(s)) /\ Cardinality(Among(s)) = Len(s)
    <2>1. Len(s) \in 0..Len(s)
      OBVIOUS
    <2>2. /\ IsFiniteSet({s[a] : a \in 1..Len(s)})
          /\ Cardinality({s[a] : a \in 1..Len(s)}) = Len(s)
      BY <2>1, ListedCount
    <2> QED  BY <2>2 DEF Among, FirstOf
  <1>2. Len(s) = 1 => Among(s) = {s[1]}
    BY DEF Among, FirstOf
  <1> QED  BY <1>1, <1>2

(* A list of lanes fits when there are 8 at the most, and its length is    *)
(* kept as it is then.                                                     *)
LEMMA LanesKept ==
  ASSUME NEW r \in EtaRow
  PROVE  /\ LanesFit(r) <=> Lanes(r) <= 8
         /\ LanesFit(r) => LaneNum(Lanes(r)) = IF Lanes(r) = 0 THEN Leftover
                                                ELSE {Lanes(r)}
  <1>1. Lanes(r) \in Nat
    BY DEF Lanes, EtaRow
  <1>2. LanesFit(r) <=> ((Lanes(r) + 7) \div 8) * 8 <= 15
    BY DEF LanesFit, Padded
  <1> HIDE DEF Lanes
  <1>3. ((Lanes(r) + 7) \div 8) * 8 <= 15 <=> Lanes(r) <= 8
    BY <1>1
  <1>4. Lanes(r) <= 8 => Lanes(r) % 16 = Lanes(r)
    BY <1>1
  <1> QED  BY <1>2, <1>3, <1>4 DEF LaneNum

LEMMA RecordPromised ==
  ASSUME IsDatabase(db), NEW i, NEW rows, ReadRows(db, i, rows),
         NEW g \in LaneNums(db, rows), NEW b, MadeOf(db, i, rows, g, b)
  PROVE  Promise!IsRecord(b, db, i)
  <1> DEFINE er  == rows["Toll_ETA"]
             pr  == rows["Toll_Pattern"]
             cr  == rows["CR"]
             lanes(r) == Lanes(db["Toll_ETA"][r])
             eta == Len(er) = 1 /\ LanesFit(db["Toll_ETA"][er[1]])
             ptn == Len(pr) = 1
             n   == CountCR(Len(cr))
             e   == IF eta THEN 1 ELSE 0
             p   == IF ptn THEN 1 ELSE 0
             Lot(r) == IF lanes(r) = 0 THEN Leftover ELSE {lanes(r)}
  <1>1. ASSUME NEW t \in Joined
        PROVE  /\ rows[t] \in Seq(Nat) /\ Increasing(rows[t])
               /\ Cardinality(Among(rows[t])) = Len(rows[t])
               /\ Len(rows[t]) = 1 => Among(rows[t]) = {rows[t][1]}
               /\ Among(rows[t]) \in Readable(db, i, t)
    <2>1. Rows(db, t) \subseteq Nat
      BY RowsAreNumbers DEF Tables
    <2>2. /\ rows[t] \in Seq(Nat) /\ Increasing(rows[t])
          /\ Among(rows[t]) \in Readable(db, i, t)
      BY <2>1 DEF ReadRows
    <2> QED  BY <2>2, OnlyOne
  <1>2. n \in 0..Len(cr) /\ cr \in Seq(Nat) /\ Increasing(cr)
    <2>1. cr \in Seq(Nat) /\ Increasing(cr)
      BY <1>1 DEF Joined
    <2>2. Len(cr) \in Nat
      BY <2>1
    <2>3. n \in 0..15 /\ n <= Len(cr)
      BY <2>2, CountType
    <2> HIDE DEF n, cr
    <2> QED  BY <2>1, <2>2, <2>3
  <1>3. /\ {r \in Among(cr) : Cardinality({j \in Among(cr) : j < r}) < 15}
             = FirstOf(cr, n)
        /\ Cardinality(FirstOf(cr, n)) = n
        /\ \A k \in 1..n : Promise!Lowest(FirstOf(cr, n), n)[k] = cr[k]
    <2>1. Cardinality(FirstOf(cr, n)) = n
      BY <1>2, ListedCount DEF FirstOf
    <2>2. \A k \in 1..n : Promise!Lowest(FirstOf(cr, n), n)[k] = cr[k]
      <3> HIDE DEF cr, n
      <3> QED  BY <1>2, LowestIs
    <2> QED  BY <1>2, <2>1, <2>2, KeptIs
  <1>4. eta => lanes(er[1]) <= 8 /\ g \in Lot(er[1])
    <2> HAVE eta
    <2>1. er # <<>>
      BY NotEmpty
    <2>2. g \in LaneNum(Lanes(db["Toll_ETA"][er[1]]))
      BY <2>1 DEF LaneNums
    <2>3. er[1] \in Rows(db, "Toll_ETA")
      BY <2>1 DEF ReadRows, Joined
    <2>4. db["Toll_ETA"][er[1]] \in EtaRow
      BY <2>3, RowsOfDatabase DEF Rows
    <2> QED  BY <2>2, <2>4, LanesKept
  <1>5. Len(er) = 1 /\ lanes(er[1]) <= 8 => eta
    <2> HAVE Len(er) = 1 /\ lanes(er[1]) <= 8
    <2>1. er # <<>>
      BY NotEmpty
    <2>2. er[1] \in Rows(db, "Toll_ETA")
      BY <2>1 DEF ReadRows, Joined
    <2>3. db["Toll_ETA"][er[1]] \in EtaRow
      BY <2>2, RowsOfDatabase DEF Rows
    <2> QED  BY <2>3, LanesKept
  <1>6. /\ Len(b) = 1 + e + p + n
        /\ b[1] = HeaderUnit(i, n, e, p)
        /\ eta => b[2] = EtaUnit(er[1], lanes(er[1]), g)
        /\ ptn => b[2 + e] = PatternUnit(pr[1])
        /\ \A k \in 1..n : b[1 + e + p + k] = CRUnit(cr[k])
    BY DEF MadeOf
  <1> DEFINE one(S) == {r \in S : Cardinality(S) = 1}
             etas == {r \in one(Among(er)) : lanes(r) <= 8}
             ptns == one(Among(pr))
  <1>7. /\ Cardinality(Among(er)) = Len(er)
        /\ Len(er) = 1 => Among(er) = {er[1]}
        /\ Cardinality(Among(pr)) = Len(pr)
        /\ Len(pr) = 1 => Among(pr) = {pr[1]}
    BY <1>1 DEF Joined
  <1>8. etas = IF eta THEN {er[1]} ELSE {}
    <2> HIDE DEF lanes, er
    <2> QED  BY <1>4, <1>5, <1>7
  <1>9. ptns = IF ptn THEN {pr[1]} ELSE {}
    BY <1>7
  <1>10. Cardinality(etas) = e /\ Cardinality(ptns) = p
    <2>1. Cardinality({}) = 0 /\ \A x : Cardinality({x}) = 1
      BY FS_EmptySet, FS_Singleton
    <2> HIDE DEF etas, ptns, eta, ptn
    <2> QED  BY <1>8, <1>9, <2>1
  <1> DEFINE Body(crs, es, ps) ==
        LET kept == {r \in crs : Promise!Cardinality({j \in crs : j < r}) < 15}
            Eta  == {r \in Promise!TheOnly(es) :
                       Promise!Lanes(db["Toll_ETA"][r]) <= 8}
            N    == Promise!Cardinality(kept)
            E    == Promise!Cardinality(Eta)
            P    == Promise!Cardinality(Promise!TheOnly(ps))
        IN  /\ Len(b) = 1 + E + P + N
            /\ b[1] = Promise!HeaderUnit(i, N, E, P)
            /\ \A r \in Eta :
                 \E l \in IF Promise!Lanes(db["Toll_ETA"][r]) = 0 THEN Leftover
                          ELSE {Promise!Lanes(db["Toll_ETA"][r])} :
                   b[2] = Promise!EtaUnit(r, Promise!Lanes(db["Toll_ETA"][r]), l)
            /\ \A r \in Promise!TheOnly(ps) : b[2 + E] = Promise!PatternUnit(r)
            /\ \A k \in 1..N :
                 b[1 + E + P + k] = Promise!CRUnit(Promise!Lowest(kept, N)[k])
  <1>11. Promise!IsRecord(b, db, i) <=>
           \E crs \in Promise!Reads(db, "CR", db["C"][i].crid) :
           \E es \in Promise!Reads(db, "Toll_ETA", db["C"][i].cond) :
           \E ps \in Promise!Reads(db, "Toll_Pattern", db["C"][i].cond) :
             Body(crs, es, ps)
    BY DEF Promise!IsRecord
  <1>12. Body(Among(cr), Among(er), Among(pr))
    <2> DEFINE kept0 == {r \in Among(cr) :
                           Promise!Cardinality({j \in Among(cr) : j < r}) < 15}
               eta0  == {r \in Promise!TheOnly(Among(er)) :
                           Promise!Lanes(db["Toll_ETA"][r]) <= 8}
               ptn0  == Promise!TheOnly(Among(pr))
    <2>1. kept0 = FirstOf(cr, n)
      BY <1>3, SameCardinality
    <2>2. eta0 = etas /\ ptn0 = ptns
      BY SameCardinality, SameUnits DEF Promise!TheOnly
    <2>3. /\ Promise!Cardinality(kept0) = n /\ Promise!Cardinality(eta0) = e
          /\ Promise!Cardinality(ptn0) = p
      <3> HIDE DEF kept0, eta0, ptn0, etas, ptns, n, e, p
      <3> QED  BY <1>3, <1>10, <2>1, <2>2, SameCardinality
    <2>4. /\ \A r \in etas : eta /\ r = er[1]
          /\ \A r \in ptns : ptn /\ r = pr[1]
      BY <1>8, <1>9
    <2>5. \A r \in eta0 :
            \E l \in IF Promise!Lanes(db["Toll_ETA"][r]) = 0 THEN Leftover
                     ELSE {Promise!Lanes(db["Toll_ETA"][r])} :
              b[2] = Promise!EtaUnit(r, Promise!Lanes(db["Toll_ETA"][r]), l)
      <3>1. \A r \in etas : \E l \in Lot(r) : b[2] = EtaUnit(r, lanes(r), l)
        <4> HIDE DEF etas, eta, Lot, lanes
        <4> QED  BY <1>4, <1>6, <2>4
      <3> HIDE DEF eta0, etas
      <3> QED  BY <2>2, <3>1, SameUnits
    <2>6. \A r \in ptn0 : b[2 + e] = Promise!PatternUnit(r)
      <3> HIDE DEF ptn0, ptns, e, ptn
      <3> QED  BY <1>6, <2>2, <2>4, SameUnits
    <2>7. \A k \in 1..n : b[1 + e + p + k]
                            = Promise!CRUnit(Promise!Lowest(kept0, n)[k])
      <3> HIDE DEF kept0, n, e, p
      <3> QED  BY <1>3, <1>6, <2>1, SameUnits
    <2>8. Len(b) = 1 + e + p + n /\ b[1] = Promise!HeaderUnit(i, n, e, p)
      <3> HIDE DEF n, e, p
      <3> QED  BY <1>6, SameUnits
    <2>9. Body(Among(cr), Among(er), Among(pr)) <=>
            LET N == Promise!Cardinality(kept0)
                E == Promise!Cardinality(eta0)
                P == Promise!Cardinality(ptn0)
            IN  /\ Len(b) = 1 + E + P + N
                /\ b[1] = Promise!HeaderUnit(i, N, E, P)
                /\ \A r \in eta0 :
                     \E l \in IF Promise!Lanes(db["Toll_ETA"][r]) = 0
                              THEN Leftover
                              ELSE {Promise!Lanes(db["Toll_ETA"][r])} :
                       b[2] = Promise!EtaUnit(r,
                                Promise!Lanes(db["Toll_ETA"][r]), l)
                /\ \A r \in ptn0 : b[2 + E] = Promise!PatternUnit(r)
                /\ \A k \in 1..N : b[1 + E + P + k]
                                    = Promise!CRUnit(Promise!Lowest(kept0, N)[k])
      OBVIOUS
    <2> HIDE DEF kept0, eta0, ptn0, n, e, p, Body
    <2> QED  BY <2>3, <2>5, <2>6, <2>7, <2>8, <2>9
  <1>13. /\ Promise!Reads(db, "CR", db["C"][i].crid) = Readable(db, i, "CR")
         /\ Promise!Reads(db, "Toll_ETA", db["C"][i].cond)
              = Readable(db, i, "Toll_ETA")
         /\ Promise!Reads(db, "Toll_Pattern", db["C"][i].cond)
              = Readable(db, i, "Toll_Pattern")
    BY SameRows DEF Promise!Reads, Readable, Wanted, IdOf
  <1>14. /\ Among(cr) \in Readable(db, i, "CR")
         /\ Among(er) \in Readable(db, i, "Toll_ETA")
         /\ Among(pr) \in Readable(db, i, "Toll_Pattern")
    BY <1>1 DEF Joined
  <1> HIDE DEF Body
  <1> QED  BY <1>11, <1>12, <1>13, <1>14

-----------------------------------------------------------------------------
(* The joins find everything, and the rows of C are done one by one *)

Found(t) == db \notin Faulty => Among(found[t]) = Wanted(db, c.pos, t)

(* The tables done for the current row of C have been read to their end    *)
(* unless a step failed, the one being scanned up to the row its statement *)
(* is on.                                                                  *)
AllRead ==
  /\ pc \in {"select", "scan"} => \A t \in Joined \ Pending : Found(t)
  /\ pc = "write" => \A t \in Joined : Found(t)
  /\ pc = "scan" =>
       Among(found[tab]) = {i \in Wanted(db, c.pos, tab) : i <= sel[tab].pos}

Place ==
  /\ pc \in {"open", "prepare"} => c = Null
  /\ pc \in {"finish", "save"} => Todo = {} \/ db \in Faulty
  /\ rownum = Cardinality(Selected(db) \ Todo)
  /\ ok => pc = "end"

RefineInv == JoinInv /\ AllRead /\ Place

LEMMA KeyIs == \A t : Key(t) = IdOf(db, c.pos, t)
  BY DEF Key, IdOf

LEMMA NothingAmong ==
  ASSUME NEW s, s = <<>>
  PROVE  Among(s) = {}
  <1>1. Len(<<>>) = 0
    OBVIOUS
  <1> QED  BY <1>1 DEF Among, FirstOf

(* A step that does not fail misses no row.                                *)
LEMMA StepMissesNothing ==
  ASSUME NEW t, NEW s \in Statement(t), s.st # "done", NEW hits,
         NEW r \in StepRow(s, hits)
  PROVE  /\ r.st = "done" => r.pos = s.pos
         /\ r.st = "done" /\ db \notin Faulty => \A i \in hits : ~ (i > s.pos)
         /\ r.st = "row" => /\ r.pos \in hits /\ r.pos > s.pos
                            /\ \A i \in hits : i > s.pos => r.pos <= i
  <1>1. r.st = "row" => /\ r.pos \in hits /\ r.pos > s.pos
                        /\ \A i \in hits : i > s.pos => r.pos <= i
    BY StepForward
  <1>2. ASSUME r.st = "done"
        PROVE  /\ r.pos = s.pos
               /\ db \notin Faulty => \A i \in hits : ~ (i > s.pos)
    <2>1. /\ r = [s EXCEPT !.st = "done"]
          /\ db \in Faulty \/ {i \in hits : i > s.pos} = {}
      BY <1>2 DEF StepRow, Statement
    <2> QED  BY <2>1 DEF Statement
  <1> QED  BY <1>1, <1>2

(* The rows read are the first of those there are.                         *)
LEMMA FirstRead ==
  ASSUME TypeOK, NEW t \in Joined, ReadFor(t)
  PROVE  \E x \in Wanted(db, c.pos, t) \cup {0} :
           Among(found[t]) = {j \in Wanted(db, c.pos, t) : j <= x}
  <1> DEFINE q == found[t]
             W == Wanted(db, c.pos, t)
             H == Hits(db, t, Key(t))
             R == Rows(db, t)
             n == Len(q)
  <1>1. /\ R \in SUBSET Nat /\ q \in Seq(R) /\ n \in Nat
        /\ H \in SUBSET (Nat \ {0}) /\ W \in SUBSET H
    BY RowsAreNumbers, HitsAreNumbers, KeyIs DEF TypeOK, Tables, Wanted
  <1>2. /\ Increasing(q) /\ NoGaps(q, H) /\ \A a \in 1..n : q[a] \in H
        /\ q # <<>> => W = H
    BY KeyIs DEF ReadFor, Wanted
  <1> HIDE DEF q, W, H, R
  <1>3. CASE q = <<>>
    <2>1. \A j \in W : j \in Nat \ {0}
      BY <1>1
    <2>2. {j \in W : j <= 0} = {}
      BY <2>1
    <2> QED  BY <1>3, <2>2, NothingAmong DEF q, W
  <1>4. CASE q # <<>>
    <2>1. n \in 1..n /\ W = H
      BY <1>1, <1>2, <1>4
    <2>2. {q[b] : b \in 1..(n - 1)} = {x \in H : x < q[n]}
      <3>1. /\ \A b \in 1..(n - 1) : q[b] \in H /\ q[b] < q[n]
            /\ \A x \in H : x < q[n] => \E b \in 1..(n - 1) : q[b] = x
        BY <1>1, <1>2, <2>1, EarlierRows
      <3> QED  BY <3>1
    <2>3. Among(q) = {q[b] : b \in 1..(n - 1)} \cup {q[n]}
      <3>1. 1..n = 1..(n - 1) \cup {n}
        BY <2>1, <1>1
      <3> QED  BY <3>1 DEF Among, FirstOf
    <2>4. q[n] \in H /\ q[n] \in Nat
      BY <1>1, <1>2, <2>1
    <2>5. {x \in H : x < q[n]} \cup {q[n]} = {x \in H : x <= q[n]}
      <3>1. \A x \in H : x \in Nat
        BY <1>1
      <3> DEFINE y == q[n]
      <3> HIDE DEF y
      <3>2. \A x \in H : x <= y <=> x < y \/ x = y
        BY <2>4, <3>1 DEF y
      <3>3. y \in H
        BY <2>4 DEF y
      <3>4. {x \in H : x < y} \cup {y} = {x \in H : x <= y}
        BY <3>2, <3>3
      <3> QED  BY <3>4 DEF y
    <2> QED  BY <2>1, <2>2, <2>3, <2>4, <2>5 DEF q, W
  <1> QED  BY <1>3, <1>4

(* When a table has been read to its end the control goes on with that.    *)
LEMMA AdvanceAll ==
  ASSUME TypeInv, Advance, UNCHANGED <<db, c, found>>, Found(tab),
         \A t \in Joined \ Pending : Found(t)
  PROVE  AllRead'
  <1>1. \A t : Found(t)' <=> Found(t)
    BY DEF Found
  <1>2. tab \in Joined
    BY DEF TypeInv, TypeOK
  <1>3. CASE tab = "Toll_Pattern"
    <2>1. pc' = "write" /\ Pending = {tab}
      BY <1>3 DEF Advance, Pending
    <2> QED  BY <1>1, <2>1 DEF AllRead
  <1>4. CASE tab # "Toll_Pattern"
    <2>1. pc' = "select" /\ Pending' = Pending \ {tab}
      BY <1>2, <1>4 DEF Advance, Pending, Joined
    <2> QED  BY <1>1, <2>1 DEF AllRead
  <1> QED  BY <1>3, <1>4

LEMMA AllReadStep ==
  ASSUME JoinInv, AllRead, [Next]_vars
  PROVE  AllRead'
  <1>1. /\ TypeInv /\ TypeOK /\ Control /\ RowsRead /\ Scanning
        /\ tab \in Joined /\ tab \in Pending /\ Pending \subseteq Joined
    BY PendingType DEF JoinInv, FrameInv, TypeInv, TypeOK
  <1>2. CASE pc' \notin {"select", "scan", "write"}
    BY <1>2 DEF AllRead
  <1>3. CASE StepC /\ pc' = "select"
    <2>1. Pending' = Joined
      BY <1>3 DEF StepC, Pending
    <2> QED  BY <1>3, <2>1 DEF AllRead
  <1>4. CASE SkipTable
    <2>1. /\ UNCHANGED <<db, c, found>> /\ Advance /\ pc = "select"
          /\ Key(tab) = NoId
      BY <1>4 DEF SkipTable
    <2>2. found[tab] = <<>>
      BY <1>1, <2>1 DEF RowsRead
    <2>3. Found(tab)
      BY <2>1, <2>2, NothingAmong, KeyIs DEF Found, Wanted
    <2> QED  BY <1>1, <2>1, <2>3, AdvanceAll DEF AllRead
  <1>5. CASE Select
    <2>1. /\ UNCHANGED <<db, c, found>> /\ pc = "select" /\ Key(tab) # NoId
          /\ sel' = [sel EXCEPT ![tab] = Rebind(sel[tab], tab, Key(tab))]
          /\ found[tab] = <<>>
      BY <1>1, <1>5 DEF Select, RowsRead
    <2>2. sel'[tab] = Rebind(sel[tab], tab, Key(tab)) /\ sel[tab] \in Statement(tab)
      BY <1>1, <2>1 DEF TypeOK
    <2>3. Wanted(db, c.pos, tab) = Hits(db, tab, Key(tab))
      BY <2>1, KeyIs DEF Wanted
    <2>4. Among(found[tab]) = {}
      BY <2>1, NothingAmong
    <2>5. CASE sel'[tab].st = "null"
      <3>1. Advance
        BY <1>5, <2>5 DEF Select
      <3>2. Key(tab) \in Id
        <4>1. c.pos \in DOMAIN db["C"] /\ "C" \in DOMAIN db
          BY <1>1, <2>1 DEF Control, Selected
        <4>2. db["C"][c.pos] \in CRow
          BY <1>1, <4>1, RowsOfDatabase DEF TypeOK
        <4> QED  BY <4>2 DEF Key, CRow
      <3>3. tab \notin DOMAIN db
        BY <1>1, <2>2, <2>5, <3>2, RebindType
      <3>4. Found(tab)
        BY <2>3, <2>4, <3>3 DEF Found, Hits
      <3> QED  BY <1>1, <2>1, <3>1, <3>4, AdvanceAll DEF AllRead
    <2>6. CASE sel'[tab].st # "null"
      <3>1. pc' = "scan" /\ tab' = tab /\ Pending' = Pending
        BY <1>5, <2>6 DEF Select, Pending
      <3>2. sel'[tab].pos = 0
        BY <1>1, <2>2, <2>6, BoundBeforeFirst
      <3>3. Wanted(db, c.pos, tab) \subseteq Nat \ {0}
        BY <1>1, <2>3, HitsAreNumbers DEF Tables
      <3>4. {i \in Wanted(db, c.pos, tab) : i <= sel'[tab].pos} = {}
        BY <3>2, <3>3
      <3>5. \A t : Found(t)' <=> Found(t)
        BY <2>1 DEF Found
      <3> QED  BY <2>1, <2>4, <3>1, <3>4, <3>5 DEF AllRead
    <2> QED  BY <2>5, <2>6
  <1>6. CASE StepJoined
    <2> DEFINE W == Wanted(db, c.pos, tab)
    <2>1. PICK s \in StepRow(sel[tab], Hits(db, tab, sel[tab].key)) :
            /\ sel' = [sel EXCEPT ![tab] = s]
            /\ IF s.st = "done" THEN Advance /\ UNCHANGED found
               ELSE /\ found' = [found EXCEPT ![tab] = Append(@, s.pos)]
                    /\ pc' = IF db[tab][s.pos].bad THEN "abort" ELSE "scan"
                    /\ UNCHANGED tab
      BY <1>6 DEF StepJoined
    <2>2. /\ UNCHANGED <<db, c>> /\ pc = "scan" /\ Key(tab) # NoId
          /\ sel[tab].key = Key(tab) /\ sel[tab].st # "done"
          /\ sel[tab] \in Statement(tab)
          /\ Among(found[tab]) = {i \in W : i <= sel[tab].pos}
      BY <1>1, <1>6 DEF StepJoined, Scanning, AllRead, TypeOK
    <2>3. W = Hits(db, tab, sel[tab].key) /\ W \subseteq Nat \ {0}
      BY <1>1, <2>2, KeyIs, HitsAreNumbers DEF Wanted, Tables
    <2>4. sel[tab].pos \in Nat
      <3>1. {0} \cup Rows(db, tab) \subseteq Nat
        BY <1>1, RowsAreNumbers DEF TypeOK, Tables
      <3> QED  BY <2>2, <3>1 DEF Statement
    <2> HIDE DEF W
    <2>5. /\ s.st = "done" /\ db \notin Faulty => \A i \in W : ~ (i > sel[tab].pos)
          /\ s.st = "row" => /\ s.pos \in W /\ s.pos > sel[tab].pos
                             /\ \A i \in W : i > sel[tab].pos => s.pos <= i
      BY <2>1, <2>2, <2>3, StepMissesNothing
    <2>6. CASE s.st = "done"
      <3>1. db \notin Faulty => {i \in W : i <= sel[tab].pos} = W
        BY <2>3, <2>4, <2>5, <2>6
      <3>2. Found(tab)
        BY <2>2, <3>1 DEF Found, W
      <3> QED  BY <1>1, <2>1, <2>2, <2>6, <3>2, AdvanceAll DEF AllRead
    <2>7. CASE s.st = "row" /\ pc' = "scan"
      <3>1. /\ tab' = tab /\ Pending' = Pending
            /\ sel'[tab] = s
            /\ found'[tab] = Append(found[tab], s.pos)
            /\ \A t \in Joined \ {tab} : found'[t] = found[t]
        BY <1>1, <2>1, <2>7 DEF Pending, TypeOK
      <3>2. Among(Append(found[tab], s.pos)) = Among(found[tab]) \cup {s.pos}
        <4>1. \E S : found[tab] \in Seq(S)
          BY <1>1 DEF TypeOK
        <4>2. /\ Len(found[tab]) \in Nat
              /\ Len(Append(found[tab], s.pos)) = Len(found[tab]) + 1
              /\ Append(found[tab], s.pos)[Len(found[tab]) + 1] = s.pos
              /\ \A a \in 1..Len(found[tab]) :
                   Append(found[tab], s.pos)[a] = found[tab][a]
          BY <4>1, AppendType
        <4> QED  BY <4>2 DEF Among, FirstOf
      <3>3. {i \in W : i <= s.pos} = {i \in W : i <= sel[tab].pos} \cup {s.pos}
        BY <2>3, <2>4, <2>5, <2>7
      <3>4. Among(found'[tab]) = {i \in W : i <= sel'[tab].pos}
        BY <2>2, <3>1, <3>2, <3>3
      <3>5. W' = W
        BY <2>2, <3>1 DEF W
      <3>6. \A t \in Joined \ Pending : Found(t)' <=> Found(t)
        BY <1>1, <2>2, <3>1 DEF Found
      <3> QED  BY <2>2, <2>7, <3>1, <3>4, <3>5, <3>6 DEF AllRead, W
    <2>8. s.st \in {"row", "done"}
      <3>1. Hits(db, tab, sel[tab].key) \in SUBSET Rows(db, tab)
        BY <1>1, SelectedType
      <3> QED  BY <2>1, <2>2, <3>1, StepRowType
    <2> QED  BY <1>2, <2>1, <2>6, <2>7, <2>8
  <1>7. CASE Stopped \/ UNCHANGED vars
    <2>1. \A t : Found(t)' <=> Found(t)
      BY <1>7 DEF Stopped, vars, Found
    <2>2. /\ pc' = pc /\ tab' = tab /\ found' = found /\ db' = db /\ c' = c
          /\ sel' = sel /\ Pending' = Pending
      BY <1>7 DEF Stopped, vars, Pending
    <2> QED  BY <2>1, <2>2 DEF AllRead
  <1>8. CASE OpenBin \/ PrepareC \/ WriteRecord \/ Finish \/ SaveBin
    BY <1>2, <1>8 DEF OpenBin, PrepareC, WriteRecord, Finish, SaveBin
  <1>9. CASE StepC /\ pc' # "select"
    BY <1>2, <1>9 DEF StepC
  <1> QED  BY <1>3, <1>4, <1>5, <1>6, <1>7, <1>8, <1>9 DEF Next

LEMMA Positions ==
  ASSUME TypeOK
  PROVE  /\ Selected(db) \subseteq Nat \ {0}
         /\ Todo \subseteq Selected(db)
         /\ c.pos \in Nat
         /\ IsFiniteSet(Selected(db))
  <1>1. Selected(db) \subseteq Nat \ {0}
    BY HitsAreNumbers DEF Tables
  <1>2. Todo \subseteq Selected(db)
    BY DEF Todo
  <1>3. c.pos \in Nat
    <2>1. {0} \cup Rows(db, "C") \subseteq Nat
      BY RowsAreNumbers DEF TypeOK, Tables
    <2> QED  BY <2>1 DEF TypeOK, Statement
  <1>4. IsFiniteSet(Selected(db))
    <2>1. CASE "C" \in DOMAIN db
      <3>1. db["C"] \in Seq(CRow)
        BY <2>1, RowsOfDatabase DEF TypeOK
      <3>2. IsFiniteSet(1..Len(db["C"])) /\ Selected(db) \subseteq 1..Len(db["C"])
        BY <2>1, <3>1, FS_Interval DEF Selected
      <3> QED  BY <3>2, FS_Subset
    <2>2. CASE "C" \notin DOMAIN db
      BY <2>2, FS_EmptySet DEF Selected
    <2> QED  BY <2>1, <2>2
  <1> QED  BY <1>1, <1>2, <1>3, <1>4

(* The rows of C still to be done change when a record is written only.    *)
LEMMA TodoKept ==
  ASSUME JoinInv, Place, [Next]_vars, ~ WriteRecord
  PROVE  Todo' = Todo
  <1>1. /\ TypeOK /\ RecordsOf /\ db' = db /\ Selected(db') = Selected(db)
        /\ tab \in Joined
    BY DEF JoinInv, FrameInv, TypeInv, TypeOK, Next, OpenBin, PrepareC, StepC,
           SkipTable, Select, StepJoined, Finish, SaveBin, Stopped, vars
  <1>2. ASSUME c'.pos = c.pos, InHand' = InHand
        PROVE  Todo' = Todo
    BY <1>1, <1>2 DEF Todo
  <1>3. CASE PrepareC
    BY <1>2, <1>3 DEF PrepareC, Place, Create, Null, Prepared, InHand
  <1>4. CASE StepC
    <2>1. /\ c' \in StepRow(c, Selected(db)) /\ pc = "next"
          /\ c.st # "done" /\ c \in Statement("C")
      BY <1>1, <1>4 DEF StepC, RecordsOf, TypeOK
    <2>2. /\ c'.st = "done" => c'.pos = c.pos
          /\ c'.st = "row" => /\ c'.pos > c.pos /\ c'.pos \in Selected(db)
                              /\ \A i \in Selected(db) : i > c.pos => c'.pos <= i
      BY <2>1, StepMissesNothing
    <2>3. CASE c'.st = "done"
      <3>1. InHand' = InHand
        BY <1>4, <2>1, <2>3 DEF StepC, InHand
      <3>2. c'.pos = c.pos
        BY <2>2, <2>3
      <3> QED  BY <1>2, <3>1, <3>2
    <2>4. CASE c'.st = "row"
      <3>1. ~ InHand /\ InHand'
        BY <1>4, <2>1, <2>4 DEF StepC, InHand
      <3>2. \A i \in Selected(db) : i >= c'.pos <=> i > c.pos
        BY <1>1, <2>2, <2>4, Positions
      <3> QED  BY <1>1, <3>1, <3>2 DEF Todo
    <2>5. c'.st \in {"row", "done"}
      BY <2>1, SelectedType, StepRowType
    <2> QED  BY <2>3, <2>4, <2>5
  <1>5. CASE SkipTable \/ Select \/ StepJoined
    <2>1. c' = c /\ pc \in {"select", "scan"}
      BY <1>5 DEF SkipTable, Select, StepJoined
    <2>2. pc' \in {"select", "scan", "write", "abort"}
      BY <1>1, <1>5, AdvanceType DEF SkipTable, Select, StepJoined
    <2>3. InHand' = InHand
      BY <2>1, <2>2 DEF InHand
    <2> QED  BY <1>2, <2>1, <2>3
  <1>6. CASE OpenBin \/ Finish \/ SaveBin \/ Stopped \/ UNCHANGED vars
    BY <1>2, <1>6 DEF OpenBin, Finish, SaveBin, Stopped, vars, InHand
  <1> QED  BY <1>3, <1>4, <1>5, <1>6 DEF Next

(* A record written does the first row of those to be done.                *)
LEMMA TodoDone ==
  ASSUME JoinInv, WriteRecord
  PROVE  /\ c.pos \in Todo /\ \A j \in Todo : c.pos <= j
         /\ Todo' = Todo \ {c.pos}
  <1>1. TypeOK /\ c.pos \in Selected(db) /\ c' = c /\ db' = db
    BY DEF JoinInv, FrameInv, TypeInv, Control, WriteRecord
  <1>2. InHand /\ ~ InHand'
    BY DEF WriteRecord, InHand
  <1>3. \A i \in Selected(db) : i > c.pos <=> i >= c.pos /\ i # c.pos
    BY <1>1, Positions
  <1>4. c.pos >= c.pos
    BY <1>1, Positions
  <1> QED  BY <1>1, <1>2, <1>3, <1>4, Positions DEF Todo

LEMMA PlaceStep ==
  ASSUME JoinInv, Place, [Next]_vars
  PROVE  Place'
  <1>1. TypeOK /\ db' = db /\ Selected(db') = Selected(db) /\ RecordsOf
    BY DEF JoinInv, FrameInv, TypeInv, TypeOK, Next, OpenBin, PrepareC, StepC,
           SkipTable, Select, StepJoined, WriteRecord, Finish, SaveBin,
           Stopped, vars
  <1>2. CASE WriteRecord
    <2> DEFINE D == Selected(db) \ Todo
    <2>1. c.pos \in Todo /\ Todo' = Todo \ {c.pos}
      BY <1>2, TodoDone
    <2>2. Selected(db) \ Todo' = D \cup {c.pos} /\ c.pos \notin D
      BY <1>1, <2>1, Positions
    <2>3. IsFiniteSet(D)
      BY <1>1, Positions, FS_Subset
    <2>4. Cardinality(D \cup {c.pos}) = Cardinality(D) + 1
      <3> HIDE DEF D
      <3> QED  BY <2>2, <2>3, FS_AddElement
    <2>5. /\ rownum' = rownum + 1 /\ pc' = "next" /\ UNCHANGED ok /\ ~ ok
      BY <1>2 DEF WriteRecord, Place
    <2> QED  BY <1>1, <2>2, <2>4, <2>5 DEF Place
  <1>3. CASE ~ WriteRecord
    <2>1. Todo' = Todo
      BY <1>3, TodoKept
    <2>2. rownum' = rownum
      BY <1>3 DEF Next, OpenBin, PrepareC, StepC, SkipTable, Select,
                  StepJoined, Finish, SaveBin, Stopped, vars
    <2>3. rownum' = Cardinality(Selected(db') \ Todo')
      BY <1>1, <2>1, <2>2 DEF Place
    <2>4. CASE OpenBin
      BY <2>3, <2>4 DEF OpenBin, Place
    <2>5. CASE PrepareC
      <3>1. pc' = "save" => Selected(db) = {}
        BY <2>5 DEF PrepareC, Create, Prepared, Selected
      <3>2. pc' = "save" => Todo' = {}
        BY <1>1, <2>1, <3>1, Positions
      <3> QED  BY <2>3, <2>5, <3>2 DEF PrepareC, Place
    <2>6. CASE StepC
      <3>1. /\ c' \in StepRow(c, Selected(db)) /\ pc = "next"
            /\ c.st # "done" /\ c \in Statement("C")
        BY <1>1, <2>6 DEF StepC, RecordsOf, TypeOK
      <3>2. c'.st = "done" /\ db \notin Faulty =>
              \A i \in Selected(db) : ~ (i > c.pos)
        BY <3>1, StepMissesNothing
      <3>3. pc' = "finish" => Todo = {} \/ db \in Faulty
        <4>1. pc' = "finish" => c'.st = "done"
          BY <2>6 DEF StepC
        <4> QED  BY <3>1, <3>2, <4>1 DEF Todo, InHand
      <3> QED  BY <2>1, <2>3, <2>6, <3>3 DEF StepC, Place
    <2>7. CASE SkipTable \/ Select \/ StepJoined
      <3>1. ok' = ok /\ pc \in {"select", "scan"}
        BY <2>7 DEF SkipTable, Select, StepJoined
      <3>2. pc' \in {"select", "scan", "write", "abort"}
        BY <1>1, <2>7, AdvanceType DEF SkipTable, Select, StepJoined
      <3> QED  BY <2>3, <3>1, <3>2 DEF Place
    <2>8. CASE Finish
      BY <2>1, <2>3, <2>8 DEF Finish, Place
    <2>9. CASE SaveBin
      BY <2>3, <2>9 DEF SaveBin, Place
    <2>10. CASE Stopped \/ UNCHANGED vars
      BY <2>1, <2>3, <2>10 DEF Stopped, vars, Place
    <2> QED  BY <1>3, <2>4, <2>5, <2>6, <2>7, <2>8, <2>9, <2>10 DEF Next
  <1> QED  BY <1>2, <1>3

LEMMA RefineInit == Init => RefineInv
  <1> SUFFICES ASSUME Init PROVE RefineInv
    OBVIOUS
  <1>1. JoinInv
    BY JoinInit
  <1>2. TypeOK /\ pc = "open" /\ c = Null /\ rownum = 0 /\ ok = FALSE
    BY <1>1 DEF Init, JoinInv, FrameInv, TypeInv
  <1>3. Todo = Selected(db)
    BY <1>2, Positions DEF Todo, InHand, Null
  <1>4. Cardinality(Selected(db) \ Todo) = 0
    BY <1>3, FS_EmptySet
  <1> QED  BY <1>1, <1>2, <1>4 DEF RefineInv, AllRead, Place

LEMMA RefineStep == RefineInv /\ [Next]_vars => RefineInv'
  BY JoinStep, AllReadStep, PlaceStep DEF RefineInv

-----------------------------------------------------------------------------
(* Every step of the export is one of the promise, or none *)

LEMMA CutAt ==
  ASSUME NEW S, NEW s \in Seq(S), NEW r \in Seq(S), NEW w, w = s \o r
  PROVE  /\ Len(w) >= Len(s)
         /\ SubSeq(w, 1, Len(s)) = s
         /\ SubSeq(w, Len(s) + 1, Len(w)) = r
  OBVIOUS

LEMMA InitPromised == Init => Promise!Init
  <1> SUFFICES ASSUME Init PROVE Promise!Init
    OBVIOUS
  <1>1. TypeOK /\ pc = "open" /\ c = Null /\ ok = FALSE
    BY TypeInit DEF Init, TypeInv
  <1>2. Todo = Selected(db)
    BY <1>1, Positions DEF Todo, InHand, Null
  <1>3. Stage = "closed"
    BY <1>1 DEF Stage
  <1> QED  BY <1>1, <1>2, <1>3, SameRows DEF Init, TypeOK, Promise!Init

(* The record that is written is the one the promise wants.                *)
LEMMA EmitPromised ==
  ASSUME RefineInv, WriteRecord
  PROVE  Promise!Emit
  <1>1. PICK g \in LaneNums(db, found) : os' = os \o Record(db, c.pos, found, g)
    BY DEF WriteRecord
  <1> DEFINE r == Record(db, c.pos, found, g)
  <1>2. /\ TypeOK /\ Control /\ RowsRead /\ pc = "write"
        /\ os \in Seq(Unit) /\ IsDatabase(db)
    BY DEF WriteRecord, RefineInv, JoinInv, FrameInv, TypeInv, TypeOK
  <1>3. Read(db, found, g) /\ c.pos \in Rows(db, "C")
    BY <1>2, LaneNumType, SelectedType DEF Read, TypeOK, Control
  <1>4. r \in Seq(Unit) /\ MadeOf(db, c.pos, found, g, r)
    BY <1>2, <1>3, RecordShape
  <1>5. ReadRows(db, c.pos, found)
    <2>1. ASSUME NEW t \in Joined
          PROVE  Among(found[t]) \in Readable(db, c.pos, t)
      <3>1. ReadFor(t) /\ Found(t)
        BY <1>2 DEF RowsRead, RefineInv, AllRead
      <3>2. CASE db \in Faulty
        BY <1>2, <3>1, <3>2, FirstRead DEF Readable
      <3>3. CASE db \notin Faulty
        BY <3>1, <3>3 DEF Found, Readable
      <3> QED  BY <3>2, <3>3
    <2> QED  BY <1>2, <2>1 DEF ReadRows, TypeOK, RowsRead, ReadFor
  <1>6. Promise!IsRecord(r, db, c.pos)
    <2> HIDE DEF r
    <2> QED  BY <1>2, <1>4, <1>5, RecordPromised
  <1> HIDE DEF r
  <1>7. /\ Len(os') >= Len(os) /\ SubSeq(os', 1, Len(os)) = os
        /\ SubSeq(os', Len(os) + 1, Len(os')) = r
    <2>1. os' = os \o r
      BY <1>1 DEF r
    <2> QED  BY <1>2, <1>4, <2>1, CutAt
  <1>8. /\ c.pos \in Todo /\ \A j \in Todo : c.pos <= j
        /\ Todo' = Todo \ {c.pos}
    BY TodoDone DEF RefineInv
  <1>9. /\ Stage = "open" /\ Stage' = "open"
        /\ UNCHANGED <<db, file>>
    BY DEF WriteRecord, Stage, RefineInv, Place
  <1> QED  BY <1>6, <1>7, <1>8, <1>9 DEF Promise!Emit

LEMMA SavePromised ==
  ASSUME RefineInv, SaveBin
  PROVE  Promise!Save
  <1> DEFINE D == Selected(db) \ Todo
             whole == <<FileHeader(Cardinality(D), Len(os))>> \o os
  <1>1. /\ TypeOK /\ Counted /\ Place /\ pc = "save" /\ ~ ok
        /\ Todo = {} \/ db \in Faulty
    BY DEF SaveBin, RefineInv, JoinInv, FrameInv, TypeInv, Place
  <1>2. rownum = Cardinality(D)
    BY <1>1 DEF Place
  <1>3. PICK n \in 0..Len(bin) : file' = SubSeq(bin, 1, n)
    BY DEF SaveBin
  <1>4. \E m \in 0..Len(whole) : file' = SubSeq(whole, 1, m)
    <2>1. CASE bin = <<>>
      <3>1. file' = <<>>
        BY <1>3, <2>1
      <3>2. \A s : SubSeq(s, 1, 0) = <<>>
        OBVIOUS
      <3>3. 0 \in 0..Len(whole)
        BY <1>1 DEF TypeOK
      <3> HIDE DEF whole
      <3> QED  BY <3>1, <3>2, <3>3
    <2>2. CASE bin # <<>>
      <3>1. bin = whole
        BY <1>1, <1>2, <2>2 DEF Counted
      <3> HIDE DEF whole
      <3> QED  BY <1>3, <3>1
    <2> QED  BY <2>1, <2>2
  <1>5. whole = <<Promise!FileHeader(
                    Promise!Cardinality(Promise!Selected(db) \ Todo),
                    Len(os))>> \o os
    BY SameRows, SameUnits, SameCardinality
  <1> HIDE DEF whole
  <1>6. Todo' = Todo
    BY TodoKept DEF RefineInv, SaveBin, Next, WriteRecord
  <1>7. Stage = "open" /\ Stage' = "saved"
    BY <1>1 DEF SaveBin, Stage
  <1>8. UNCHANGED <<db, os>>
    BY DEF SaveBin
  <1> QED  BY <1>1, <1>4, <1>5, <1>6, <1>7, <1>8 DEF Promise!Save

LEMMA StepPromised ==
  ASSUME RefineInv, [Next]_vars
  PROVE  [Promise!Next]_<<db, Todo, os, Stage, file>>
  <1>1. TypeOK /\ JoinInv /\ Place
    BY DEF RefineInv, JoinInv, FrameInv, TypeInv
  <1>2. CASE WriteRecord
    BY <1>2, EmitPromised DEF Promise!Next
  <1>3. CASE SaveBin
    BY <1>3, SavePromised DEF Promise!Next
  <1>4. CASE OpenBin /\ pc' = "prepare"
    <2>1. Todo' = Todo
      BY <1>1, <1>4, TodoKept DEF OpenBin, WriteRecord
    <2>2. Stage = "closed" /\ Stage' = "open"
      BY <1>1, <1>4 DEF OpenBin, Stage, Place
    <2>3. file' = <<>> /\ UNCHANGED <<db, os>>
      BY <1>4 DEF OpenBin
    <2> QED  BY <2>1, <2>2, <2>3 DEF Promise!Open, Promise!Next
  <1>5. CASE \/ OpenBin /\ pc' = "end"
             \/ PrepareC \/ StepC \/ SkipTable \/ Select \/ StepJoined
             \/ Finish \/ Stopped \/ UNCHANGED vars
    <2>1. Todo' = Todo
      BY <1>1, <1>5, TodoKept DEF OpenBin, PrepareC, StepC, SkipTable, Select,
         StepJoined, Finish, Stopped, vars, WriteRecord
    <2>2. UNCHANGED <<db, os, file, ok>>
      BY <1>5 DEF OpenBin, PrepareC, StepC, SkipTable, Select, StepJoined,
                  Finish, Stopped, vars
    <2>3. pc \in {"open", "end"} <=> pc' \in {"open", "end"}
      <3>1. CASE SkipTable \/ Select \/ StepJoined
        <4>1. pc \in {"select", "scan"}
          BY <3>1 DEF SkipTable, Select, StepJoined
        <4>2. pc' \in {"select", "scan", "write", "abort"}
          BY <1>1, <3>1, AdvanceType DEF SkipTable, Select, StepJoined
        <4> QED  BY <4>1, <4>2
      <3>2. CASE ~ (SkipTable \/ Select \/ StepJoined)
        BY <1>5, <3>2 DEF OpenBin, PrepareC, StepC, Finish, Stopped, vars
      <3> QED  BY <3>1, <3>2
    <2>4. Stage' = Stage
      BY <2>2, <2>3 DEF Stage
    <2> QED  BY <2>1, <2>2, <2>4
  <1>6. OpenBin => pc' \in {"prepare", "end"}
    BY DEF OpenBin
  <1> QED  BY <1>2, <1>3, <1>4, <1>5, <1>6 DEF Next

(***************************************************************************)
(* For every database the export does what its promise says and nothing    *)
(* else: records in the order of table C, each with the rows of its own    *)
(* IDs and no others - all of them, or the first ones where steps fail -   *)
(* and a file that is truncated and then holds a prefix of the stream.     *)
(***************************************************************************)
THEOREM ExportKeepsPromise == Spec => ImplementsPromise
  <1>1. Init => RefineInv /\ Promise!Init
    BY RefineInit, InitPromised
  <1>2. RefineInv /\ [Next]_vars => RefineInv'
    BY RefineStep
  <1>3. RefineInv /\ [Next]_vars =>
          [Promise!Next]_<<db, Todo, os, Stage, file>>
    BY StepPromised
  <1> QED  BY <1>1, <1>2, <1>3, PTL DEF Spec, ImplementsPromise, Promise!Spec
=============================================================================
