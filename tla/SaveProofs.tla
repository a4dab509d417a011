------------------------------ MODULE SaveProofs ------------------------------
(***************************************************************************)
(* The save over SQLite's rollback journal implements the replacement in   *)
(* one step: OldOrNew, for files of any size and any number of saves.      *)
(*                                                                         *)
(* Shows(e, c) says that the files e are read as the database c, and why:  *)
(* either there is no header in the journal and the file begins with c     *)
(* (Cold), or each page of c is still in the file or in a record that is   *)
(* played back for sure (Hot).  What shows c is read as c (ViewIs), and    *)
(* still shows c after a power loss, whatever that leaves (ShowsLeft).     *)
(* The invariant IInv says that the files show a saved database at every   *)
(* step, and of a transaction how far it is on the way from Cold to Hot    *)
(* (Filling, Counted), of a recovery what it has still to play back        *)
(* (Playing).  Each action keeps IInv and is a step of AtomicSave or a     *)
(* stutter; Finish, which deletes the journal, is the Replace.             *)
(***************************************************************************)
EXTENDS SaveRefine, TLAPS, SequenceTheorems, WellFoundedInduction

-----------------------------------------------------------------------------
(* Sequences *)

LEMMA FunctionIsSeq ==
  ASSUME NEW S, NEW n \in Nat, NEW f \in [1..n -> S]
  PROVE  f \in Seq(S) /\ Len(f) = n /\ DOMAIN f = 1..n
  <1>1. f \in Seq(S)
    BY SeqDef
  <1>2. Len(f) \in Nat /\ DOMAIN f = 1..Len(f)
    BY <1>1, LenProperties
  <1>3. DOMAIN f = 1..n
    OBVIOUS
  <1>4. PICK m \in Nat : m = Len(f)
    BY <1>2
  <1>5. 1..m = 1..n
    BY <1>2, <1>3, <1>4
  <1>6. m = n
    <2>1. CASE m < n
      <3>1. n \in 1..n /\ n \notin 1..m
        BY <2>1
      <3> QED  BY <1>5, <3>1
    <2>2. CASE n < m
      <3>1. m \in 1..m /\ m \notin 1..n
        BY <2>2
      <3> QED  BY <1>5, <3>1
    <2> QED  BY <2>1, <2>2
  <1> QED  BY <1>1, <1>3, <1>4, <1>6

(* w is f with position i written.                                         *)
Writes(w, f, i, x, junk) ==
  /\ Len(w) = IF Len(f) < i THEN i ELSE Len(f)
  /\ w[i] = x
  /\ \A k \in 1..Len(f) : k # i => w[k] = f[k]
  /\ \A k \in Len(f) + 1 .. i - 1 : w[k] = junk

LEMMA WrittenIs ==
  ASSUME NEW S, NEW f \in Seq(S), NEW i \in Nat \ {0}, NEW x \in S,
         NEW junk \in S
  PROVE  /\ Written(f, i, x, junk) \in Seq(S)
         /\ Writes(Written(f, i, x, junk), f, i, x, junk)
  <1>1. PICK n \in Nat : n = Len(f)
    BY LenProperties
  <1>2. \A k \in 1..n : f[k] \in S
    BY <1>1, ElementOfSeq
  <1> DEFINE m == IF n < i THEN i ELSE n
             w == [k \in 1..m |-> IF k = i THEN x ELSE IF k <= n THEN f[k] ELSE junk]
  <1>3. Written(f, i, x, junk) = w
    BY <1>1 DEF Written
  <1>4. m \in Nat /\ i \in 1..m /\ n <= m /\ i <= m
    OBVIOUS
  <1>5. w \in [1..m -> S]
    BY <1>2
  <1>6. w[i] = x
    BY <1>4
  <1>7. \A k \in 1..n : k # i => w[k] = f[k]
    BY <1>4
  <1>8. \A k \in n + 1 .. i - 1 : w[k] = junk
    BY <1>4
  <1> HIDE DEF w
  <1>9. w \in Seq(S) /\ Len(w) = m
    BY <1>4, <1>5, FunctionIsSeq
  <1> QED  BY <1>1, <1>3, <1>6, <1>7, <1>8, <1>9 DEF Writes

LEMMA ResizedIs ==
  ASSUME NEW S, NEW f \in Seq(S), Junk \in S, NEW n \in Nat
  PROVE  /\ Resized(f, n) \in Seq(S)
         /\ Len(Resized(f, n)) = n
         /\ \A k \in 1..n : k <= Len(f) => Resized(f, n)[k] = f[k]
  <1>1. PICK m \in Nat : m = Len(f)
    BY LenProperties
  <1>2. \A k \in 1..m : f[k] \in S
    BY <1>1, ElementOfSeq
  <1> DEFINE w == [k \in 1..n |-> IF k <= m THEN f[k] ELSE Junk]
  <1>3. Resized(f, n) = w
    BY <1>1 DEF Resized
  <1>4. w \in [1..n -> S]
    BY <1>2
  <1>5. \A k \in 1..n : k <= m => w[k] = f[k]
    OBVIOUS
  <1> HIDE DEF w
  <1>6. w \in Seq(S) /\ Len(w) = n
    BY <1>4, FunctionIsSeq
  <1> QED  BY <1>1, <1>3, <1>5, <1>6

LEMMA EmptyIff ==
  ASSUME NEW S, NEW s \in Seq(S)
  PROVE  s = <<>> <=> Len(s) = 0
  BY EmptySeq

(* Two sequences of one length with the same elements are the same.        *)
LEMMA SameSeq ==
  ASSUME NEW S, NEW T, NEW s \in Seq(S), NEW t \in Seq(T), Len(s) = Len(t),
         \A i \in 1..Len(s) : s[i] = t[i]
  PROVE  s = t
  <1>1. PICK n \in Nat : n = Len(s)
    BY LenProperties
  <1>2. s \in [1..n -> S] /\ t \in [1..n -> T]
    BY <1>1, LenProperties
  <1> QED  BY <1>1, <1>2

-----------------------------------------------------------------------------
(* Databases, as they are saved *)

LEMMA SavedIs ==
  ASSUME NEW c \in Saved
  PROVE  /\ c \in Seq(Pages(MaxSaves))
         /\ Len(c) \in Nat
         /\ c = <<>> <=> Len(c) = 0
         /\ c # <<>> => c[1] # Junk /\ c[1].size = Len(c)
  <1>1. PICK v \in 0..MaxSaves, n \in OldSizes \cup NewSizes \cup {0} : c = Image(v, n)
    BY DEF Saved
  <1>2. n \in Nat
    BY SizesAssumption
  <1>0. ASSUME NEW i \in 1..n  PROVE n \in OldSizes \cup NewSizes
    BY <1>2
  <1>3. \A i \in 1..n : Page(v, i, n) \in Pages(MaxSaves)
    BY <1>2, <1>0 DEF Pages, Page
  <1>4. c \in [1..n -> Pages(MaxSaves)]
    BY <1>1, <1>3 DEF Image
  <1>5. c \in Seq(Pages(MaxSaves)) /\ Len(c) = n
    BY <1>2, <1>4, FunctionIsSeq
  <1>6. c = <<>> <=> n = 0
    BY <1>5, EmptyIff
  <1>7. ASSUME c # <<>>  PROVE c[1] # Junk /\ c[1].size = n
    <2>1. 1 \in 1..n
      BY <1>2, <1>6, <1>7
    <2>2. c[1] = Page(v, 1, n)
      BY <1>1, <2>1 DEF Image
    <2>3. v # -1
      BY SizesAssumption
    <2>4. c[1].of = v /\ c[1].size = n /\ Junk.of = -1
      BY <2>2 DEF Page, Junk
    <2> QED  BY <2>3, <2>4
  <1> QED  BY <1>2, <1>5, <1>6, <1>7

LEMMA ImageSaved ==
  ASSUME NEW v \in 0..MaxSaves, NEW n \in OldSizes \cup NewSizes
  PROVE  /\ Image(v, n) \in Saved
         /\ Image(v, n) \in Seq(Pages(v) \ {Junk})
         /\ Len(Image(v, n)) = n
  <1>1. Image(v, n) \in Saved
    BY DEF Saved
  <1>2. n \in Nat /\ v \in Nat /\ v # -1
    BY SizesAssumption
  <1>3. ASSUME NEW i \in 1..n  PROVE Page(v, i, n) \in Pages(v) \ {Junk}
    <2>1. Page(v, i, n) \in Pages(v)
      BY <1>2 DEF Pages, Page
    <2>2. Page(v, i, n).of = v /\ Junk.of = -1
      BY DEF Page, Junk
    <2> QED  BY <1>2, <2>1, <2>2
  <1>4. Image(v, n) \in [1..n -> Pages(v) \ {Junk}]
    BY <1>3 DEF Image
  <1> QED  BY <1>1, <1>2, <1>4, FunctionIsSeq

(* File d, without a journal, is read as c.                                *)
Good(d, c) ==
  /\ Len(c) <= Len(d)
  /\ \A i \in 1..Len(c) : d[i] = c[i]
  /\ c = <<>> => d = <<>>

LEMMA SeenIs ==
  ASSUME NEW c \in Saved, NEW S, NEW d \in Seq(S), Good(d, c)
  PROVE  Seen(d) = c
  <1>1. PICK m \in Nat : m = Len(c)
    BY SavedIs
  <1>2. PICK n \in Nat : n = Len(d)
    BY LenProperties
  <1>3. CASE c = <<>>
    BY <1>3 DEF Good, Seen
  <1>4. CASE c # <<>>
    <2>1. m # 0 /\ c[1] # Junk /\ c[1].size = m
      BY <1>1, <1>4, SavedIs
    <2>2. m <= n /\ \A i \in 1..m : d[i] = c[i]
      BY <1>1, <1>2 DEF Good
    <2>3. d[1] = c[1] /\ d # <<>>
      <3>1. 1 \in 1..m /\ n # 0
        BY <2>1, <2>2
      <3> QED  BY <1>2, <2>2, <3>1, EmptyIff
    <2>4. Seen(d) = SubSeq(d, 1, m)
      BY <1>2, <2>1, <2>2, <2>3 DEF Seen
    <2>5. \A i \in 1..m : d[i] \in S
      BY <1>2, <2>2, ElementOfSeq
    <2>6. /\ SubSeq(d, 1, m) \in Seq(S)
          /\ Len(SubSeq(d, 1, m)) = m
          /\ \A i \in 1..m : SubSeq(d, 1, m)[i] = d[i]
      <3>1. /\ SubSeq(d, 1, m) \in Seq(S)
            /\ Len(SubSeq(d, 1, m)) = IF 1 <= m THEN m - 1 + 1 ELSE 0
            /\ \A i \in 1..(m - 1 + 1) : SubSeq(d, 1, m)[i] = d[1 + i - 1]
        BY <2>5, SubSeqProperties
      <3> QED  BY <2>1, <3>1
    <2>7. \A i \in 1..m : SubSeq(d, 1, m)[i] = c[i]
      BY <2>2, <2>6
    <2> HIDE DEF Good
    <2>8. c \in Seq(Pages(MaxSaves))
      BY SavedIs
    <2>9. SubSeq(d, 1, m) = c
      BY <1>1, <2>6, <2>7, <2>8, SameSeq
    <2> QED  BY <2>4, <2>9
  <1> QED  BY <1>3, <1>4

-----------------------------------------------------------------------------
(* Induction over the numbers, for a set of them *)

Less == {ss \in Nat \X Nat : ss[1] < ss[2]}

LEMMA Induction ==
  ASSUME NEW T, 0 \in T, \A n \in Nat : n \in T => n + 1 \in T
  PROVE  Nat \subseteq T
  <1> SUFFICES ASSUME Nat \ T # {}  PROVE FALSE
    OBVIOUS
  <1>1. IsWellFoundedOn(Less, Nat)
    BY NatLessThanWellFounded DEF OpToRel, Less
  <1>2. PICK x \in Nat \ T : \A y \in Nat \ T : ~(<<y, x>> \in Less)
    BY <1>1, WFMin
  <1>3. x # 0 /\ x - 1 \in Nat
    OBVIOUS
  <1>4. x - 1 \in T
    <2>1. <<x - 1, x>> \in Less
      BY <1>3 DEF Less
    <2> QED  BY <1>2, <1>3, <2>1
  <1>5. (x - 1) + 1 \in T
    BY <1>3, <1>4
  <1> QED  BY <1>5

-----------------------------------------------------------------------------
(* What a power loss leaves *)

(* The files of n positions, from those of n - 1.                          *)
Stages(v, m, s, now, junk) ==
  v = [n \in 0..m |->
         IF n = 0 THEN {<<>>}
         ELSE Longer(v[n - 1], Outcomes(s, now, junk, n))]

LEMMA StagesExist ==
  ASSUME NEW s, NEW now, NEW junk, NEW m \in Nat
  PROVE  \E v : Stages(v, m, s, now, junk)
  <1> DEFINE Out(n) == Outcomes(s, now, junk, n)
             Body(v, n) == IF n = 0 THEN {<<>>}
                           ELSE Longer(v[n - 1], Out(n))
             Is(v, k) == v = [n \in 0..k |-> Body(v, n)]
             T == {k \in Nat : \E v : Is(v, k)}
  <1>1. 0 \in T
    <2> DEFINE v == [n \in 0..0 |-> {<<>>}]
    <2>1. v = [n \in 0..0 |-> Body(v, n)]
      OBVIOUS
    <2> HIDE DEF v, Body
    <2>2. Is(v, 0)
      BY <2>1
    <2> QED  BY <2>2
  <1>2. ASSUME NEW k \in Nat, k \in T  PROVE k + 1 \in T
    <2>1. PICK v : Is(v, k)
      BY <1>2
    <2> DEFINE z == Longer(v[k], Out(k + 1))
               w == [n \in 0..(k + 1) |-> IF n = k + 1 THEN z ELSE v[n]]
    <2>2. ASSUME NEW n \in 0..(k + 1)  PROVE w[n] = Body(w, n)
      <3>1. CASE n = k + 1
        <4>1. w[n] = z /\ w[n - 1] = v[k] /\ n # 0
          BY <3>1
        <4> HIDE DEF w, Out
        <4> QED  BY <3>1, <4>1
      <3>2. CASE n \in 0..k
        <4>1. w[n] = v[n] /\ (n # 0 => w[n - 1] = v[n - 1])
          BY <3>2
        <4>2. v[n] = Body(v, n)
          BY <2>1, <3>2
        <4> HIDE DEF w, Out
        <4> QED  BY <4>1, <4>2
      <3> QED  BY <3>1, <3>2
    <2>3. w = [n \in 0..(k + 1) |-> w[n]]
      OBVIOUS
    <2> HIDE DEF w, Body
    <2>4. Is(w, k + 1)
      BY <2>2, <2>3
    <2> QED  BY <2>4
  <1> HIDE DEF Is
  <1>3. m \in T
    BY <1>1, <1>2, Induction
  <1> QED  BY <1>3 DEF Is, Stages

(* f is s or now or junk at each position, and what both have.             *)
Mixes(f, s, now, junk) ==
  /\ \A i \in 1..Len(f) :
       \/ i <= Len(s) /\ i <= Len(now) /\ s[i] = now[i] /\ f[i] = now[i]
       \/ /\ ~ (i <= Len(s) /\ i <= Len(now) /\ s[i] = now[i])
          /\ \/ f[i] = junk
             \/ i <= Len(s) /\ f[i] = s[i]
             \/ i <= Len(now) /\ f[i] = now[i]

LEMMA StageIs ==
  ASSUME NEW S, NEW s \in Seq(S), NEW now \in Seq(S), NEW junk \in S,
         NEW m \in Nat, NEW v, Stages(v, m, s, now, junk)
  PROVE  \A n \in 0..m : \A f \in v[n] :
           f \in Seq(S) /\ Len(f) = n /\ Mixes(f, s, now, junk)
  <1> DEFINE Fine(f, n) == f \in Seq(S) /\ Len(f) = n /\ Mixes(f, s, now, junk)
             T == {n \in Nat : n <= m => \A f \in v[n] : Fine(f, n)}
  <1>1. 0 \in T
    <2>1. v[0] = {<<>>}
      BY DEF Stages
    <2>2. <<>> \in Seq(S) /\ Len(<<>>) = 0
      BY EmptySeq
    <2>3. Fine(<<>>, 0)
      BY <2>2 DEF Mixes
    <2> QED  BY <2>1, <2>3
  <1>2. ASSUME NEW n \in Nat, n \in T  PROVE n + 1 \in T
    <2> SUFFICES ASSUME n + 1 <= m, NEW g \in v[n + 1]  PROVE Fine(g, n + 1)
      OBVIOUS
    <2>1. n + 1 \in 0..m /\ n + 1 # 0 /\ (n + 1) - 1 = n /\ n <= m
      OBVIOUS
    <2>2. v[n + 1] = Longer(v[n], Outcomes(s, now, junk, n + 1))
      BY <2>1 DEF Stages
    <2>3. PICK f \in v[n], x \in Outcomes(s, now, junk, n + 1) : g = Append(f, x)
      BY <2>2 DEF Longer
    <2>4. f \in Seq(S) /\ Len(f) = n /\ Mixes(f, s, now, junk)
      BY <1>2, <2>1
    <2>5. PICK a \in Nat, b \in Nat : a = Len(s) /\ b = Len(now)
      BY LenProperties
    <2>6. LET i == n + 1 IN
          \/ i <= a /\ i <= b /\ s[i] = now[i] /\ x = now[i]
          \/ /\ ~ (i <= a /\ i <= b /\ s[i] = now[i])
             /\ \/ x = junk
                \/ i <= a /\ x = s[i]
                \/ i <= b /\ x = now[i]
      BY <2>5 DEF Outcomes
    <2>7. x \in S
      BY <2>5, <2>6, ElementOfSeq
    <2>8. /\ g \in Seq(S) /\ Len(g) = n + 1
          /\ \A i \in 1..n : g[i] = f[i]
          /\ g[n + 1] = x
      BY <2>3, <2>4, <2>7, AppendProperties
    <2>9. Mixes(g, s, now, junk)
      <3> SUFFICES ASSUME NEW i \in 1..(n + 1)
                   PROVE  \/ i <= a /\ i <= b /\ s[i] = now[i] /\ g[i] = now[i]
                          \/ /\ ~ (i <= a /\ i <= b /\ s[i] = now[i])
                             /\ \/ g[i] = junk
                                \/ i <= a /\ g[i] = s[i]
                                \/ i <= b /\ g[i] = now[i]
        BY <2>5, <2>8 DEF Mixes
      <3>1. CASE i = n + 1
        BY <2>6, <2>8, <3>1
      <3>2. CASE i \in 1..n
        <4>1. g[i] = f[i]
          BY <2>8, <3>2
        <4> QED  BY <2>4, <2>5, <3>2, <4>1 DEF Mixes
      <3> QED  BY <3>1, <3>2
    <2> QED  BY <2>8, <2>9
  <1> HIDE DEF Fine
  <1>3. \A n \in Nat : n \in T
    BY <1>1, <1>2, Induction
  <1> QED  BY <1>3 DEF Fine

LEMMA LeftIs ==
  ASSUME NEW S, NEW s \in Seq(S), NEW now \in Seq(S), NEW junk \in S,
         NEW f \in Left(s, now, junk)
  PROVE  /\ f \in Seq(S)
         /\ Len(s) <= Len(f) \/ Len(now) <= Len(f)
         /\ Len(f) <= Len(s) \/ Len(f) <= Len(now)
         /\ Mixes(f, s, now, junk)
  <1>1. PICK a \in Nat, b \in Nat : a = Len(s) /\ b = Len(now)
    BY LenProperties
  <1> DEFINE m == IF a < b THEN b ELSE a
             lens == IF a < b THEN a..b ELSE b..a
  <1>2. PICK v : v = CHOOSE w : Stages(w, m, s, now, junk)
    OBVIOUS
  <1>3. m \in Nat
    OBVIOUS
  <1>4. Stages(v, m, s, now, junk)
    BY <1>2, <1>3, StagesExist
  <1>5. Left(s, now, junk) = UNION {v[n] : n \in lens}
    BY <1>1, <1>2 DEF Left, Stages
  <1>6. PICK n \in lens : f \in v[n]
    BY <1>5
  <1>7. n \in 0..m /\ (a <= n \/ b <= n) /\ (n <= a \/ n <= b)
    OBVIOUS
  <1> QED  BY <1>1, <1>3, <1>4, <1>6, <1>7, StageIs

-----------------------------------------------------------------------------
(* Journals *)

Heads(j) == {i \in DOMAIN j : j[i].is = "header"}

(* The positions that the header at h counts.                              *)
Under(j, h) == h + 1 .. h + j[h].recs

(* The first n positions are headers, each with the records it counts.     *)
Tiled(j, n) ==
  /\ n \in 1..Len(j)
  /\ 1 \in Heads(j)
  /\ \A h \in Heads(j) : /\ h + j[h].recs <= n
                         /\ \A i \in Under(j, h) : j[i].is = "record"
  /\ \A i \in 1..n : i \in Heads(j) \/ \E h \in Heads(j) : i \in Under(j, h)

(* Page p is among the records up to position n.                           *)
Holds(j, n, p) == \E i \in 1..n : j[i].is = "record" /\ j[i].page = p

LEMMA HeaderIs ==
  ASSUME NEW k, NEW j \in Seq(Items(k)), NEW h \in Heads(j)
  PROVE  /\ h \in 1..Len(j) /\ j[h].is = "header"
         /\ j[h].recs \in Nat /\ j[h].orig \in Nat
  <1>1. h \in 1..Len(j) /\ j[h].is = "header"
    BY LenProperties DEF Heads
  <1>2. j[h] \in Items(k)
    BY <1>1, ElementOfSeq
  <1> QED  BY <1>1, <1>2 DEF Items, Zero, JunkItem

LEMMA TiledIs ==
  ASSUME NEW k, NEW j \in Seq(Items(k)), NEW n, Tiled(j, n)
  PROVE  /\ n \in Nat /\ n >= 1 /\ Len(j) \in Nat /\ n <= Len(j)
         /\ \A h \in Heads(j) :
              /\ h \in 1..n /\ j[h].recs \in Nat /\ h + j[h].recs <= n
              /\ \A i \in h + 1 .. h + j[h].recs : j[i].is = "record"
  <1>1. PICK l \in Nat : l = Len(j)
    BY LenProperties
  <1>2. n \in 1..l
    BY <1>1 DEF Tiled
  <1>3. ASSUME NEW h \in Heads(j)
        PROVE  /\ h \in 1..n /\ j[h].recs \in Nat /\ h + j[h].recs <= n
               /\ \A i \in h + 1 .. h + j[h].recs : j[i].is = "record"
    <2>1. PICK r \in Nat : r = j[h].recs
      BY HeaderIs
    <2>2. h \in 1..l
      BY <1>1, HeaderIs
    <2>3. h + r <= n /\ \A i \in h + 1 .. h + r : j[i].is = "record"
      BY <2>1 DEF Tiled, Under
    <2>4. h \in 1..n
      BY <1>2, <2>2, <2>3
    <2> QED  BY <2>1, <2>3, <2>4
  <1> QED  BY <1>1, <1>2, <1>3

(* Behind the records of a header is the next one, or the end.             *)
LEMMA NextHeader ==
  ASSUME NEW k, NEW j \in Seq(Items(k)), NEW n, Tiled(j, n), NEW h \in Heads(j)
  PROVE  h + j[h].recs = n \/ h + j[h].recs + 1 \in Heads(j)
  <1>1. n \in Nat /\ h \in Nat /\ j[h].recs \in Nat
    BY TiledIs
  <1> DEFINE q == h + j[h].recs + 1
  <1> SUFFICES ASSUME h + j[h].recs # n, q \notin Heads(j)  PROVE FALSE
    OBVIOUS
  <1>2. h + j[h].recs < n
    BY <1>1, TiledIs
  <1>3. q \in 1..n
    BY <1>1, <1>2
  <1>4. PICK g \in Heads(j) : q \in Under(j, g)
    BY <1>3 DEF Tiled
  <1>5. g \in Nat /\ j[g].recs \in Nat
    BY HeaderIs
  <1>6. g < q /\ q <= g + j[g].recs
    BY <1>1, <1>4, <1>5 DEF Under
  <1>7. g # h
    BY <1>1, <1>6
  <1>8. j[g].is = "header" /\ j[h].is = "header"
    BY HeaderIs
  <1>9. CASE g < h
    <2>1. h \in Under(j, g)
      BY <1>1, <1>5, <1>6, <1>9 DEF Under
    <2> QED  BY <1>8, <2>1 DEF Tiled
  <1>10. CASE g > h
    <2>1. g \in Under(j, h)
      BY <1>1, <1>5, <1>6, <1>10 DEF Under
    <2> QED  BY <1>8, <2>1 DEF Tiled
  <1> QED  BY <1>1, <1>5, <1>7, <1>9, <1>10

LEMMA GoodRecordsIs ==
  ASSUME NEW k, NEW j \in Seq(Items(k)), NEW n, Tiled(j, n), NEW h \in Heads(j)
  PROVE  GoodRecords(j, h) = j[h].recs
  <1>1. PICK m \in Nat, r \in Nat, l \in Nat : m = n /\ r = j[h].recs /\ l = Len(j)
    BY TiledIs
  <1>2. h \in Nat /\ h + r <= m /\ m <= l
    BY <1>1, TiledIs
  <1>3. \A i \in h + 1 .. h + r : i <= l /\ j[i].is = "record"
    BY <1>1, <1>2, TiledIs
  <1> DEFINE Ok(x) == /\ \A i \in h + 1 .. h + x : i <= l /\ j[i].is = "record"
                      /\ x = r \/ h + x + 1 > l \/ j[h + x + 1].is # "record"
  <1>4. r \in 0..r /\ Ok(r)
    BY <1>3
  <1>5. ASSUME NEW x \in 0..r, Ok(x)  PROVE x = r
    <2> SUFFICES ASSUME x < r  PROVE FALSE
      OBVIOUS
    <2>1. h + x + 1 \in h + 1 .. h + r
      BY <1>2
    <2> QED  BY <1>2, <1>3, <1>5, <2>1
  <1>6. GoodRecords(j, h) = CHOOSE x \in 0..r : Ok(x)
    BY <1>1 DEF GoodRecords
  <1> HIDE DEF Ok
  <1>7. (CHOOSE x \in 0..r : Ok(x)) = r
    BY <1>4, <1>5
  <1> QED  BY <1>1, <1>6, <1>7

(* The function that Played defines.                                       *)
Plays(v, j) ==
  v = [p \in 1 .. Len(j) + 1 |->
         IF p > Len(j) \/ j[p].is # "header" THEN <<>>
         ELSE SubSeq(j, p + 1, p + GoodRecords(j, p)) \o
              IF GoodRecords(j, p) = j[p].recs THEN v[p + j[p].recs + 1]
              ELSE <<>>]

LEMMA PlaysExists ==
  ASSUME NEW k, NEW j \in Seq(Items(k)), NEW n, Tiled(j, n)
  PROVE  \E v : Plays(v, j)
  <1>1. PICK l \in Nat : l = Len(j)
    BY LenProperties
  <1> DEFINE Ends(p) == p > l \/ j[p].is # "header"
             Nx(p) == p + j[p].recs + 1
             Body(v, p) ==
               IF Ends(p) THEN <<>>
               ELSE SubSeq(j, p + 1, p + GoodRecords(j, p)) \o
                    IF GoodRecords(j, p) = j[p].recs THEN v[Nx(p)] ELSE <<>>
             From(v, d) == /\ v = [p \in 1..(l + 1) |-> v[p]]
                           /\ \A p \in 1..(l + 1) : l + 1 - p < d => v[p] = Body(v, p)
             T == {d \in Nat : \E v : From(v, d)}
  <1>2. ASSUME NEW p \in 1..(l + 1), ~ Ends(p)  PROVE Nx(p) \in (p + 1)..(l + 1)
    <2>1. p \in 1..l /\ j[p].is = "header"
      BY <1>2
    <2>2. p \in Heads(j)
      BY <1>1, <2>1, LenProperties DEF Heads
    <2>3. PICK r \in Nat : r = j[p].recs
      BY <2>2, HeaderIs
    <2>4. p + r <= l
      BY <1>1, <2>1, <2>2, <2>3, TiledIs
    <2> QED  BY <2>1, <2>3, <2>4
  <1>3. 0 \in T
    <2> DEFINE v == [p \in 1..(l + 1) |-> 0]
    <2>1. v = [p \in 1..(l + 1) |-> v[p]]
      OBVIOUS
    <2>2. \A p \in 1..(l + 1) : ~ (l + 1 - p < 0)
      OBVIOUS
    <2> HIDE DEF v, Body
    <2>3. From(v, 0)
      BY <2>1, <2>2
    <2> QED  BY <2>3
  <1>4. ASSUME NEW d \in Nat, d \in T  PROVE d + 1 \in T
    <2>1. PICK v : From(v, d)
      BY <1>4
    <2> DEFINE w == [p \in 1..(l + 1) |-> IF l + 1 - p = d THEN Body(v, p) ELSE v[p]]
    <2>2. w = [p \in 1..(l + 1) |-> w[p]]
      OBVIOUS
    <2>3. ASSUME NEW p \in 1..(l + 1), l + 1 - p < d + 1  PROVE w[p] = Body(w, p)
      <3>1. ~ Ends(p) => w[Nx(p)] = v[Nx(p)]
        <4> SUFFICES ASSUME ~ Ends(p)  PROVE w[Nx(p)] = v[Nx(p)]
          OBVIOUS
        <4>1. Nx(p) \in (p + 1)..(l + 1)
          BY <1>2
        <4>2. PICK y \in 1..(l + 1) : y = Nx(p) /\ l + 1 - y # d
          <5> HIDE DEF Nx, w
          <5> QED  BY <2>3, <4>1
        <4> HIDE DEF Nx, Body
        <4> QED  BY <4>2
      <3>2. Body(w, p) = Body(v, p)
        <4> HIDE DEF w, Ends, Nx
        <4> QED  BY <3>1
      <3> HIDE DEF Body
      <3>3. CASE l + 1 - p = d
        BY <3>2, <3>3
      <3>4. CASE l + 1 - p # d
        <4>1. w[p] = v[p] /\ l + 1 - p < d
          BY <2>3, <3>4
        <4>2. v[p] = Body(v, p)
          BY <2>1, <4>1
        <4> QED  BY <3>2, <4>1, <4>2
      <3> QED  BY <3>3, <3>4
    <2> HIDE DEF w, Body
    <2>4. From(w, d + 1)
      BY <2>2, <2>3
    <2> QED  BY <2>4
  <1> HIDE DEF From
  <1>5. l + 2 \in T
    <2>1. Nat \subseteq T
      BY <1>3, <1>4, Induction
    <2> QED  BY <2>1
  <1>6. PICK v : From(v, l + 2)
    BY <1>5
  <1>7. \A p \in 1..(l + 1) : v[p] = Body(v, p)
    <2> HIDE DEF Body
    <2> QED  BY <1>6 DEF From
  <1>8. v = [p \in 1..(l + 1) |-> v[p]]
    BY <1>6 DEF From
  <1>9. v = [p \in 1..(l + 1) |-> Body(v, p)]
    <2> HIDE DEF Body
    <2> QED  BY <1>7, <1>8
  <1> QED  BY <1>1, <1>9 DEF Plays

(* r has the records of the positions p to n.                              *)
Lists(j, r, p, n) ==
  /\ \A x \in 1..Len(r) : \E i \in p..n : j[i].is = "record" /\ r[x] = j[i]
  /\ \A i \in p..n : j[i].is = "record" => \E x \in 1..Len(r) : r[x] = j[i]

LEMMA ListsTile ==
  ASSUME NEW S, NEW j \in Seq(S), NEW n \in Nat, n <= Len(j),
         NEW p \in 1..n, NEW r \in Nat, p + r <= n, j[p].is # "record",
         \A i \in p + 1 .. p + r : j[i].is = "record",
         NEW b \in Seq(S), Lists(j, b, p + r + 1, n)
  PROVE  /\ SubSeq(j, p + 1, p + r) \o b \in Seq(S)
         /\ Lists(j, SubSeq(j, p + 1, p + r) \o b, p, n)
  <1> DEFINE a == SubSeq(j, p + 1, p + r)
  <1>1. /\ a \in Seq(S) /\ Len(a) = r
        /\ \A x \in 1..r : a[x] = j[p + x]
    <2>1. \A i \in p + 1 .. p + r : j[i] \in S
      <3>1. PICK l \in Nat : l = Len(j)
        BY LenProperties
      <3> QED  BY <3>1, ElementOfSeq
    <2>2. /\ a \in Seq(S)
          /\ Len(a) = IF p + 1 <= p + r THEN (p + r) - (p + 1) + 1 ELSE 0
          /\ \A x \in 1..((p + r) - (p + 1) + 1) : a[x] = j[(p + 1) + x - 1]
      BY <2>1, SubSeqProperties
    <2> QED  BY <2>2
  <1> HIDE DEF a
  <1>2. PICK m \in Nat : m = Len(b)
    BY LenProperties
  <1>3. PICK z : z = a \o b
    OBVIOUS
  <1>4. /\ z \in Seq(S) /\ Len(z) = r + m
        /\ \A x \in 1..(r + m) : z[x] = IF x <= r THEN a[x] ELSE b[x - r]
    <2>0. a \in Seq(S) /\ b \in Seq(S)
      BY <1>1
    <2>1. /\ a \o b \in Seq(S) /\ Len(a \o b) = Len(a) + Len(b)
          /\ \A x \in 1..(Len(a) + Len(b)) :
               (a \o b)[x] = IF x <= Len(a) THEN a[x] ELSE b[x - Len(a)]
      BY <2>0, ConcatProperties, Zenon
    <2> QED  BY <1>1, <1>2, <1>3, <2>1
  <1>5. ASSUME NEW x \in 1..(r + m)
        PROVE  \E i \in p..n : j[i].is = "record" /\ z[x] = j[i]
    <2>1. CASE x <= r
      <3>1. p + x \in p + 1 .. p + r /\ p + x \in p..n
        BY <2>1
      <3>2. z[x] = j[p + x]
        BY <1>1, <1>4, <2>1
      <3> QED  BY <3>1, <3>2
    <2>2. CASE x > r
      <3>1. x - r \in 1..m
        BY <2>2
      <3>2. PICK i \in p + r + 1 .. n : j[i].is = "record" /\ b[x - r] = j[i]
        BY <1>2, <3>1 DEF Lists
      <3>3. i \in p..n
        OBVIOUS
      <3> QED  BY <1>4, <2>2, <3>2, <3>3
    <2> QED  BY <2>1, <2>2
  <1>6. ASSUME NEW i \in p..n, j[i].is = "record"
        PROVE  \E x \in 1..(r + m) : z[x] = j[i]
    <2>1. i # p
      BY <1>6
    <2>2. CASE i <= p + r
      <3>1. PICK x \in 1..r : p + x = i
        <4>1. i - p \in 1..r /\ p + (i - p) = i
          BY <2>1, <2>2
        <4> QED  BY <4>1
      <3>2. x \in 1..(r + m) /\ x <= r
        OBVIOUS
      <3> QED  BY <1>1, <1>4, <3>1, <3>2
    <2>3. CASE i > p + r
      <3>1. i \in p + r + 1 .. n
        BY <2>3
      <3>2. PICK y \in 1..m : b[y] = j[i]
        BY <1>2, <1>6, <3>1 DEF Lists
      <3>3. r + y \in 1..(r + m) /\ ~ (r + y <= r) /\ (r + y) - r = y
        OBVIOUS
      <3>4. z[r + y] = b[y]
        BY <1>4, <3>3
      <3> QED  BY <3>2, <3>3, <3>4
    <2> QED  BY <2>2, <2>3
  <1>7. Lists(j, z, p, n)
    BY <1>4, <1>5, <1>6 DEF Lists
  <1> QED  BY <1>3, <1>4, <1>7 DEF a

(* The records that are played back are those of the tiles.                *)
LEMMA PlayedIs ==
  ASSUME NEW k, NEW j \in Seq(Items(k)), NEW n, Tiled(j, n)
  PROVE  Played(j) \in Seq(Items(k)) /\ Lists(j, Played(j), 1, n)
  <1>1. PICK l \in Nat : l = Len(j) /\ n \in 1..l
    BY TiledIs
  <1>2. PICK v : v = CHOOSE w : Plays(w, j)
    OBVIOUS
  <1>3. Plays(v, j)
    BY <1>2, PlaysExists
  <1>4. Played(j) = v[1]
    BY <1>2 DEF Played, Plays
  <1> DEFINE Done(p) == v[p] \in Seq(Items(k)) /\ Lists(j, v[p], p, n)
             T == {d \in Nat : \A p \in 1..(n + 1) :
                     (p = n + 1 \/ p \in Heads(j)) /\ n + 1 - p <= d => Done(p)}
  <1>5. Done(n + 1)
    <2>1. n + 1 > l \/ j[n + 1].is # "header"
      <3> SUFFICES ASSUME n + 1 <= l, j[n + 1].is = "header"  PROVE FALSE
        BY <1>1
      <3>1. n + 1 \in Heads(j)
        BY <1>1, LenProperties DEF Heads
      <3> QED  BY <1>1, <3>1, TiledIs
    <2>2. v[n + 1] = <<>>
      BY <1>1, <1>3, <2>1 DEF Plays
    <2> QED  BY <1>1, <2>2, EmptySeq DEF Lists
  <1>6. ASSUME NEW p \in Heads(j), Done(p + j[p].recs + 1)  PROVE Done(p)
    <2>1. PICK r \in Nat : r = j[p].recs
      BY TiledIs
    <2>2. /\ p \in 1..n /\ p + r <= n /\ j[p].is = "header"
          /\ \A i \in p + 1 .. p + r : j[i].is = "record"
      BY <2>1, TiledIs, HeaderIs
    <2>3. GoodRecords(j, p) = r
      BY <2>1, GoodRecordsIs
    <2>4. v[p] = SubSeq(j, p + 1, p + r) \o v[p + r + 1]
      <3>1. p \in 1..(l + 1) /\ ~ (p > l)
        BY <1>1, <2>2
      <3> QED  BY <1>1, <1>3, <2>1, <2>2, <2>3, <3>1 DEF Plays
    <2>5. n \in Nat /\ n <= Len(j)
      BY <1>1
    <2>6. PICK b \in Seq(Items(k)) : b = v[p + r + 1] /\ Lists(j, b, p + r + 1, n)
      BY <1>6, <2>1
    <2> HIDE DEF Done
    <2>7. /\ SubSeq(j, p + 1, p + r) \o b \in Seq(Items(k))
          /\ Lists(j, SubSeq(j, p + 1, p + r) \o b, p, n)
      BY <2>2, <2>5, <2>6, ListsTile
    <2> QED  BY <2>4, <2>6, <2>7 DEF Done
  <1>7. 0 \in T
    <2> SUFFICES ASSUME NEW p \in 1..(n + 1), n + 1 - p <= 0  PROVE Done(p)
      OBVIOUS
    <2>1. p = n + 1
      BY <1>1
    <2> HIDE DEF Done
    <2> QED  BY <1>5, <2>1
  <1>8. ASSUME NEW d \in Nat, d \in T  PROVE d + 1 \in T
    <2> HIDE DEF Done
    <2> SUFFICES ASSUME NEW p \in 1..(n + 1), p = n + 1 \/ p \in Heads(j),
                        n + 1 - p <= d + 1
                 PROVE  Done(p)
      OBVIOUS
    <2>1. CASE p = n + 1
      BY <1>5, <2>1
    <2>2. CASE p \in Heads(j)
      <3>1. PICK q : q = p + j[p].recs + 1
        OBVIOUS
      <3>2. q = n + 1 \/ q \in Heads(j)
        BY <2>2, <3>1, NextHeader, TiledIs
      <3>3. q \in 1..(n + 1) /\ n + 1 - q <= d
        <4>1. PICK r \in Nat : r = j[p].recs /\ p + r <= n
          BY <2>2, TiledIs
        <4> QED  BY <1>1, <3>1, <4>1
      <3>4. Done(q)
        BY <1>8, <3>2, <3>3
      <3> QED  BY <1>6, <2>2, <3>1, <3>4
    <2> QED  BY <2>1, <2>2
  <1> HIDE DEF Done
  <1>9. Done(1)
    <2>1. Nat \subseteq T
      BY <1>7, <1>8, Induction
    <2>2. n \in Nat /\ 1 \in 1..(n + 1) /\ n + 1 - 1 <= n
      BY <1>1
    <2>3. 1 \in Heads(j)
      BY DEF Tiled
    <2>4. n \in T
      BY <2>1, <2>2
    <2> QED  BY <2>2, <2>3, <2>4
  <1> QED  BY <1>4, <1>9 DEF Done

-----------------------------------------------------------------------------
(* What a database and its journal show, now and after a power loss *)

(* The records at a to b are of pages 1 to m, and those of c are as in c.  *)
Kept(j, a, b, m, c) ==
  \A i \in a..b : j[i].is = "record" =>
     /\ j[i].page \in 1..m
     /\ j[i].page <= Len(c) => j[i].data = c[j[i].page]

Untouched(e, c, p) ==
  /\ p <= Len(e.db) /\ p <= Len(e.dbSynced)
  /\ e.db[p] = c[p] /\ e.dbSynced[p] = c[p]

Covers(m, c) == Len(c) <= m /\ (c = <<>> => m = 0)

(* No header that would be played back: the database is read as it is.     *)
Cold(e, c) ==
  /\ Heads(e.jrnl) = {} /\ Heads(e.jrnlSynced) = {}
  /\ Good(e.db, c) /\ Good(e.dbSynced, c)

(* Up to which position the records are played back for sure: up to n when *)
(* the last header, at h, is synced, up to the header before it when not.  *)
Sure(e, h, n) == IF h \in Heads(e.jrnlSynced) THEN n ELSE h - 1

(* A journal of n positions whose last header is at h: all but this header *)
(* is synced, and each page of c is either as it was or among the records. *)
Hot(e, c, h, n) ==
  /\ Tiled(e.jrnl, n) /\ h \in Heads(e.jrnl) /\ h + e.jrnl[h].recs = n
  /\ Covers(e.jrnl[1].orig, c)
  /\ Kept(e.jrnl, 1, n, e.jrnl[1].orig, c)
  /\ \A i \in 1..n \ {h} : i <= Len(e.jrnlSynced) /\ e.jrnlSynced[i] = e.jrnl[i]
  /\ \A i \in Heads(e.jrnlSynced) : i <= n /\ e.jrnlSynced[i] = e.jrnl[i]
  /\ c # <<>> => e.db # <<>> /\ e.dbSynced # <<>>
  /\ Sure(e, h, n) = 0 => Good(e.db, c) /\ Good(e.dbSynced, c)
  /\ \A p \in 1..Len(c) : Untouched(e, c, p) \/ Holds(e.jrnl, Sure(e, h, n), p)

Shows(e, c) == Cold(e, c) \/ \E h, n \in 1..Len(e.jrnl) : Hot(e, c, h, n)

LEMMA FileTypes ==
  ASSUME NEW k, NEW e \in FileStates(k)
  PROVE  /\ e.db \in Seq(Pages(k)) /\ e.dbSynced \in Seq(Pages(k))
         /\ e.jrnl \in Seq(Items(k)) /\ e.jrnlSynced \in Seq(Items(k))
         /\ Len(e.db) \in Nat /\ Len(e.dbSynced) \in Nat
         /\ Len(e.jrnl) \in Nat /\ Len(e.jrnlSynced) \in Nat
  <1>1. /\ e.db \in Seq(Pages(k)) /\ e.dbSynced \in Seq(Pages(k))
        /\ e.jrnl \in Seq(Items(k)) /\ e.jrnlSynced \in Seq(Items(k))
    BY DEF FileStates
  <1> QED  BY <1>1, LenProperties

LEMMA RecordIs ==
  ASSUME NEW k, NEW x \in Items(k), x.is = "record"
  PROVE  x.page \in Nat \ {0} /\ x.data \in Pages(k)
  BY DEF Items, Zero, JunkItem

(* z is f with the pages of the records r.                                 *)
Undoes(z, f, r) ==
  \A i \in 1..Len(f) :
    \/ \E x \in 1..Len(r) : r[x].page = i /\ z[i] = r[x].data
    \/ (\A x \in 1..Len(r) : r[x].page # i) /\ z[i] = f[i]

LEMMA RestoredIs ==
  ASSUME NEW k, NEW f \in Seq(Pages(k)), NEW r \in Seq(Items(k)),
         \A x \in 1..Len(r) : r[x].is = "record"
  PROVE  /\ Restored(f, r) \in Seq(Pages(k))
         /\ Len(Restored(f, r)) = Len(f)
         /\ Undoes(Restored(f, r), f, r)
  <1>1. PICK n \in Nat : n = Len(f) /\ DOMAIN f = 1..n
    BY LenProperties
  <1>2. PICK m \in Nat : m = Len(r) /\ DOMAIN r = 1..m
    BY LenProperties
  <1> DEFINE At(i) == CHOOSE x \in 1..m : r[x].page = i
             z == [i \in 1..n |-> IF \E x \in 1..m : r[x].page = i
                                  THEN r[At(i)].data ELSE f[i]]
  <1>3. Restored(f, r) = z
    BY <1>1, <1>2 DEF Restored
  <1>4. ASSUME NEW i \in 1..n
        PROVE  /\ z[i] \in Pages(k)
               /\ \/ \E x \in 1..m : r[x].page = i /\ z[i] = r[x].data
                  \/ (\A x \in 1..m : r[x].page # i) /\ z[i] = f[i]
    <2>1. CASE \E x \in 1..m : r[x].page = i
      <3>1. At(i) \in 1..m /\ r[At(i)].page = i
        BY <2>1
      <3>2. PICK x \in 1..m : x = At(i) /\ r[x].page = i
        BY <3>1
      <3>3. z[i] = r[x].data
        BY <2>1, <3>2
      <3>4. r[x] \in Items(k)
        BY <1>2, <3>2, ElementOfSeq
      <3>5. r[x].data \in Pages(k)
        BY <1>2, <3>4, RecordIs
      <3> HIDE DEF z, At
      <3> QED  BY <3>2, <3>3, <3>5
    <2>2. CASE ~ \E x \in 1..m : r[x].page = i
      <3>1. z[i] = f[i]
        BY <2>2
      <3>2. f[i] \in Pages(k)
        BY <1>1, ElementOfSeq
      <3> HIDE DEF z
      <3> QED  BY <2>2, <3>1, <3>2
    <2> QED  BY <2>1, <2>2
  <1>5. z = [i \in 1..n |-> z[i]]
    OBVIOUS
  <1> HIDE DEF z
  <1>6. z \in [1..n -> Pages(k)]
    BY <1>4, <1>5
  <1>7. z \in Seq(Pages(k)) /\ Len(z) = n
    BY <1>6, FunctionIsSeq
  <1> QED  BY <1>1, <1>2, <1>3, <1>4, <1>7 DEF Undoes

LEMMA NoHead ==
  ASSUME NEW k, NEW j \in Seq(Items(k)), Heads(j) = {}
  PROVE  j = <<>> \/ j[1].is # "header"
  <1>1. PICK n \in Nat : n = Len(j) /\ DOMAIN j = 1..n
    BY LenProperties
  <1>2. n = 0 => j = <<>>
    BY <1>1, EmptyIff
  <1>3. n # 0 => 1 \in DOMAIN j
    BY <1>1
  <1> QED  BY <1>2, <1>3 DEF Heads

LEMMA JunkIsPage ==
  ASSUME NEW k  PROVE Junk \in Pages(k)
  BY DEF Pages

LEMMA SureIs ==
  ASSUME NEW k, NEW e \in FileStates(k), NEW c, NEW h, NEW n, Hot(e, c, h, n)
  PROVE  /\ n \in Nat /\ h \in 1..n /\ n <= Len(e.jrnl) /\ e.jrnl[1].orig \in Nat
         /\ Sure(e, h, n) \in 0..n
  <1>1. e.jrnl \in Seq(Items(k))
    BY FileTypes
  <1>2. Tiled(e.jrnl, n) /\ h \in Heads(e.jrnl) /\ 1 \in Heads(e.jrnl)
    BY DEF Hot, Tiled
  <1>3. n \in Nat /\ h \in 1..n /\ n <= Len(e.jrnl)
    BY <1>1, <1>2, TiledIs
  <1>4. e.jrnl[1].orig \in Nat
    BY <1>1, <1>2, HeaderIs
  <1> QED  BY <1>3, <1>4 DEF Sure

LEMMA HotIsPlayed ==
  ASSUME NEW k, NEW e \in FileStates(k), NEW c \in Saved, NEW h, NEW n,
         Hot(e, c, h, n)
  PROVE  /\ Played(e.jrnl) \in Seq(Items(k))
         /\ \A x \in 1..Len(Played(e.jrnl)) : Played(e.jrnl)[x].is = "record"
         /\ Kept(Played(e.jrnl), 1, Len(Played(e.jrnl)), e.jrnl[1].orig, c)
         /\ \A p \in 1..Len(c) : \/ p <= Len(e.db) /\ e.db[p] = c[p]
                                 \/ Holds(Played(e.jrnl), Len(Played(e.jrnl)), p)
  <1>1. e.jrnl \in Seq(Items(k)) /\ Tiled(e.jrnl, n)
    BY FileTypes DEF Hot
  <1>2. PICK r \in Seq(Items(k)) : r = Played(e.jrnl) /\ Lists(e.jrnl, r, 1, n)
    BY <1>1, PlayedIs
  <1>3. \A x \in 1..Len(r) : r[x].is = "record"
    BY <1>2 DEF Lists
  <1>4. Kept(r, 1, Len(r), e.jrnl[1].orig, c)
    <2>1. Kept(e.jrnl, 1, n, e.jrnl[1].orig, c)
      BY DEF Hot
    <2> QED  BY <1>2, <2>1 DEF Kept, Lists
  <1>5. ASSUME NEW p \in 1..Len(c), ~ Holds(r, Len(r), p)
        PROVE  p <= Len(e.db) /\ e.db[p] = c[p]
    <2>1. PICK s \in 0..n : s = Sure(e, h, n)
      BY SureIs
    <2>2. ~ Holds(e.jrnl, s, p)
      <3> SUFFICES ASSUME NEW i \in 1..s, e.jrnl[i].is = "record", e.jrnl[i].page = p
                   PROVE  FALSE
        BY DEF Holds
      <3>1. i \in 1..n
        BY SureIs
      <3>2. PICK x \in 1..Len(r) : r[x] = e.jrnl[i]
        BY <1>2, <3>1 DEF Lists
      <3> QED  BY <1>5, <3>2 DEF Holds
    <2>3. Untouched(e, c, p)
      BY <2>1, <2>2 DEF Hot
    <2> QED  BY <2>3 DEF Untouched
  <1> QED  BY <1>2, <1>3, <1>4, <1>5

(* Files that show c are read as c.                                        *)
LEMMA ViewIs ==
  ASSUME NEW k, NEW e \in FileStates(k), NEW c \in Saved, Shows(e, c)
  PROVE  View(e.db, e.jrnl) = c
  <1>1. e.db \in Seq(Pages(k)) /\ e.jrnl \in Seq(Items(k))
    BY FileTypes
  <1>2. CASE Cold(e, c)
    <2>1. View(e.db, e.jrnl) = Seen(e.db)
      BY <1>1, <1>2, NoHead DEF Cold, View
    <2> QED  BY <1>1, <1>2, <2>1, SeenIs DEF Cold
  <1>3. ASSUME NEW h, NEW n, Hot(e, c, h, n)  PROVE View(e.db, e.jrnl) = c
    <2>1. PICK m \in Nat : m = e.jrnl[1].orig
      BY <1>3, SureIs
    <2>2. e.jrnl # <<>> /\ e.jrnl[1].is = "header"
      <3>1. 1 \in Heads(e.jrnl)
        BY <1>3 DEF Hot, Tiled
      <3>2. e.jrnl # <<>>
        BY <1>1, <3>1, HeaderIs, EmptySeq
      <3> QED  BY <3>1, <3>2 DEF Heads
    <2>3. CASE e.db = <<>>
      <3>1. c = <<>>
        BY <1>3, <2>3 DEF Hot
      <3> QED  BY <2>3, <3>1 DEF View, Seen
    <2>4. CASE e.db # <<>>
      <3>1. PICK r \in Seq(Items(k)) :
              /\ r = Played(e.jrnl)
              /\ \A x \in 1..Len(r) : r[x].is = "record"
              /\ Kept(r, 1, Len(r), m, c)
              /\ \A p \in 1..Len(c) : \/ p <= Len(e.db) /\ e.db[p] = c[p]
                                      \/ Holds(r, Len(r), p)
        BY <1>3, <2>1, HotIsPlayed
      <3> DEFINE d == Resized(e.db, m)
                 z == Restored(d, r)
      <3>2. /\ d \in Seq(Pages(k)) /\ d = Cut(e.db, e.jrnl) /\ Len(d) = m
            /\ \A i \in 1..m : i <= Len(e.db) => d[i] = e.db[i]
        <4>1. Junk \in Pages(k)
          BY JunkIsPage
        <4>2. /\ d \in Seq(Pages(k)) /\ Len(d) = m
              /\ \A i \in 1..m : i <= Len(e.db) => d[i] = e.db[i]
          BY <1>1, <4>1, ResizedIs
        <4> QED  BY <2>1, <4>2 DEF Cut
      <3> HIDE DEF d
      <3>3. /\ z \in Seq(Pages(k)) /\ Len(z) = m
            /\ \A i \in 1..m :
                 \/ \E x \in 1..Len(r) : r[x].page = i /\ z[i] = r[x].data
                 \/ (\A x \in 1..Len(r) : r[x].page # i) /\ z[i] = d[i]
        <4>1. /\ d \in Seq(Pages(k)) /\ r \in Seq(Items(k))
              /\ \A x \in 1..Len(r) : r[x].is = "record"
          BY <3>1, <3>2
        <4> HIDE DEF z
        <4>2. z \in Seq(Pages(k)) /\ Len(z) = Len(d) /\ Undoes(z, d, r)
          BY <4>1, RestoredIs DEF z
        <4> QED  BY <3>2, <4>2 DEF Undoes
      <3> HIDE DEF z
      <3>4. PICK l \in Nat : l = Len(c) /\ l <= m /\ (c = <<>> => m = 0)
        BY <1>3, <2>1, SavedIs DEF Hot, Covers
      <3>5. ASSUME NEW i \in 1..l  PROVE z[i] = c[i]
        <4>1. i \in 1..m
          BY <3>4
        <4>2. CASE \E x \in 1..Len(r) : r[x].page = i /\ z[i] = r[x].data
          BY <3>1, <3>4, <4>2 DEF Kept
        <4>3. CASE (\A x \in 1..Len(r) : r[x].page # i) /\ z[i] = d[i]
          <5>1. ~ Holds(r, Len(r), i)
            BY <4>3 DEF Holds
          <5> QED  BY <3>1, <3>2, <3>4, <4>1, <4>3, <5>1
        <4> QED  BY <3>3, <4>1, <4>2, <4>3
      <3>6. Good(z, c)
        <4>1. m = 0 => z = <<>>
          BY <3>3, EmptySeq
        <4> QED  BY <3>3, <3>4, <3>5, <4>1 DEF Good
      <3>7. View(e.db, e.jrnl) = Seen(z)
        BY <2>2, <2>4, <3>1, <3>2 DEF View, z
      <3> QED  BY <3>3, <3>6, <3>7, SeenIs
    <2> QED  BY <2>3, <2>4
  <1> QED  BY <1>2, <1>3 DEF Shows

LEMMA LeftBoth ==
  ASSUME NEW S, NEW s \in Seq(S), NEW now \in Seq(S), NEW junk \in S,
         NEW f \in Left(s, now, junk),
         NEW i \in 1..Len(s), i <= Len(now), s[i] = now[i]
  PROVE  i \in 1..Len(f) /\ f[i] = now[i]
  <1>1. PICK a \in Nat, b \in Nat : a = Len(s) /\ b = Len(now)
    BY LenProperties
  <1>2. /\ f \in Seq(S) /\ (Len(s) <= Len(f) \/ Len(now) <= Len(f))
        /\ Mixes(f, s, now, junk)
    BY LeftIs
  <1>3. PICK l \in Nat : l = Len(f)
    BY <1>2, LenProperties
  <1>4. i \in 1..l
    BY <1>1, <1>2, <1>3
  <1> QED  BY <1>2, <1>3, <1>4 DEF Mixes

LEMMA LeftGood ==
  ASSUME NEW S, NEW s \in Seq(S), NEW now \in Seq(S), NEW junk \in S,
         NEW f \in Left(s, now, junk), NEW c \in Saved, Good(s, c), Good(now, c)
  PROVE  Good(f, c)
  <1>1. PICK a \in Nat, b \in Nat, m \in Nat : a = Len(s) /\ b = Len(now) /\ m = Len(c)
    BY LenProperties, SavedIs
  <1>2. /\ f \in Seq(S)
        /\ Len(s) <= Len(f) \/ Len(now) <= Len(f)
        /\ Len(f) <= Len(s) \/ Len(f) <= Len(now)
    BY LeftIs
  <1>3. PICK l \in Nat : l = Len(f)
    BY <1>2, LenProperties
  <1>4. m <= a /\ m <= b /\ m <= l
    BY <1>1, <1>2, <1>3 DEF Good
  <1>5. ASSUME NEW i \in 1..m  PROVE f[i] = c[i]
    <2>1. i \in 1..Len(s) /\ i <= Len(now)
      BY <1>1, <1>4
    <2>2. s[i] = c[i] /\ now[i] = c[i]
      BY <1>1 DEF Good
    <2>3. f[i] = now[i]
      BY <2>1, <2>2, LeftBoth
    <2> QED  BY <2>2, <2>3
  <1>6. ASSUME c = <<>>  PROVE f = <<>>
    <2>1. a = 0 /\ b = 0
      BY <1>1, <1>6, EmptyIff DEF Good
    <2>2. l = 0
      BY <1>1, <1>2, <1>3, <2>1
    <2> QED  BY <1>2, <1>3, <2>2, EmptyIff
  <1> QED  BY <1>1, <1>3, <1>4, <1>5, <1>6 DEF Good

LEMMA LeftHead ==
  ASSUME NEW k, NEW s \in Seq(Items(k)), NEW now \in Seq(Items(k)),
         NEW j \in Left(s, now, JunkItem), NEW h \in Heads(j)
  PROVE  \/ h \in Heads(s) /\ j[h] = s[h]
         \/ h \in Heads(now) /\ j[h] = now[h]
  <1>1. PICK a \in Nat, b \in Nat :
          a = Len(s) /\ b = Len(now) /\ DOMAIN s = 1..a /\ DOMAIN now = 1..b
    BY LenProperties
  <1>2. j \in Seq(Items(k)) /\ Mixes(j, s, now, JunkItem)
    <2>1. JunkItem \in Items(k)
      BY DEF Items
    <2> QED  BY <2>1, LeftIs
  <1>3. h \in 1..Len(j) /\ j[h].is = "header" /\ h \in Nat /\ h >= 1
    <2>1. h \in 1..Len(j) /\ j[h].is = "header"
      BY <1>2, HeaderIs
    <2>2. Len(j) \in Nat
      BY <1>2, LenProperties
    <2> QED  BY <2>1, <2>2
  <1>4. j[h] # JunkItem
    BY <1>3 DEF JunkItem
  <1>5. (h <= a /\ j[h] = s[h]) \/ (h <= b /\ j[h] = now[h])
    BY <1>1, <1>2, <1>3, <1>4 DEF Mixes
  <1> QED  BY <1>1, <1>3, <1>5 DEF Heads

(* The last header, and the one before it.                                 *)
LEMMA LastHead ==
  ASSUME NEW k, NEW j \in Seq(Items(k)), NEW n, Tiled(j, n),
         NEW h \in Heads(j), h + j[h].recs = n
  PROVE  /\ \A g \in Heads(j) : g # h => g < h /\ g + j[g].recs <= h - 1
         /\ h # 1 => \E g \in Heads(j) : g # h /\ g + j[g].recs = h - 1
  <1>1. /\ n \in Nat /\ n >= 1
        /\ \A g \in Heads(j) :
             /\ g \in 1..n /\ j[g].recs \in Nat /\ g + j[g].recs <= n
             /\ \A i \in g + 1 .. g + j[g].recs : j[i].is = "record"
    BY TiledIs
  <1>2. PICK r \in Nat : r = j[h].recs
    BY <1>1
  <1>3. h \in 1..n /\ h + r = n /\ \A i \in h + 1 .. n : j[i].is = "record"
    BY <1>1, <1>2
  <1>4. \A g \in Heads(j) : j[g].is = "header"
    BY DEF Heads
  <1>5. ASSUME NEW g \in Heads(j), g # h  PROVE g < h /\ g + j[g].recs <= h - 1
    <2>1. PICK q \in Nat : q = j[g].recs
      BY <1>1
    <2>2. g \in 1..n /\ \A i \in g + 1 .. g + q : j[i].is = "record"
      BY <1>1, <2>1
    <2>3. g \notin h + 1 .. n
      BY <1>3, <1>4
    <2>4. h \notin g + 1 .. g + q
      BY <1>4, <2>2
    <2> QED  BY <1>3, <1>5, <2>1, <2>2, <2>3, <2>4
  <1>6. ASSUME h # 1  PROVE \E g \in Heads(j) : g # h /\ g + j[g].recs = h - 1
    <2>1. h - 1 \in 1..n
      BY <1>3, <1>6
    <2>2. CASE h - 1 \in Heads(j)
      <3>1. PICK g \in Heads(j) : g = h - 1
        BY <2>2
      <3>2. PICK q \in Nat : q = j[g].recs /\ g + q <= h - 1
        BY <1>1, <1>3, <1>5, <3>1
      <3> QED  BY <1>3, <3>1, <3>2
    <2>3. CASE h - 1 \notin Heads(j)
      <3>1. PICK g \in Heads(j) : h - 1 \in g + 1 .. g + j[g].recs
        BY <2>1, <2>3 DEF Tiled, Under
      <3>2. PICK q \in Nat : q = j[g].recs
        BY <1>1
      <3>3. g \in 1..n
        BY <1>1
      <3>4. g # h
        BY <1>3, <3>1, <3>2, <3>3
      <3>5. g + q <= h - 1
        BY <1>5, <3>2, <3>4
      <3>6. h - 1 <= g + q
        BY <1>3, <3>1, <3>2, <3>3
      <3>7. g + q = h - 1
        BY <1>3, <3>2, <3>3, <3>5, <3>6
      <3> QED  BY <3>2, <3>4, <3>7
    <2> QED  BY <2>2, <2>3
  <1> QED  BY <1>5, <1>6

(* The files after a power loss that left d and j of them.                 *)
Disk(d, j) == [db |-> d, dbSynced |-> d, jrnl |-> j, jrnlSynced |-> j]

LEMMA DiskIs ==
  ASSUME NEW k, NEW e \in FileStates(k),
         NEW d \in Left(e.dbSynced, e.db, Junk),
         NEW j \in Left(e.jrnlSynced, e.jrnl, JunkItem)
  PROVE  /\ Disk(d, j) \in FileStates(k)
         /\ Disk(d, j).db = d /\ Disk(d, j).dbSynced = d
         /\ Disk(d, j).jrnl = j /\ Disk(d, j).jrnlSynced = j
  <1>1. d \in Seq(Pages(k))
    BY FileTypes, JunkIsPage, LeftIs
  <1>2. JunkItem \in Items(k)
    BY DEF Items
  <1>3. j \in Seq(Items(k))
    BY <1>2, FileTypes, LeftIs
  <1> QED  BY <1>1, <1>3 DEF Disk, FileStates

(* What the headers of a journal and the positions below them become.      *)
LEMMA HotLeft ==
  ASSUME NEW k, NEW e \in FileStates(k), NEW c \in Saved, NEW h, NEW n,
         Hot(e, c, h, n), NEW j \in Left(e.jrnlSynced, e.jrnl, JunkItem)
  PROVE  /\ j \in Seq(Items(k))
         /\ \A i \in 1..n : i # h => i \in 1..Len(j) /\ j[i] = e.jrnl[i]
         /\ Heads(j) \subseteq Heads(e.jrnl)
         /\ \A g \in Heads(j) : j[g] = e.jrnl[g]
         /\ \A g \in Heads(e.jrnl) : g # h => g \in Heads(j)
         /\ h \in Heads(e.jrnlSynced) => h \in Heads(j)
  <1>1. /\ e.jrnl \in Seq(Items(k)) /\ e.jrnlSynced \in Seq(Items(k))
        /\ JunkItem \in Items(k)
    BY FileTypes DEF Items
  <1>2. PICK a \in Nat, b \in Nat :
          /\ a = Len(e.jrnlSynced) /\ b = Len(e.jrnl)
          /\ DOMAIN e.jrnlSynced = 1..a /\ DOMAIN e.jrnl = 1..b
    BY <1>1, LenProperties
  <1>3. j \in Seq(Items(k))
    BY <1>1, LeftIs
  <1>4. /\ n \in Nat /\ h \in 1..n /\ n <= b
        /\ \A g \in Heads(e.jrnl) : g \in 1..n
    <2>1. Tiled(e.jrnl, n)
      BY DEF Hot
    <2> QED  BY <1>1, <1>2, <2>1, SureIs, TiledIs
  <1>5. \A i \in 1..n : i # h => i <= a /\ e.jrnlSynced[i] = e.jrnl[i]
    BY <1>2 DEF Hot
  <1>6. \A i \in Heads(e.jrnlSynced) : i \in 1..n /\ e.jrnlSynced[i] = e.jrnl[i]
    BY <1>1, HeaderIs DEF Hot
  <1>7. ASSUME NEW i \in 1..n, i <= a, e.jrnlSynced[i] = e.jrnl[i]
        PROVE  i \in 1..Len(j) /\ j[i] = e.jrnl[i]
    <2>1. i \in 1..Len(e.jrnlSynced) /\ i <= Len(e.jrnl)
      BY <1>2, <1>4, <1>7
    <2> QED  BY <1>1, <1>7, <2>1, LeftBoth
  <1>8. \A i \in 1..n : i # h => i \in 1..Len(j) /\ j[i] = e.jrnl[i]
    BY <1>5, <1>7
  <1>9. \A i \in Heads(e.jrnlSynced) :
          i \in 1..n /\ i <= a /\ e.jrnlSynced[i] = e.jrnl[i] /\ e.jrnl[i].is = "header"
    BY <1>2, <1>6 DEF Heads
  <1>10. ASSUME NEW g \in Heads(j)
         PROVE  g \in Heads(e.jrnl) /\ j[g] = e.jrnl[g]
    <2>1. CASE g \in Heads(e.jrnl) /\ j[g] = e.jrnl[g]
      BY <2>1
    <2>2. CASE g \in Heads(e.jrnlSynced) /\ j[g] = e.jrnlSynced[g]
      <3>1. g \in 1..n /\ j[g] = e.jrnl[g] /\ e.jrnl[g].is = "header"
        BY <1>9, <2>2
      <3> QED  BY <1>2, <1>4, <3>1 DEF Heads
    <2> QED  BY <1>1, <2>1, <2>2, LeftHead
  <1>11. DOMAIN j = 1..Len(j)
    BY <1>3, LenProperties
  <1>12. \A g \in Heads(e.jrnl) : g # h => g \in Heads(j)
    BY <1>4, <1>8, <1>11 DEF Heads
  <1>13. h \in Heads(e.jrnlSynced) => h \in Heads(j)
    BY <1>7, <1>9, <1>11 DEF Heads
  <1> QED  BY <1>3, <1>8, <1>10, <1>12, <1>13

LEMMA ColdLeft ==
  ASSUME NEW k, NEW e \in FileStates(k), NEW c \in Saved, Cold(e, c),
         NEW d \in Left(e.dbSynced, e.db, Junk),
         NEW j \in Left(e.jrnlSynced, e.jrnl, JunkItem)
  PROVE  Cold(Disk(d, j), c)
  <1>1. Heads(j) = {}
    <2>1. ASSUME NEW g \in Heads(j)  PROVE FALSE
      BY <2>1, FileTypes, LeftHead DEF Cold
    <2> QED  BY <2>1
  <1>2. Good(d, c)
    BY FileTypes, JunkIsPage, LeftGood DEF Cold
  <1> QED  BY <1>1, <1>2, DiskIs DEF Cold

(* The journal up to position m, the end of the records of the header g.   *)
LEMMA TiledLeft ==
  ASSUME NEW k, NEW a \in Seq(Items(k)), NEW j \in Seq(Items(k)),
         NEW n, Tiled(a, n), NEW m \in 1..n,
         \A i \in 1..m : i \in 1..Len(j) /\ j[i] = a[i],
         \A g \in Heads(j) : g \in Heads(a) /\ g + a[g].recs <= m
  PROVE  Tiled(j, m)
  <1>1. /\ n \in Nat /\ m \in 1..Len(j)
        /\ \A g \in Heads(a) :
             /\ g \in 1..n /\ a[g].recs \in Nat /\ g + a[g].recs <= n
             /\ \A i \in g + 1 .. g + a[g].recs : a[i].is = "record"
    <2>1. m \in 1..m
      BY TiledIs
    <2> QED  BY <2>1, TiledIs
  <1>2. DOMAIN j = 1..Len(j)
    BY LenProperties
  <1>3. \A i \in 1..m : i \in Heads(a) => i \in Heads(j)
    BY <1>2 DEF Heads
  <1>4. 1 \in Heads(j)
    BY <1>1, <1>3 DEF Tiled
  <1>5. ASSUME NEW g \in Heads(j)
        PROVE  /\ g + j[g].recs <= m
               /\ \A i \in g + 1 .. g + j[g].recs : j[i].is = "record"
    <2>1. PICK r \in Nat : r = a[g].recs /\ g + r <= m
      BY <1>1
    <2>2. g \in 1..m
      BY <1>1, <2>1
    <2>3. j[g].recs = r
      BY <2>1, <2>2
    <2>4. \A i \in g + 1 .. g + r : i \in 1..m /\ a[i].is = "record"
      BY <1>1, <2>1, <2>2
    <2> QED  BY <2>1, <2>3, <2>4
  <1>6. ASSUME NEW i \in 1..m
        PROVE  i \in Heads(j) \/ \E g \in Heads(j) : i \in g + 1 .. g + j[g].recs
    <2>1. CASE i \in Heads(a)
      BY <1>3, <2>1
    <2>2. CASE i \notin Heads(a)
      <3>1. PICK g \in Heads(a) : i \in g + 1 .. g + a[g].recs
        <4>1. i \in 1..n
          BY <1>1
        <4> QED  BY <2>2, <4>1 DEF Tiled, Under
      <3>2. g \in 1..m
        BY <1>1, <3>1
      <3>3. g \in Heads(j) /\ j[g] = a[g]
        BY <1>3, <3>2
      <3> QED  BY <3>1, <3>3
    <2> QED  BY <2>1, <2>2
  <1> QED  BY <1>1, <1>4, <1>5, <1>6 DEF Tiled, Under

(* After a power loss the files show what they showed before.              *)
LEMMA ShowsLeft ==
  ASSUME NEW k, NEW e \in FileStates(k), NEW c \in Saved, Shows(e, c),
         NEW d \in Left(e.dbSynced, e.db, Junk),
         NEW j \in Left(e.jrnlSynced, e.jrnl, JunkItem)
  PROVE  Shows(Disk(d, j), c)
  <1>1. CASE Cold(e, c)
    BY <1>1, ColdLeft DEF Shows
  <1>2. ASSUME NEW h, NEW n, Hot(e, c, h, n)  PROVE Shows(Disk(d, j), c)
    <2>1. PICK x : x = Disk(d, j)
      OBVIOUS
    <2>2. /\ x \in FileStates(k)
          /\ x.db = d /\ x.dbSynced = d /\ x.jrnl = j /\ x.jrnlSynced = j
      BY <2>1, DiskIs
    <2>3. /\ j \in Seq(Items(k))
          /\ \A i \in 1..n : i # h => i \in 1..Len(j) /\ j[i] = e.jrnl[i]
          /\ Heads(j) \subseteq Heads(e.jrnl)
          /\ \A g \in Heads(j) : j[g] = e.jrnl[g]
          /\ \A g \in Heads(e.jrnl) : g # h => g \in Heads(j)
          /\ h \in Heads(e.jrnlSynced) => h \in Heads(j)
      BY <1>2, HotLeft
    <2>4. /\ e.jrnl \in Seq(Items(k)) /\ Tiled(e.jrnl, n) /\ h \in Heads(e.jrnl)
          /\ h + e.jrnl[h].recs = n /\ 1 \in Heads(e.jrnl)
          /\ n \in Nat /\ h \in 1..n
          /\ \A g \in Heads(e.jrnl) : e.jrnl[g].recs \in Nat /\ g + e.jrnl[g].recs <= n
      <3>1. /\ e.jrnl \in Seq(Items(k)) /\ Tiled(e.jrnl, n) /\ h \in Heads(e.jrnl)
            /\ h + e.jrnl[h].recs = n
        BY <1>2, FileTypes DEF Hot
      <3>2. n \in Nat /\ h \in 1..n
        BY <1>2, SureIs
      <3>3. 1 \in Heads(e.jrnl)
        BY <3>1 DEF Tiled
      <3>4. \A g \in Heads(e.jrnl) : e.jrnl[g].recs \in Nat /\ g + e.jrnl[g].recs <= n
        BY <3>1, TiledIs
      <3> QED  BY <3>1, <3>2, <3>3, <3>4
    <2>5. /\ \A g \in Heads(e.jrnl) : g # h => g < h /\ g + e.jrnl[g].recs <= h - 1
          /\ h # 1 => \E g \in Heads(e.jrnl) : g # h /\ g + e.jrnl[g].recs = h - 1
      BY <2>4, LastHead
    <2>6. DOMAIN j = 1..Len(j) /\ Len(j) \in Nat
      BY <2>3, LenProperties
    <2>7. \A p \in 1..Len(c) : Untouched(e, c, p) => d[p] = c[p] /\ p <= Len(d)
      <3> SUFFICES ASSUME NEW p \in 1..Len(c), Untouched(e, c, p)
                   PROVE  d[p] = c[p] /\ p <= Len(d)
        OBVIOUS
      <3>1. /\ p \in 1..Len(e.dbSynced) /\ p <= Len(e.db)
            /\ e.dbSynced[p] = e.db[p] /\ e.db[p] = c[p]
        BY FileTypes, SavedIs DEF Untouched
      <3>2. p \in 1..Len(d) /\ d[p] = e.db[p]
        BY <3>1, FileTypes, JunkIsPage, LeftBoth
      <3>3. Len(d) \in Nat
        BY FileTypes, JunkIsPage, LeftIs, LenProperties
      <3> QED  BY <3>1, <3>2, <3>3
    <2>8. c # <<>> => d # <<>>
      <3> SUFFICES ASSUME c # <<>>  PROVE d # <<>>
        OBVIOUS
      <3>1. PICK a \in Nat, b \in Nat : a = Len(e.dbSynced) /\ b = Len(e.db)
        BY FileTypes
      <3>2. a # 0 /\ b # 0
        BY <1>2, <3>1, FileTypes, EmptyIff DEF Hot
      <3>3. d \in Seq(Pages(k)) /\ (Len(e.dbSynced) <= Len(d) \/ Len(e.db) <= Len(d))
        BY FileTypes, JunkIsPage, LeftIs
      <3>4. Len(d) # 0
        BY <3>1, <3>2, <3>3, LenProperties
      <3> QED  BY <3>3, <3>4, EmptyIff
    <2>9. CASE h \in Heads(j)
      <3>1. \A i \in 1..n : i \in 1..Len(j) /\ j[i] = e.jrnl[i]
        BY <2>3, <2>6, <2>9 DEF Heads
      <3>2. n \in 1..n
        BY <2>4
      <3>3. Tiled(j, n)
        BY <2>3, <2>4, <3>1, <3>2, TiledLeft
      <3>4. j[1] = e.jrnl[1] /\ j[h] = e.jrnl[h] /\ n \in 1..Len(j) /\ h \in 1..Len(j)
        BY <2>4, <3>1, <3>2
      <3>5. Sure(x, h, n) = n /\ n # 0
        BY <2>2, <2>4, <2>9 DEF Sure
      <3>6. Kept(j, 1, n, j[1].orig, c)
        BY <1>2, <3>1, <3>4 DEF Hot, Kept
      <3>7. \A i \in Heads(j) : i <= n
        BY <3>3, <2>3, TiledIs
      <3>8. \A i \in 1..n \ {h} : i <= Len(j)
        BY <2>6, <3>1
      <3>9. ASSUME NEW p \in 1..Len(c)  PROVE Untouched(x, c, p) \/ Holds(j, n, p)
        <4>1. CASE Untouched(e, c, p)
          BY <2>2, <2>7, <4>1 DEF Untouched
        <4>2. CASE Holds(e.jrnl, Sure(e, h, n), p)
          <5>1. PICK s \in 0..n : s = Sure(e, h, n)
            BY <1>2, SureIs
          <5>2. PICK i \in 1..s : e.jrnl[i].is = "record" /\ e.jrnl[i].page = p
            BY <4>2, <5>1 DEF Holds
          <5>3. i \in 1..n
            BY <2>4
          <5> QED  BY <3>1, <5>2, <5>3 DEF Holds
        <4> QED  BY <1>2, <4>1, <4>2 DEF Hot
      <3>10. Hot(x, c, h, n)
        BY <1>2, <2>2, <2>4, <2>8, <2>9, <3>3, <3>4, <3>5, <3>6, <3>7, <3>8, <3>9 DEF Hot
      <3> QED  BY <2>1, <2>2, <3>4, <3>10 DEF Shows
    <2>10. CASE h \notin Heads(j) /\ h = 1
      <3>1. Heads(j) = {}
        <4>1. \A g \in Heads(j) : g # h /\ g < h /\ g \in Nat /\ g >= 1
          <5> SUFFICES ASSUME NEW g \in Heads(j)  PROVE g # h /\ g < h /\ g \in Nat /\ g >= 1
            OBVIOUS
          <5>1. g \in 1..Len(j)
            BY <2>6 DEF Heads
          <5> QED  BY <2>3, <2>5, <2>6, <2>10, <5>1
        <4> QED  BY <2>10, <4>1
      <3>2. Sure(e, h, n) = 0
        BY <2>3, <2>10 DEF Sure
      <3>3. Good(d, c)
        BY <1>2, <3>2, FileTypes, JunkIsPage, LeftGood DEF Hot
      <3> QED  BY <2>1, <2>2, <3>1, <3>3 DEF Cold, Shows
    <2>11. CASE h \notin Heads(j) /\ h # 1
      <3>1. PICK g \in Heads(e.jrnl) : g # h /\ g + e.jrnl[g].recs = h - 1
        BY <2>5, <2>11
      <3>2. g \in Heads(j) /\ j[g] = e.jrnl[g]
        BY <2>3, <3>1
      <3>3. PICK m \in 1..n : m = h - 1
        BY <2>4, <2>11
      <3>4. \A i \in 1..m : i \in 1..Len(j) /\ j[i] = e.jrnl[i]
        BY <2>3, <2>4, <3>3
      <3>5. \A i \in Heads(j) : i \in Heads(e.jrnl) /\ i + e.jrnl[i].recs <= m
        BY <2>3, <2>5, <2>11, <3>3
      <3>6. Tiled(j, m)
        BY <2>3, <2>4, <3>4, <3>5, TiledLeft
      <3>7. j[1] = e.jrnl[1] /\ m \in 1..Len(j) /\ g \in 1..Len(j)
        <4>1. 1 \in 1..m /\ m \in 1..m
          BY <2>4, <3>3
        <4> QED  BY <2>6, <3>2, <3>4, <4>1 DEF Heads
      <3>8. Sure(x, g, m) = m /\ m # 0
        BY <2>2, <2>4, <3>2, <3>3 DEF Sure
      <3>9. Kept(j, 1, m, j[1].orig, c)
        <4>1. \A i \in 1..m : i \in 1..n
          BY <2>4
        <4> QED  BY <1>2, <3>4, <3>7, <4>1 DEF Hot, Kept
      <3>10. \A i \in Heads(j) : i <= m
        BY <2>3, <3>6, TiledIs
      <3>11. \A i \in 1..m \ {g} : i <= Len(j)
        BY <2>6, <3>4
      <3>12. ASSUME NEW p \in 1..Len(c)  PROVE Untouched(x, c, p) \/ Holds(j, m, p)
        <4>1. CASE Untouched(e, c, p)
          BY <2>2, <2>7, <4>1 DEF Untouched
        <4>2. CASE Holds(e.jrnl, Sure(e, h, n), p)
          <5>1. Sure(e, h, n) = m
            BY <2>3, <2>11, <3>3 DEF Sure
          <5> QED  BY <3>4, <4>2, <5>1 DEF Holds
        <4> QED  BY <1>2, <4>1, <4>2 DEF Hot
      <3>13. Hot(x, c, g, m)
        BY <1>2, <2>2, <2>8, <3>1, <3>2, <3>3, <3>6, <3>7, <3>8, <3>9, <3>10, <3>11, <3>12 DEF Hot
      <3> QED  BY <2>1, <2>2, <3>7, <3>13 DEF Shows
    <2> QED  BY <2>9, <2>10, <2>11
  <1> QED  BY <1>1, <1>2 DEF Shows

-----------------------------------------------------------------------------
(* What the writes do to what the files show *)

(* The journal is the same up to position n and has no header after it.    *)
LEMMA HotAgain ==
  ASSUME NEW k, NEW e \in FileStates(k), NEW f \in FileStates(k),
         NEW c, NEW h, NEW n, Hot(e, c, h, n),
         f.db = e.db, f.dbSynced = e.dbSynced, n <= Len(f.jrnl),
         \A i \in 1..n : f.jrnl[i] = e.jrnl[i],
         \A i \in Heads(f.jrnl) : i <= n,
         \/ f.jrnlSynced = e.jrnlSynced
         \/ /\ n <= Len(f.jrnlSynced)
            /\ \A i \in 1..n : f.jrnlSynced[i] = e.jrnl[i]
            /\ \A i \in Heads(f.jrnlSynced) : i <= n
  PROVE  /\ Hot(f, c, h, n)
         /\ h \in Heads(f.jrnlSynced) \/ f.jrnlSynced = e.jrnlSynced
  <1>1. /\ e.jrnl \in Seq(Items(k)) /\ f.jrnl \in Seq(Items(k))
        /\ f.jrnlSynced \in Seq(Items(k)) /\ e.jrnlSynced \in Seq(Items(k))
    BY FileTypes
  <1>2. Tiled(e.jrnl, n) /\ h \in Heads(e.jrnl) /\ h + e.jrnl[h].recs = n
    BY DEF Hot
  <1>3. /\ n \in Nat /\ h \in 1..n /\ 1 \in 1..n /\ n \in 1..n
        /\ \A g \in Heads(e.jrnl) : g \in 1..n /\ g + e.jrnl[g].recs <= n
    BY <1>1, <1>2, SureIs, TiledIs
  <1>4. PICK a \in Nat, b \in Nat :
          /\ a = Len(f.jrnl) /\ b = Len(f.jrnlSynced)
          /\ DOMAIN f.jrnl = 1..a /\ DOMAIN f.jrnlSynced = 1..b
    BY <1>1, LenProperties
  <1>5. \A i \in 1..n : i \in 1..Len(f.jrnl)
    BY <1>3, <1>4
  <1>6. PICK l \in Nat : l = Len(e.jrnl) /\ DOMAIN e.jrnl = 1..l /\ n <= l
    BY <1>1, <1>3, SureIs, LenProperties
  <1>7. Heads(f.jrnl) = Heads(e.jrnl)
    <2>1. ASSUME NEW g \in Heads(f.jrnl)  PROVE g \in Heads(e.jrnl)
      <3>1. g \in 1..n /\ f.jrnl[g].is = "header"
        BY <1>3, <1>4 DEF Heads
      <3> QED  BY <1>3, <1>6, <3>1 DEF Heads
    <2>2. ASSUME NEW g \in Heads(e.jrnl)  PROVE g \in Heads(f.jrnl)
      <3>1. g \in 1..n /\ e.jrnl[g].is = "header"
        BY <1>3 DEF Heads
      <3> QED  BY <1>3, <1>4, <3>1 DEF Heads
    <2> QED  BY <2>1, <2>2
  <1>8. Tiled(f.jrnl, n)
    BY <1>1, <1>2, <1>3, <1>5, <1>7, TiledLeft
  <1>9. f.jrnl[1] = e.jrnl[1] /\ f.jrnl[h] = e.jrnl[h]
    BY <1>3
  <1>10. Kept(f.jrnl, 1, n, f.jrnl[1].orig, c)
    BY <1>9 DEF Hot, Kept
  <1>11. CASE f.jrnlSynced = e.jrnlSynced
    <2>1. Sure(f, h, n) = Sure(e, h, n)
      BY <1>11 DEF Sure
    <2>2. PICK s \in 0..n : s = Sure(e, h, n)
      BY SureIs
    <2>3. \A i \in 1..s : i \in 1..n
      BY <1>3
    <2>4. \A p \in 1..Len(c) : Untouched(f, c, p) \/ Holds(f.jrnl, s, p)
      BY <2>2, <2>3 DEF Hot, Untouched, Holds
    <2>5. /\ \A i \in 1..n \ {h} : i <= Len(f.jrnlSynced) /\ f.jrnlSynced[i] = f.jrnl[i]
          /\ \A i \in Heads(f.jrnlSynced) : i <= n /\ f.jrnlSynced[i] = f.jrnl[i]
      <3>1. \A i \in Heads(e.jrnlSynced) : i \in 1..n
        BY <1>1, <1>3, HeaderIs DEF Hot
      <3> QED  BY <1>11, <3>1 DEF Hot
    <2> QED  BY <1>2, <1>7, <1>8, <1>9, <1>10, <1>11, <2>1, <2>2, <2>4, <2>5 DEF Hot
  <1>12. CASE /\ n <= Len(f.jrnlSynced)
              /\ \A i \in 1..n : f.jrnlSynced[i] = e.jrnl[i]
              /\ \A i \in Heads(f.jrnlSynced) : i <= n
    <2>1. h \in Heads(f.jrnlSynced)
      <3>1. e.jrnl[h].is = "header"
        BY <1>2 DEF Heads
      <3> QED  BY <1>3, <1>4, <1>12, <3>1 DEF Heads
    <2>2. Sure(f, h, n) = n /\ n # 0
      BY <1>3, <2>1 DEF Sure
    <2>3. PICK s \in 0..n : s = Sure(e, h, n)
      BY SureIs
    <2>4. \A i \in 1..s : i \in 1..n
      BY <1>3
    <2>5. \A p \in 1..Len(c) : Untouched(f, c, p) \/ Holds(f.jrnl, n, p)
      BY <2>3, <2>4 DEF Hot, Untouched, Holds
    <2>6. \A i \in 1..n \ {h} : i <= Len(f.jrnlSynced) /\ f.jrnlSynced[i] = f.jrnl[i]
      BY <1>3, <1>4, <1>12
    <2>7. \A i \in Heads(f.jrnlSynced) : i <= n /\ f.jrnlSynced[i] = f.jrnl[i]
      <3>1. \A i \in Heads(f.jrnlSynced) : i \in 1..n
        BY <1>3, <1>4, <1>12 DEF Heads
      <3> QED  BY <1>12, <3>1
    <2> QED  BY <1>2, <1>7, <1>8, <1>9, <1>10, <2>1, <2>2, <2>5, <2>6, <2>7 DEF Hot
  <1> QED  BY <1>11, <1>12

(* The database changes and the journal does not.                          *)
LEMMA HotDb ==
  ASSUME NEW e, NEW f, NEW c, NEW h, NEW n, Hot(e, c, h, n),
         f.jrnl = e.jrnl, f.jrnlSynced = e.jrnlSynced,
         c # <<>> => f.db # <<>> /\ f.dbSynced # <<>>,
         Sure(e, h, n) = 0 => Good(f.db, c) /\ Good(f.dbSynced, c),
         \A p \in 1..Len(c) : Untouched(e, c, p) =>
            Untouched(f, c, p) \/ Holds(e.jrnl, Sure(e, h, n), p)
  PROVE  Hot(f, c, h, n)
  <1>1. Sure(f, h, n) = Sure(e, h, n)
    BY DEF Sure
  <1>2. \A p \in 1..Len(c) : Untouched(f, c, p) \/ Holds(f.jrnl, Sure(f, h, n), p)
    BY <1>1 DEF Hot
  <1> QED  BY <1>1, <1>2 DEF Hot

LEMMA SyncJournalShows ==
  ASSUME NEW k, NEW e \in FileStates(k), NEW f \in FileStates(k), NEW c,
         Shows(e, c), f.db = e.db, f.dbSynced = e.dbSynced,
         f.jrnl = e.jrnl, f.jrnlSynced = e.jrnl
  PROVE  Shows(f, c)
  <1>1. CASE Cold(e, c)
    BY <1>1 DEF Cold, Shows
  <1>2. ASSUME NEW h \in 1..Len(e.jrnl), NEW n \in 1..Len(e.jrnl), Hot(e, c, h, n)
        PROVE  Hot(f, c, h, n)
    <2>1. n <= Len(f.jrnl) /\ n <= Len(f.jrnlSynced)
      BY <1>2, SureIs
    <2>2. \A i \in Heads(e.jrnl) : i <= n
      <3>1. Tiled(e.jrnl, n) /\ e.jrnl \in Seq(Items(k))
        BY <1>2, FileTypes DEF Hot
      <3> QED  BY <3>1, TiledIs
    <2> QED  BY <1>2, <2>1, <2>2, HotAgain
  <1> QED  BY <1>1, <1>2 DEF Shows

LEMMA SyncDbShows ==
  ASSUME NEW k, NEW e \in FileStates(k), NEW f \in FileStates(k), NEW c,
         f.db = e.db, f.dbSynced = e.db,
         f.jrnl = e.jrnl, f.jrnlSynced = e.jrnlSynced
  PROVE  /\ \A h, n : Hot(e, c, h, n) => Hot(f, c, h, n)
         /\ Shows(e, c) => Shows(f, c)
  <1>1. ASSUME NEW h, NEW n, Hot(e, c, h, n)  PROVE Hot(f, c, h, n)
    <2>1. \A p \in 1..Len(c) : Untouched(e, c, p) => Untouched(f, c, p)
      BY DEF Untouched
    <2>2. /\ c # <<>> => f.db # <<>> /\ f.dbSynced # <<>>
          /\ Sure(e, h, n) = 0 => Good(f.db, c) /\ Good(f.dbSynced, c)
      BY <1>1 DEF Hot
    <2> QED  BY <1>1, <2>1, <2>2, HotDb
  <1>2. Cold(e, c) => Cold(f, c)
    BY DEF Cold
  <1> QED  BY <1>1, <1>2 DEF Shows

(* The first n positions of a longer file.                                 *)
LEMMA ShortIs ==
  ASSUME NEW S, NEW f \in Seq(S), NEW n \in Nat, n <= Len(f)
  PROVE  /\ SubSeq(f, 1, n) \in Seq(S) /\ Len(SubSeq(f, 1, n)) = n
         /\ \A i \in 1..n : SubSeq(f, 1, n)[i] = f[i]
  <1>1. PICK m \in Nat : m = Len(f)
    BY LenProperties
  <1>2. \A i \in 1..n : f[i] \in S
    BY <1>1, ElementOfSeq
  <1>3. /\ SubSeq(f, 1, n) \in Seq(S)
        /\ Len(SubSeq(f, 1, n)) = IF 1 <= n THEN n - 1 + 1 ELSE 0
        /\ \A i \in 1..(n - 1 + 1) : SubSeq(f, 1, n)[i] = f[1 + i - 1]
    BY <1>2, SubSeqProperties
  <1> QED  BY <1>3

LEMMA ShortGood ==
  ASSUME NEW S, NEW f \in Seq(S), NEW n \in Nat, n <= Len(f),
         NEW c \in Saved, Good(f, c), Len(c) <= n, c = <<>> => n = 0
  PROVE  Good(SubSeq(f, 1, n), c)
  <1>1. PICK m \in Nat : m = Len(c)
    BY SavedIs
  <1> DEFINE g == SubSeq(f, 1, n)
  <1>2. g \in Seq(S) /\ Len(g) = n /\ \A i \in 1..n : g[i] = f[i]
    BY ShortIs
  <1> HIDE DEF g
  <1>3. \A i \in 1..m : g[i] = c[i]
    BY <1>1, <1>2 DEF Good
  <1>4. n = 0 => g = <<>>
    BY <1>2, EmptyIff
  <1>5. Good(g, c)
    BY <1>1, <1>2, <1>3, <1>4 DEF Good
  <1> QED  BY <1>5 DEF g

(* The journal is deleted.                                                 *)
Deleted(e) ==
  [e EXCEPT
     !.jrnl = <<>>, !.jrnlSynced = <<>>,
     !.dbSynced = IF Len(@) > Len(e.db) THEN SubSeq(@, 1, Len(e.db)) ELSE @]

LEMMA DeletedShows ==
  ASSUME NEW k, NEW e \in FileStates(k)
  PROVE  /\ Deleted(e) \in FileStates(k)
         /\ Deleted(e).db = e.db /\ Deleted(e).jrnl = <<>>
         /\ \A c \in Saved :
              /\ Good(e.db, c)
              /\ Good(e.dbSynced, c) \/ e.db = <<>>
              => Cold(Deleted(e), c)
  <1>1. PICK a \in Nat, b \in Nat : a = Len(e.db) /\ b = Len(e.dbSynced)
    BY FileTypes
  <1>2. /\ e.db \in Seq(Pages(k)) /\ e.dbSynced \in Seq(Pages(k))
        /\ e.jrnl \in Seq(Items(k)) /\ e.jrnlSynced \in Seq(Items(k))
    BY FileTypes
  <1> DEFINE d == IF b > a THEN SubSeq(e.dbSynced, 1, a) ELSE e.dbSynced
  <1>3. d \in Seq(Pages(k))
    BY <1>1, <1>2, ShortIs
  <1>4. <<>> \in Seq(Items(k))
    BY EmptySeq
  <1>5. Deleted(e) = [e EXCEPT !.jrnl = <<>>, !.jrnlSynced = <<>>, !.dbSynced = d]
    BY <1>1 DEF Deleted
  <1> HIDE DEF d
  <1>6. /\ Deleted(e) \in FileStates(k)
        /\ Deleted(e).db = e.db /\ Deleted(e).dbSynced = d
        /\ Deleted(e).jrnl = <<>> /\ Deleted(e).jrnlSynced = <<>>
    BY <1>3, <1>4, <1>5 DEF FileStates
  <1>7. Heads(<<>>) = {}
    BY DEF Heads
  <1>8. ASSUME NEW c \in Saved, Good(e.db, c), Good(e.dbSynced, c) \/ e.db = <<>>
        PROVE  Good(d, c)
    <2>1. PICK m \in Nat : m = Len(c) /\ m <= a /\ (c = <<>> => a = 0)
      BY <1>1, <1>2, <1>8, SavedIs, EmptyIff DEF Good
    <2>2. CASE Good(e.dbSynced, c)
      <3>1. CASE b > a
        <4>1. a <= Len(e.dbSynced) /\ Len(c) <= a
          BY <1>1, <2>1, <3>1
        <4>2. Good(SubSeq(e.dbSynced, 1, a), c)
          BY <1>2, <2>1, <2>2, <4>1, ShortGood
        <4> QED  BY <3>1, <4>2 DEF d
      <3>2. CASE ~ (b > a)
        BY <2>2, <3>2 DEF d
      <3> QED  BY <3>1, <3>2
    <2>3. CASE e.db = <<>>
      <3>1. a = 0 /\ m = 0
        BY <1>1, <1>2, <2>1, <2>3, EmptyIff
      <3>2. CASE b > 0
        <4>1. d = SubSeq(e.dbSynced, 1, 0)
          BY <3>1, <3>2 DEF d
        <4>2. Len(d) = 0
          BY <1>1, <1>2, <4>1, ShortIs
        <4> QED  BY <1>3, <2>1, <3>1, <4>2, EmptyIff DEF Good
      <3>3. CASE b = 0
        <4>1. d = e.dbSynced
          BY <3>1, <3>3 DEF d
        <4>2. Len(d) = 0
          BY <1>1, <3>3, <4>1
        <4> QED  BY <1>3, <2>1, <3>1, <4>2, EmptyIff DEF Good
      <3> QED  BY <3>2, <3>3
    <2> QED  BY <1>8, <2>2, <2>3
  <1>9. ASSUME NEW c \in Saved, Good(e.db, c), Good(e.dbSynced, c) \/ e.db = <<>>
        PROVE  Cold(Deleted(e), c)
    BY <1>6, <1>7, <1>8, <1>9 DEF Cold
  <1> QED  BY <1>6, <1>9

LEMMA WrittenPage ==
  ASSUME NEW k, NEW d \in Seq(Pages(k)), NEW q \in Nat \ {0}, NEW x \in Pages(k),
         NEW w, w = Written(d, q, x, Junk)
  PROVE  w \in Seq(Pages(k)) /\ Writes(w, d, q, x, Junk)
  <1>1. Junk \in Pages(k)
    BY JunkIsPage
  <1> QED  BY <1>1, WrittenIs

(* A page of the database is written, as it was in c or where c has none.  *)
LEMMA WriteGood ==
  ASSUME NEW k, NEW d \in Seq(Pages(k)), NEW c \in Saved, Good(d, c),
         NEW q \in 1..Len(d), NEW x \in Pages(k), q <= Len(c) => x = c[q]
  PROVE  Good(Written(d, q, x, Junk), c)
  <1>1. PICK m \in Nat, a \in Nat : m = Len(c) /\ a = Len(d) /\ m <= a
    BY LenProperties, SavedIs DEF Good
  <1>2. PICK w : w = Written(d, q, x, Junk)
    OBVIOUS
  <1>3. /\ w \in Seq(Pages(k)) /\ Len(w) = a /\ w[q] = x
        /\ \A i \in 1..a : i # q => w[i] = d[i]
    <2>1. q \in Nat \ {0} /\ ~ (a < q)
      BY <1>1
    <2>2. w \in Seq(Pages(k)) /\ Writes(w, d, q, x, Junk)
      BY <1>2, <2>1, WrittenPage
    <2> QED  BY <1>1, <2>1, <2>2 DEF Writes
  <1>4. \A i \in 1..m : w[i] = c[i]
    BY <1>1, <1>3 DEF Good
  <1>5. c # <<>>
    <2>1. d # <<>>
      BY <1>1, EmptySeq
    <2> QED  BY <2>1 DEF Good
  <1> QED  BY <1>1, <1>2, <1>3, <1>4, <1>5 DEF Good

LEMMA WriteShows ==
  ASSUME NEW k, NEW e \in FileStates(k), NEW f \in FileStates(k),
         NEW c \in Saved, Shows(e, c),
         NEW q \in 1..Len(e.db), NEW x \in Pages(k), q <= Len(c) => x = c[q],
         f.db = Written(e.db, q, x, Junk), f.dbSynced = e.dbSynced,
         f.jrnl = e.jrnl, f.jrnlSynced = e.jrnlSynced
  PROVE  Shows(f, c)
  <1>1. Good(e.db, c) => Good(f.db, c)
    BY FileTypes, WriteGood
  <1>2. CASE Cold(e, c)
    BY <1>1, <1>2 DEF Cold, Shows
  <1>3. ASSUME NEW h, NEW n, Hot(e, c, h, n)  PROVE Hot(f, c, h, n)
    <2>1. PICK m \in Nat, a \in Nat : m = Len(c) /\ a = Len(e.db)
      BY FileTypes, SavedIs
    <2>2. /\ f.db \in Seq(Pages(k)) /\ Len(f.db) = a /\ f.db[q] = x
          /\ \A i \in 1..a : i # q => f.db[i] = e.db[i]
      <3>1. q \in Nat \ {0} /\ ~ (a < q) /\ e.db \in Seq(Pages(k))
        BY <2>1, FileTypes
      <3>2. f.db \in Seq(Pages(k)) /\ Writes(f.db, e.db, q, x, Junk)
        BY <3>1, WrittenPage
      <3> QED  BY <2>1, <3>1, <3>2 DEF Writes
    <2>3. ASSUME NEW p \in 1..m, Untouched(e, c, p)  PROVE Untouched(f, c, p)
      BY <2>1, <2>2, <2>3 DEF Untouched
    <2>4. f.db # <<>>
      BY <2>1, <2>2, EmptySeq
    <2>5. /\ c # <<>> => f.db # <<>> /\ f.dbSynced # <<>>
          /\ Sure(e, h, n) = 0 => Good(f.db, c) /\ Good(f.dbSynced, c)
      BY <1>1, <1>3, <2>4 DEF Hot
    <2> QED  BY <1>3, <2>1, <2>3, <2>5, HotDb
  <1> QED  BY <1>2, <1>3 DEF Shows

(* A page whose record is synced is written.                               *)
LEMMA WriteHeld ==
  ASSUME NEW k, NEW e \in FileStates(k), NEW f \in FileStates(k),
         NEW c \in Saved, NEW h, NEW n, Hot(e, c, h, n), h \in Heads(e.jrnlSynced),
         NEW q \in Nat \ {0}, NEW x \in Pages(k),
         q <= Len(c) => Holds(e.jrnl, n, q),
         f.db = Written(e.db, q, x, Junk), f.dbSynced = e.dbSynced,
         f.jrnl = e.jrnl, f.jrnlSynced = e.jrnlSynced
  PROVE  Hot(f, c, h, n)
  <1>1. PICK m \in Nat, a \in Nat : m = Len(c) /\ a = Len(e.db)
    BY FileTypes, SavedIs
  <1>2. /\ f.db \in Seq(Pages(k)) /\ Len(f.db) = IF a < q THEN q ELSE a
        /\ \A i \in 1..a : i # q => f.db[i] = e.db[i]
    <2>1. e.db \in Seq(Pages(k))
      BY FileTypes
    <2>2. f.db \in Seq(Pages(k)) /\ Writes(f.db, e.db, q, x, Junk)
      BY <2>1, WrittenPage
    <2> QED  BY <1>1, <2>2 DEF Writes
  <1>3. Sure(e, h, n) = n /\ n # 0
    BY SureIs DEF Sure
  <1>4. ASSUME NEW p \in 1..m, Untouched(e, c, p)
        PROVE  Untouched(f, c, p) \/ Holds(e.jrnl, n, p)
    BY <1>1, <1>2, <1>4 DEF Untouched
  <1>5. f.db # <<>>
    BY <1>1, <1>2, EmptySeq
  <1>6. c # <<>> => f.db # <<>> /\ f.dbSynced # <<>>
    BY <1>5 DEF Hot
  <1> QED  BY <1>1, <1>3, <1>4, <1>6, HotDb

(* The database is cut to its size before the transaction.                 *)
LEMMA CutShows ==
  ASSUME NEW k, NEW e \in FileStates(k), NEW f \in FileStates(k),
         NEW c \in Saved, NEW h, NEW n, Hot(e, c, h, n),
         f.db = Cut(e.db, e.jrnl), f.dbSynced = e.dbSynced,
         f.jrnl = e.jrnl, f.jrnlSynced = e.jrnlSynced
  PROVE  /\ Hot(f, c, h, n)
         /\ Covers(Len(f.db), c) /\ Len(f.db) = e.jrnl[1].orig
         /\ \A p \in 1..Len(c) :
              p <= Len(e.db) /\ e.db[p] = c[p] => f.db[p] = c[p]
  <1>1. PICK l \in Nat, m \in Nat, a \in Nat :
          l = e.jrnl[1].orig /\ m = Len(c) /\ a = Len(e.db)
    BY FileTypes, SavedIs, SureIs
  <1>2. /\ f.db \in Seq(Pages(k)) /\ Len(f.db) = l
        /\ \A i \in 1..l : i <= a => f.db[i] = e.db[i]
    <2>1. e.db \in Seq(Pages(k)) /\ Junk \in Pages(k)
      BY FileTypes, JunkIsPage
    <2>2. /\ Resized(e.db, l) \in Seq(Pages(k)) /\ Len(Resized(e.db, l)) = l
          /\ \A i \in 1..l : i <= Len(e.db) => Resized(e.db, l)[i] = e.db[i]
      BY <2>1, ResizedIs
    <2> QED  BY <1>1, <2>2 DEF Cut
  <1>3. Covers(l, c)
    BY <1>1 DEF Hot
  <1>4. m <= l /\ (c = <<>> => l = 0)
    BY <1>1, <1>3 DEF Covers
  <1>5. \A p \in 1..m : p <= a /\ e.db[p] = c[p] => f.db[p] = c[p]
    BY <1>2, <1>4
  <1>6. c # <<>> => f.db # <<>> /\ f.dbSynced # <<>>
    <2>1. c # <<>> => m # 0
      BY <1>1, SavedIs
    <2>2. l # 0 => f.db # <<>>
      BY <1>2, EmptySeq
    <2> QED  BY <1>4, <2>1, <2>2 DEF Hot
  <1>7. Good(e.db, c) => Good(f.db, c)
    <2>1. l = 0 => f.db = <<>>
      BY <1>2, EmptyIff
    <2> QED  BY <1>1, <1>2, <1>4, <1>5, <2>1 DEF Good
  <1>8. \A p \in 1..m : Untouched(e, c, p) => Untouched(f, c, p)
    BY <1>1, <1>2, <1>4, <1>5 DEF Untouched
  <1>9. Sure(e, h, n) = 0 => Good(f.db, c) /\ Good(f.dbSynced, c)
    BY <1>7 DEF Hot
  <1>10. Hot(f, c, h, n)
    BY <1>1, <1>6, <1>8, <1>9, HotDb
  <1> QED  BY <1>1, <1>2, <1>3, <1>5, <1>10

-----------------------------------------------------------------------------
(* The invariant *)

TxTypes ==
  [on : BOOLEAN, orig : Nat, off : Nat, hdr : Nat, next : Nat \ {0},
   dirty : SUBSET Nat, need : SUBSET Nat, dbmod : BOOLEAN, spill : Nat]

(* A transaction that has not copied a page yet.                           *)
Began(e, c, t) ==
  Cold(e, c) /\ t = [NoTx EXCEPT !.on = TRUE, !.orig = Len(e.db)]

(* A page of s below tx.next is dirty or written; while the database is    *)
(* not modified it is not synced either.                                   *)
PagesOk(e, s, q, t) ==
  /\ t.on
  /\ t.next \in 2..(Len(s) + 1)
  /\ t.dirty \subseteq 1..(t.next - 1)
  /\ t.need \subseteq t.dirty
  /\ ~ t.dbmod => 1..(t.next - 1) \subseteq t.need
  /\ \A p \in 1..(t.next - 1) : p \notin t.dirty => p <= Len(e.db) /\ e.db[p] = s[p]
  /\ t.spill = 0 \/ t.spill \in t.dirty \ {1}
  /\ t.spill # 0 => q \in {"records", "header", "sync", "spill"}
  /\ t.spill = 0 => q = "copy" \/ t.next = Len(s) + 1
  /\ t.hdr \in 1..t.off /\ t.off <= Len(e.jrnl)
  /\ t.orig <= Len(e.db)

(* Every page that was copied and was in c is in the journal; what is not  *)
(* copied or not synced is as it was.                                      *)
Copied(e, c, t) ==
  /\ Covers(t.orig, c)
  /\ Kept(e.jrnl, t.hdr + 1, t.off, t.orig, c)
  /\ \A i \in t.hdr + 1 .. t.off : e.jrnl[i].is = "record"
  /\ \A p \in 1..(t.next - 1) : p <= t.orig => Holds(e.jrnl, t.off, p)
  /\ \A p \in 1..Len(c) : p >= t.next \/ p \in t.need => Untouched(e, c, p)

(* The header in use does not count its records yet: the journal ends      *)
(* before it, and holds there what was spilled.                            *)
Filling(e, c, q, t) ==
  /\ q \in {"copy", "records", "header", "spill"}
  /\ q = "header" => e.jrnlSynced = e.jrnl
  /\ q = "spill" => t.spill \notin t.need /\ t.spill # 0 /\ t.dbmod
  /\ e.jrnl[t.hdr] = Zero
  /\ t.dbmod => /\ \E h \in 1..(t.hdr - 1) :
                     Hot(e, c, h, t.hdr - 1) /\ h \in Heads(e.jrnlSynced)
                /\ e.jrnl[1].orig = t.orig
  /\ ~ t.dbmod => t.hdr = 1 /\ Cold(e, c)
  /\ \A p \in 1..(t.next - 1) :
       p <= t.orig /\ p \notin t.need => Holds(e.jrnl, t.hdr - 1, p)

(* The header in use counts all records.                                   *)
Counted(e, c, q, t) ==
  /\ q \in {"sync", "pages", "finish"}
  /\ Hot(e, c, t.hdr, t.off)
  /\ e.jrnl[1].orig = t.orig
  /\ t.dbmod <=> (q # "sync" \/ t.hdr # 1)
  /\ q = "sync" => t.hdr \notin Heads(e.jrnlSynced)
  /\ q # "sync" => t.hdr \in Heads(e.jrnlSynced) /\ t.need = {}
  /\ q = "finish" => t.dirty = {} /\ e.dbSynced = e.db

Writing(e, c, s, u, q, t) ==
  /\ PagesOk(e, s, q, t) /\ (t.dbmod => u = {})
  /\ Copied(e, c, t)
  /\ Filling(e, c, q, t) \/ Counted(e, c, q, t)

(* What is left to play back makes database d that of c.                   *)
Playing(d, r, c) ==
  /\ Covers(Len(d), c)
  /\ \A x \in 1..Len(r) : r[x].is = "record"
  /\ Kept(r, 1, Len(r), Len(d), c)
  /\ \A p \in 1..Len(c) : d[p] = c[p] \/ Holds(r, Len(r), p)

Phase(c) ==
  /\ pc # "play" => redo = <<>>
  /\ pc \in {"idle", "lock"} => tx = NoTx
  /\ pc # "idle" => src # <<>>
  /\ pc = "copy" => Began(files, c, tx) \/ Writing(files, c, src, undo, pc, tx)
  /\ pc \in {"records", "header", "sync", "spill", "pages", "finish"} =>
       Writing(files, c, src, undo, pc, tx)
  /\ pc = "shrink" => c = src /\ Cold(files, c)
  /\ pc = "cut" => files.jrnl # <<>> /\ files.jrnl[1].is = "header"
  /\ pc = "play" => Playing(files.db, redo, c)
  /\ pc = "drop" => Good(files.db, c) /\ Good(files.dbSynced, c)

(* What a power loss may bring back shows a database, and but one besides c. *)
Loss(u) == \A e \in u : /\ View(e.db, e.jrnl) \in Saved
                        /\ Shows(e, View(e.db, e.jrnl))

Lone(u, c) == \A e, f \in u :
  View(e.db, e.jrnl) # c /\ View(f.db, f.jrnl) # c =>
    View(e.db, e.jrnl) = View(f.db, f.jrnl)

IInv ==
  /\ TypeOK /\ tx \in TxTypes
  /\ Now \in Saved /\ src \in Saved
  /\ Shows(files, Now) /\ Phase(Now)
  /\ Loss(undo) /\ Lone(undo, Now)

-----------------------------------------------------------------------------
(* Parts of the steps *)

LEMMA TypesGrow ==
  ASSUME NEW k \in Nat
  PROVE  /\ Pages(k) \subseteq Pages(k + 1) /\ Items(k) \subseteq Items(k + 1)
         /\ FileStates(k) \subseteq FileStates(k + 1)
         /\ Seq(Items(k)) \subseteq Seq(Items(k + 1))
  <1>1. 0..k \subseteq 0..(k + 1)
    OBVIOUS
  <1>2. Pages(k) \subseteq Pages(k + 1)
    BY <1>1 DEF Pages
  <1>3. Items(k) \subseteq Items(k + 1)
    BY <1>2 DEF Items
  <1>4. Seq(Pages(k)) \subseteq Seq(Pages(k + 1))
    BY <1>2, SeqDef
  <1>5. Seq(Items(k)) \subseteq Seq(Items(k + 1))
    BY <1>3, SeqDef
  <1>6. FileStates(k) \subseteq FileStates(k + 1)
    BY <1>4, <1>5 DEF FileStates
  <1> QED  BY <1>2, <1>3, <1>5, <1>6

LEMMA NoTxIs ==
  /\ NoTx \in TxTypes /\ NoTx.off = 0 /\ NoTx.hdr = 0 /\ NoTx.next = 1
  /\ NoTx.need = {} /\ NoTx.dirty = {} /\ ~ NoTx.on /\ ~ NoTx.dbmod
  /\ NoTx.spill = 0
  BY DEF NoTx, TxTypes

LEMMA BeganIs ==
  ASSUME NEW n \in Nat, NEW t, t = [NoTx EXCEPT !.on = TRUE, !.orig = n]
  PROVE  /\ t \in TxTypes /\ t.on /\ t.orig = n /\ t.off = 0 /\ t.hdr = 0
         /\ t.next = 1 /\ t.need = {} /\ t.dirty = {} /\ ~ t.dbmod
         /\ t.spill = 0
  <1>1. DOMAIN NoTx = {"on", "orig", "off", "hdr", "next", "dirty", "need",
                       "dbmod", "spill"}
    BY DEF NoTx
  <1>2. t.on /\ t.orig = n
    BY <1>1
  <1>3. /\ t.off = 0 /\ t.hdr = 0 /\ t.next = 1 /\ t.need = {} /\ t.dirty = {}
        /\ ~ t.dbmod /\ t.spill = 0
    BY <1>1, NoTxIs
  <1>4. t \in TxTypes
    BY NoTxIs DEF TxTypes
  <1> QED  BY <1>2, <1>3, <1>4

(* The process is gone.                                                    *)
LEMMA AtRest ==
  ASSUME IInv, Idle, UNCHANGED <<src, saves>>,
         files' \in FileStates(saves), \A e \in undo' : e \in FileStates(saves)
  PROVE  TypeOK' /\ (tx \in TxTypes)' /\ Phase(Now)'
  <1>1. pc' = "idle" /\ tx' = NoTx /\ redo' = <<>>
    BY DEF Idle
  <1>2. Len(files'.jrnl) \in Nat /\ <<>> \in Seq(Items(saves))
    BY FileTypes, EmptySeq
  <1>3. saves \in 0..MaxSaves /\ src \in Seq(Pages(saves) \ {Junk})
    BY DEF IInv, TypeOK
  <1>4. TypeOK'
    BY <1>1, <1>2, <1>3, NoTxIs DEF TypeOK
  <1> QED  BY <1>1, <1>4, NoTxIs DEF Phase

(* The process begins its transaction.                                     *)
LEMMA AtBegin ==
  ASSUME IInv, Begin, UNCHANGED <<src, saves>>, src # <<>>,
         files' \in FileStates(saves), \A e \in undo' : e \in FileStates(saves),
         Cold(files', Now')
  PROVE  TypeOK' /\ (tx \in TxTypes)' /\ Phase(Now)'
  <1>1. /\ pc' = "copy" /\ tx' = [NoTx EXCEPT !.on = TRUE, !.orig = Len(files'.db)]
        /\ redo' = <<>>
    BY DEF Begin
  <1>2. /\ Len(files'.jrnl) \in Nat /\ <<>> \in Seq(Items(saves))
        /\ Len(files'.db) \in Nat
    BY FileTypes, EmptySeq
  <1>3. saves \in 0..MaxSaves /\ src \in Seq(Pages(saves) \ {Junk})
    BY DEF IInv, TypeOK
  <1>4. /\ tx' \in TxTypes /\ tx'.off = 0 /\ tx'.hdr = 0
        /\ tx'.need = {} /\ tx'.dirty = {}
    BY <1>1, <1>2, BeganIs
  <1>5. TypeOK'
    BY <1>1, <1>2, <1>3, <1>4 DEF TypeOK
  <1>6. Began(files', Now', tx')
    BY <1>1 DEF Began
  <1> QED  BY <1>1, <1>4, <1>5, <1>6 DEF Phase

(* The files show what they showed, and a power loss brings back nothing   *)
(* that it would not have brought back before.                             *)
LEMMA Stutters ==
  ASSUME IInv, Now' = Now, src' = src, undo' = undo \/ undo' = undo \cup {files}
  PROVE  /\ Loss(undo)' /\ Lone(undo, Now)'
         /\ UNCHANGED <<Now, Earlier, src>>
  <1>1. View(files.db, files.jrnl) = Now
    BY DEF Now
  <1>2. Loss(undo')
    BY <1>1 DEF IInv, Loss
  <1>3. Lone(undo', Now)
    BY <1>1 DEF IInv, Lone
  <1>4. Before' = Before
    BY <1>1 DEF Before
  <1>5. Earlier' = Earlier
    BY <1>4 DEF Earlier
  <1> QED  BY <1>2, <1>3, <1>5

(* A power loss brings back nothing any more.                              *)
LEMMA Settles ==
  ASSUME IInv, Now' = Now, src' = src, undo' = {}
  PROVE  /\ Loss(undo)' /\ Lone(undo, Now)'
         /\ [Replaced!Next]_<<Now, Earlier, src>>
  <1>1. Loss(undo') /\ Lone(undo', Now')
    BY DEF Loss, Lone
  <1>2. Before' = {}
    BY DEF Before
  <1>3. Earlier' = Now
    BY <1>2 DEF Earlier
  <1> QED  BY <1>1, <1>3 DEF Replaced!Next, Replaced!Settle

LEMMA Types ==
  ASSUME IInv
  PROVE  /\ saves \in Nat /\ saves \in 0..MaxSaves
         /\ src \in Seq(Pages(saves)) /\ Len(src) \in Nat
         /\ files \in FileStates(saves) /\ \A e \in undo : e \in FileStates(saves)
         /\ redo \in Seq(Items(saves)) /\ tx \in TxTypes
         /\ View(files.db, files.jrnl) = Now /\ Now \in Saved /\ src \in Saved
         /\ Shows(files, Now) /\ Phase(Now)
  <1>1. saves \in Nat /\ saves \in 0..MaxSaves
    BY SizesAssumption DEF IInv, TypeOK
  <1>2. src \in Seq(Pages(saves)) /\ Len(src) \in Nat
    <2>1. src \in Seq(Pages(saves) \ {Junk})
      BY DEF IInv, TypeOK
    <2> QED  BY <2>1, SeqDef, LenProperties
  <1> QED  BY <1>1, <1>2 DEF IInv, TypeOK, Now

-----------------------------------------------------------------------------
(* The steps.  Each keeps the invariant and is a step of AtomicSave. *)

LEMMA OpenKeeps ==
  ASSUME IInv, NEW n \in NewSizes, Open(n)
  PROVE  IInv' /\ [Replaced!Next]_<<Now, Earlier, src>>
  <1>1. /\ saves' = saves + 1 /\ saves < MaxSaves /\ src' = Image(saves + 1, n)
        /\ pc = "idle" /\ pc' = "lock" /\ tx' = tx /\ redo' = redo
        /\ files' = files /\ undo' = undo
    BY DEF Open, GoTo
  <1>2. /\ saves \in Nat /\ files \in FileStates(saves)
        /\ \A e \in undo : e \in FileStates(saves)
    BY Types
  <1>3. /\ saves + 1 \in 0..MaxSaves /\ saves + 1 \in Nat
    BY <1>1, <1>2, SizesAssumption
  <1>4. /\ src' \in Saved /\ src' \in Seq(Pages(saves + 1) \ {Junk})
        /\ src' # <<>>
    <2>1. /\ src' \in Saved /\ src' \in Seq(Pages(saves + 1) \ {Junk})
          /\ Len(src') = n
      BY <1>1, <1>3, ImageSaved
    <2>2. n # 0
      BY SizesAssumption
    <2> QED  BY <2>1, <2>2, EmptySeq
  <1>5. tx = NoTx /\ redo = <<>>
    BY <1>1 DEF IInv, Phase
  <1>6. /\ Now' = Now /\ Before' = Before /\ Earlier' = Earlier
    BY <1>1 DEF Now, Before, Earlier
  <1>7. TypeOK'
    <2>1. files' \in FileStates(saves + 1) /\ \A e \in undo' : e \in FileStates(saves + 1)
      BY <1>1, <1>2, TypesGrow
    <2>2. <<>> \in Seq(Items(saves + 1)) /\ Len(files'.jrnl) \in Nat
      BY <1>2, <2>1, EmptySeq, FileTypes
    <2> QED  BY <1>1, <1>3, <1>4, <1>5, <2>1, <2>2, NoTxIs DEF TypeOK
  <1>8. Phase(Now)'
    BY <1>1, <1>4, <1>5 DEF Phase
  <1>9. IInv'
    BY <1>1, <1>4, <1>6, <1>7, <1>8 DEF IInv
  <1>10. Replaced!Begin
    BY <1>4, <1>6 DEF Replaced!Begin
  <1> QED  BY <1>9, <1>10 DEF Replaced!Next

LEMMA KilledKeeps ==
  ASSUME IInv, Killed
  PROVE  IInv' /\ [Replaced!Next]_<<Now, Earlier, src>>
  <1>1. Idle /\ files' = files /\ undo' = undo /\ src' = src /\ saves' = saves
    BY DEF Killed
  <1>2. Now' = Now
    BY <1>1 DEF Now
  <1>3. TypeOK' /\ (tx \in TxTypes)' /\ Phase(Now)'
    BY <1>1, AtRest, Types
  <1>4. /\ Loss(undo)' /\ Lone(undo, Now)' /\ UNCHANGED <<Now, Earlier, src>>
    BY <1>1, <1>2, Stutters
  <1>5. IInv'
    BY <1>1, <1>2, <1>3, <1>4 DEF IInv
  <1> QED  BY <1>4, <1>5

LEMMA PowerLossKeeps ==
  ASSUME IInv, PowerLoss
  PROVE  IInv' /\ [Replaced!Next]_<<Now, Earlier, src>>
  <1>1. PICK e \in undo \cup {files} :
          \E d \in Left(e.dbSynced, e.db, Junk),
             j \in Left(e.jrnlSynced, e.jrnl, JunkItem) : files' = Disk(d, j)
    BY DEF PowerLoss, Disk
  <1>2. PICK d \in Left(e.dbSynced, e.db, Junk),
             j \in Left(e.jrnlSynced, e.jrnl, JunkItem) : files' = Disk(d, j)
    BY <1>1
  <1>3. undo' = {} /\ Idle /\ src' = src /\ saves' = saves
    BY DEF PowerLoss
  <1>4. PICK c \in Saved :
          /\ e \in FileStates(saves) /\ c = View(e.db, e.jrnl) /\ Shows(e, c)
    BY Types DEF IInv, Loss
  <1>5. files' \in FileStates(saves) /\ Shows(files', c)
    BY <1>2, <1>4, DiskIs, ShowsLeft
  <1>6. Now' = c
    BY <1>5, ViewIs DEF Now
  <1>7. TypeOK' /\ (tx \in TxTypes)' /\ Phase(Now)'
    BY <1>3, <1>5, AtRest
  <1>8. Loss(undo)' /\ Lone(undo, Now)' /\ Before' = {}
    BY <1>3 DEF Loss, Lone, Before
  <1>9. IInv'
    BY <1>3, <1>5, <1>6, <1>7, <1>8, Types DEF IInv
  <1>10. Earlier' = c
    BY <1>6, <1>8 DEF Earlier
  <1>11. CASE c = Now
    BY <1>3, <1>6, <1>9, <1>10, <1>11 DEF Replaced!Next, Replaced!Settle
  <1>12. CASE c # Now
    <2>1. c \in Before
      <3>1. e \in undo
        BY <1>4, <1>12, Types
      <3> QED  BY <1>4, <1>12, <3>1 DEF Before
    <2>2. \A b \in Before : b = c
      BY <1>4, <1>12, <2>1 DEF IInv, Lone, Before
    <2>3. Earlier = c
      BY <2>1, <2>2 DEF Earlier
    <2> QED  BY <1>3, <1>6, <1>9, <1>10, <2>3 DEF Replaced!Next, Replaced!TakeBack
  <1> QED  BY <1>11, <1>12

(* The first item of the journal of files that show c.                     *)
LEMMA FirstIs ==
  ASSUME NEW k, NEW e \in FileStates(k), NEW c, Shows(e, c)
  PROVE  /\ e.jrnl # <<>> /\ e.jrnl[1].is = "header" =>
              \E h, n \in 1..Len(e.jrnl) : Hot(e, c, h, n)
         /\ e.jrnl = <<>> \/ e.jrnl[1].is # "header" => Cold(e, c)
  <1>1. PICK l \in Nat : l = Len(e.jrnl) /\ DOMAIN e.jrnl = 1..l
    BY FileTypes, LenProperties
  <1>2. e.jrnl # <<>> => l # 0
    BY <1>1, FileTypes, EmptyIff
  <1>3. CASE Cold(e, c)
    <2>1. e.jrnl # <<>> /\ e.jrnl[1].is = "header" => 1 \in Heads(e.jrnl)
      BY <1>1, <1>2 DEF Heads
    <2> QED  BY <1>3, <2>1 DEF Cold
  <1>4. CASE \E h, n \in 1..Len(e.jrnl) : Hot(e, c, h, n)
    <2>1. 1 \in Heads(e.jrnl)
      BY <1>4 DEF Hot, Tiled
    <2>2. e.jrnl # <<>> /\ e.jrnl[1].is = "header"
      BY <1>1, <2>1, FileTypes, EmptySeq DEF Heads
    <2> QED  BY <1>4, <2>2
  <1> QED  BY <1>3, <1>4 DEF Shows

LEMMA DeleteJournalIs ==
  DeleteJournal <=> undo' = undo \cup {files} /\ files' = Deleted(files)
  BY DEF DeleteJournal, Deleted

LEMMA SyncedJournal ==
  ASSUME IInv, SyncJournal
  PROVE  /\ files' \in FileStates(saves) /\ Shows(files', Now) /\ Now' = Now
         /\ files'.db = files.db /\ files'.dbSynced = files.dbSynced
         /\ files'.jrnl = files.jrnl /\ files'.jrnlSynced = files.jrnl
  <1>1. /\ files' \in FileStates(saves)
        /\ files'.db = files.db /\ files'.dbSynced = files.dbSynced
        /\ files'.jrnl = files.jrnl /\ files'.jrnlSynced = files.jrnl
    BY Types DEF SyncJournal, FileStates
  <1>2. Shows(files', Now)
    BY <1>1, Types, SyncJournalShows
  <1> QED  BY <1>1, <1>2 DEF Now

LEMMA SharedLockKeeps ==
  ASSUME IInv, SharedLock
  PROVE  IInv' /\ [Replaced!Next]_<<Now, Earlier, src>>
  <1>1. /\ pc = "lock" /\ src' = src /\ saves' = saves
        /\ src # <<>> /\ tx = NoTx /\ redo = <<>>
    BY DEF SharedLock, IInv, Phase
  <1>2. /\ files \in FileStates(saves) /\ \A e \in undo : e \in FileStates(saves)
        /\ Now \in Saved /\ Shows(files, Now) /\ View(files.db, files.jrnl) = Now
    BY Types
  <1>3. CASE files.db = <<>> /\ files.jrnl # <<>> /\ DeleteJournal /\ Begin
    <2>1. undo' = undo \cup {files} /\ files' = Deleted(files)
      BY <1>3, DeleteJournalIs
    <2>2. Now = <<>>
      BY <1>2, <1>3 DEF View, Seen
    <2>3. Good(files.db, Now)
      <3>1. Len(Now) = 0
        BY <1>2, <2>2, SavedIs
      <3>2. files.db = Now
        BY <1>3, <2>2
      <3> QED  BY <3>1, <3>2 DEF Good
    <2>4. files' \in FileStates(saves) /\ Cold(files', Now) /\ Shows(files', Now)
      BY <1>2, <1>3, <2>1, <2>3, DeletedShows DEF Shows
    <2>5. Now' = Now
      BY <1>2, <2>4, ViewIs DEF Now
    <2>6. TypeOK' /\ (tx \in TxTypes)' /\ Phase(Now)'
      BY <1>1, <1>2, <1>3, <2>1, <2>4, <2>5, AtBegin
    <2>7. /\ Loss(undo)' /\ Lone(undo, Now)' /\ UNCHANGED <<Now, Earlier, src>>
      BY <1>1, <2>1, <2>5, Stutters
    <2>8. IInv'
      BY <1>1, <1>2, <2>4, <2>5, <2>6, <2>7 DEF IInv
    <2> QED  BY <2>7, <2>8
  <1>4. CASE /\ files.jrnl = <<>> \/ files.jrnl[1].is # "header"
             /\ UNCHANGED <<files, undo>> /\ Begin
    <2>1. Cold(files, Now)
      BY <1>2, <1>4, FirstIs
    <2>2. Now' = Now
      BY <1>4 DEF Now
    <2>3. TypeOK' /\ (tx \in TxTypes)' /\ Phase(Now)'
      BY <1>1, <1>2, <1>4, <2>1, <2>2, AtBegin
    <2>4. /\ Loss(undo)' /\ Lone(undo, Now)' /\ UNCHANGED <<Now, Earlier, src>>
      BY <1>1, <1>4, <2>2, Stutters
    <2>5. IInv'
      BY <1>1, <1>2, <1>4, <2>2, <2>3, <2>4 DEF IInv
    <2> QED  BY <2>4, <2>5
  <1>5. CASE /\ files.jrnl # <<>> /\ SyncJournal
             /\ \/ files.jrnl[1].is = "header" /\ GoTo("cut")
                \/ files.jrnl[1].is # "header" /\ GoTo("play")
    <2>1. /\ files' \in FileStates(saves) /\ Shows(files', Now) /\ Now' = Now
          /\ files'.db = files.db /\ files'.jrnl = files.jrnl
      BY <1>5, SyncedJournal
    <2>2. undo' = {}
      BY <1>5 DEF SyncJournal
    <2>3. tx' = tx /\ redo' = redo
      BY <1>5 DEF GoTo
    <2>4. /\ Loss(undo)' /\ Lone(undo, Now)' /\ [Replaced!Next]_<<Now, Earlier, src>>
      BY <1>1, <2>1, <2>2, Settles
    <2>5. Len(files'.jrnl) \in Nat /\ <<>> \in Seq(Items(saves))
      BY <2>1, FileTypes, EmptySeq
    <2>6. CASE files.jrnl[1].is = "header" /\ GoTo("cut")
      <3>1. pc' = "cut"
        BY <2>6 DEF GoTo
      <3>2. TypeOK'
        BY <1>1, <2>1, <2>2, <2>3, <2>5, <2>6, <3>1, NoTxIs DEF IInv, TypeOK
      <3>3. Phase(Now)'
        BY <1>1, <1>5, <2>1, <2>3, <2>6, <3>1 DEF Phase
      <3> QED  BY <1>1, <1>2, <2>1, <2>3, <2>4, <3>2, <3>3, NoTxIs DEF IInv
    <2>7. CASE files.jrnl[1].is # "header" /\ GoTo("play")
      <3>1. pc' = "play"
        BY <2>7 DEF GoTo
      <3>2. TypeOK'
        BY <1>1, <2>1, <2>2, <2>3, <2>5, <3>1, NoTxIs DEF IInv, TypeOK
      <3>3. Cold(files, Now)
        BY <1>2, <2>7, FirstIs
      <3>4. Playing(files.db, <<>>, Now)
        <4>1. PICK a \in Nat : a = Len(files.db)
          BY <1>2, FileTypes
        <4>2. Good(files.db, Now)
          BY <3>3 DEF Cold
        <4>3. Covers(a, Now)
          BY <1>2, <4>1, <4>2, EmptySeq DEF Covers, Good
        <4> QED  BY <4>1, <4>2, <4>3 DEF Playing, Good, Kept
      <3>5. Phase(Now)'
        BY <1>1, <2>1, <2>3, <3>1, <3>4 DEF Phase
      <3> QED  BY <1>1, <1>2, <2>1, <2>3, <2>4, <3>2, <3>5, NoTxIs DEF IInv
    <2> QED  BY <1>5, <2>6, <2>7
  <1> QED
    <2>1. files.jrnl = <<>> \/ files.jrnl[1].is # "header" \/ files.jrnl # <<>>
      OBVIOUS
    <2> QED  BY <1>3, <1>4, <1>5 DEF SharedLock

(* A database in the making is rolled back from its journal once that      *)
(* counts something, and was never written before.                         *)
LEMMA WritingIs ==
  ASSUME NEW k, NEW e \in FileStates(k), NEW c, NEW s, NEW u, NEW q,
         NEW t \in TxTypes, Writing(e, c, s, u, q, t)
  PROVE  /\ t.off # 0
         /\ t.dbmod => e.jrnl # <<>> /\ e.jrnl[1].is = "header"
         /\ ~ t.dbmod => Good(e.db, c) /\ Good(e.dbSynced, c)
  <1>1. t.hdr \in 1..t.off /\ t.off \in Nat
    BY DEF Writing, PagesOk, TxTypes
  <1>2. ASSUME NEW h, NEW n, Hot(e, c, h, n)
        PROVE  e.jrnl # <<>> /\ e.jrnl[1].is = "header"
    <2>1. 1 \in Heads(e.jrnl)
      BY <1>2 DEF Hot, Tiled
    <2>2. e.jrnl # <<>>
      BY <2>1, FileTypes, HeaderIs, EmptySeq
    <2> QED  BY <2>1, <2>2 DEF Heads
  <1>3. CASE Filling(e, c, q, t)
    BY <1>1, <1>2, <1>3 DEF Filling, Cold
  <1>4. CASE Counted(e, c, q, t)
    <2>1. ASSUME ~ t.dbmod  PROVE Good(e.db, c) /\ Good(e.dbSynced, c)
      <3>1. t.hdr = 1 /\ t.hdr \notin Heads(e.jrnlSynced)
        BY <1>4, <2>1 DEF Counted
      <3>2. Sure(e, t.hdr, t.off) = 0
        BY <3>1 DEF Sure
      <3> QED  BY <1>4, <3>2 DEF Counted, Hot
    <2> QED  BY <1>1, <1>2, <1>4, <2>1 DEF Counted
  <1> QED  BY <1>3, <1>4 DEF Writing

LEMMA BegunIs ==
  ASSUME NEW k, NEW e \in FileStates(k), NEW c, NEW t, Began(e, c, t)
  PROVE  /\ Cold(e, c)
         /\ t \in TxTypes /\ t.on /\ t.orig = Len(e.db) /\ t.off = 0 /\ t.hdr = 0
         /\ t.next = 1 /\ t.need = {} /\ t.dirty = {} /\ ~ t.dbmod
         /\ t.spill = 0
  <1>1. PICK n \in Nat : n = Len(e.db)
    BY FileTypes
  <1>2. Cold(e, c) /\ t = [NoTx EXCEPT !.on = TRUE, !.orig = n]
    BY <1>1 DEF Began
  <1> QED  BY <1>1, <1>2, BeganIs

LEMMA FailsKeeps ==
  ASSUME IInv, Fails
  PROVE  IInv' /\ [Replaced!Next]_<<Now, Earlier, src>>
  <1>1. /\ files' = files /\ undo' = undo /\ src' = src /\ saves' = saves
        /\ pc \in {"copy", "records", "header", "sync", "pages"} /\ tx.spill = 0
    BY DEF Fails
  <1>2. Now' = Now
    BY <1>1 DEF Now
  <1>3. /\ Loss(undo)' /\ Lone(undo, Now)' /\ UNCHANGED <<Now, Earlier, src>>
    BY <1>1, <1>2, Stutters
  <1>4. src # <<>> /\ redo = <<>>
    BY <1>1 DEF IInv, Phase
  <1>5. CASE tx.off = 0
    <2>1. Idle
      BY <1>5 DEF Fails
    <2>2. TypeOK' /\ (tx \in TxTypes)' /\ Phase(Now)'
      BY <1>1, <2>1, AtRest, Types
    <2> QED  BY <1>1, <1>2, <1>3, <2>2 DEF IInv
  <1>6. CASE tx.off # 0
    <2>1. /\ pc' = (IF tx.dbmod THEN "cut" ELSE "drop") /\ tx' = tx /\ redo' = redo
      BY <1>6 DEF Fails, GoTo
    <2>2. Writing(files, Now, src, undo, pc, tx)
      <3>1. ASSUME Began(files, Now, tx)  PROVE FALSE
        BY <1>6, <3>1, BegunIs, Types
      <3> QED  BY <1>1, <3>1 DEF IInv, Phase
    <2>3. /\ tx.dbmod => files.jrnl # <<>> /\ files.jrnl[1].is = "header"
          /\ ~ tx.dbmod => Good(files.db, Now) /\ Good(files.dbSynced, Now)
      BY <2>2, Types, WritingIs
    <2>4. TypeOK'
      BY <1>1, <2>1, <2>3 DEF IInv, TypeOK
    <2>5. Phase(Now)'
      BY <1>1, <1>2, <1>4, <2>1, <2>3 DEF Phase
    <2> QED  BY <1>1, <1>2, <1>3, <2>1, <2>4, <2>5 DEF IInv
  <1> QED  BY <1>5, <1>6

LEMMA DropKeeps ==
  ASSUME IInv, Drop
  PROVE  IInv' /\ [Replaced!Next]_<<Now, Earlier, src>>
  <1>1. /\ pc = "drop" /\ src' = src /\ saves' = saves
        /\ undo' = undo \cup {files} /\ files' = Deleted(files)
        /\ Idle \/ Begin
    BY DeleteJournalIs DEF Drop
  <1>2. /\ files \in FileStates(saves) /\ \A e \in undo : e \in FileStates(saves)
        /\ Now \in Saved
    BY Types
  <1>3. src # <<>> /\ Good(files.db, Now) /\ Good(files.dbSynced, Now)
    BY <1>1 DEF IInv, Phase
  <1>4. files' \in FileStates(saves) /\ Cold(files', Now) /\ Shows(files', Now)
    BY <1>1, <1>2, <1>3, DeletedShows DEF Shows
  <1>5. Now' = Now
    BY <1>2, <1>4, ViewIs DEF Now
  <1>6. \A e \in undo' : e \in FileStates(saves)
    BY <1>1, <1>2
  <1>7. TypeOK' /\ (tx \in TxTypes)' /\ Phase(Now)'
    <2>1. CASE Idle
      BY <1>1, <1>4, <1>6, <2>1, AtRest
    <2>2. CASE Begin
      BY <1>1, <1>3, <1>4, <1>5, <1>6, <2>2, AtBegin
    <2> QED  BY <1>1, <2>1, <2>2
  <1>8. /\ Loss(undo)' /\ Lone(undo, Now)' /\ UNCHANGED <<Now, Earlier, src>>
    BY <1>1, <1>5, Stutters
  <1>9. IInv'
    BY <1>1, <1>2, <1>4, <1>5, <1>7, <1>8 DEF IInv
  <1> QED  BY <1>8, <1>9

LEMMA FinishKeeps ==
  ASSUME IInv, Finish
  PROVE  IInv' /\ [Replaced!Next]_<<Now, Earlier, src>>
  <1>1. /\ pc = "finish" /\ pc' = "shrink" /\ src' = src /\ saves' = saves
        /\ tx' = tx /\ redo' = redo
        /\ undo' = undo \cup {files} /\ files' = Deleted(files)
    BY DeleteJournalIs DEF Finish, GoTo
  <1>2. /\ files \in FileStates(saves) /\ \A e \in undo : e \in FileStates(saves)
        /\ Now \in Saved /\ src \in Saved /\ Shows(files, Now)
        /\ View(files.db, files.jrnl) = Now /\ tx \in TxTypes
    BY Types
  <1>3. src # <<>> /\ redo = <<>> /\ Writing(files, Now, src, undo, pc, tx)
    BY <1>1 DEF IInv, Phase
  <1>4. Counted(files, Now, pc, tx)
    BY <1>1, <1>3 DEF Writing, Filling
  <1>5. tx.dbmod /\ tx.dirty = {} /\ files.dbSynced = files.db /\ undo = {}
    BY <1>1, <1>3, <1>4 DEF Counted, Writing
  <1>6. Good(files.db, src)
    <2>1. PICK n \in Nat, a \in Nat : n = Len(src) /\ a = Len(files.db)
      BY <1>2, FileTypes, SavedIs
    <2>2. PagesOk(files, src, pc, tx)
      BY <1>3 DEF Writing
    <2>3. tx.spill = 0 /\ tx.next = n + 1
      BY <1>1, <2>1, <2>2 DEF PagesOk
    <2>4. \A p \in 1..n : p <= a /\ files.db[p] = src[p]
      <3>1. \A p \in 1..(tx.next - 1) : p <= a /\ files.db[p] = src[p]
        BY <1>5, <2>1, <2>2 DEF PagesOk
      <3>2. tx.next - 1 = n
        BY <2>1, <2>3
      <3> QED  BY <3>1, <3>2
    <2>5. n # 0
      BY <1>2, <1>3, <2>1, SavedIs
    <2>6. n \in 1..n
      BY <2>5
    <2> QED  BY <1>3, <2>1, <2>4, <2>6 DEF Good
  <1>7. files' \in FileStates(saves) /\ Cold(files', src) /\ Shows(files', src)
    BY <1>1, <1>2, <1>5, <1>6, DeletedShows DEF Shows
  <1>8. Now' = src
    BY <1>2, <1>7, ViewIs DEF Now
  <1>9. undo' = {files}
    BY <1>1, <1>5
  <1>10. Loss(undo)' /\ Lone(undo, Now)'
    BY <1>2, <1>9 DEF Loss, Lone
  <1>11. Earlier' = Now
    <2>1. Before' = {Now} \ {src}
      BY <1>2, <1>8, <1>9 DEF Before
    <2>2. CASE Now = src
      BY <1>8, <2>1, <2>2 DEF Earlier
    <2>3. CASE Now # src
      BY <2>1, <2>3 DEF Earlier
    <2> QED  BY <2>2, <2>3
  <1>12. TypeOK'
    BY <1>1, <1>2, <1>7, <1>9 DEF IInv, TypeOK
  <1>13. Phase(Now)'
    BY <1>1, <1>3, <1>7, <1>8 DEF Phase
  <1>14. IInv'
    BY <1>1, <1>2, <1>7, <1>8, <1>10, <1>12, <1>13 DEF IInv
  <1> QED  BY <1>1, <1>8, <1>11, <1>14 DEF Replaced!Next, Replaced!Replace

LEMMA ShrinkKeeps ==
  ASSUME IInv, Shrink
  PROVE  IInv' /\ [Replaced!Next]_<<Now, Earlier, src>>
  <1>1. PICK n \in Nat, a \in Nat : n = Len(src) /\ a = Len(files.db)
    BY Types, FileTypes
  <1>2. PICK d : d = IF a > n THEN SubSeq(files.db, 1, n) ELSE files.db
    OBVIOUS
  <1>3. /\ pc = "shrink" /\ Idle /\ src' = src /\ saves' = saves /\ undo' = undo
        /\ files' = [files EXCEPT !.db = d]
    BY <1>1, <1>2 DEF Shrink
  <1>4. Now = src /\ src # <<>> /\ Cold(files, src)
    BY <1>3 DEF IInv, Phase
  <1>5. d \in Seq(Pages(saves)) /\ Good(d, src)
    <2>1. Good(files.db, src) /\ files.db \in Seq(Pages(saves)) /\ src \in Saved
      BY <1>4, Types, FileTypes DEF Cold
    <2>2. CASE a > n
      <3>1. n <= Len(files.db) /\ Len(src) <= n
        BY <1>1, <2>2
      <3> QED  BY <1>1, <1>2, <1>4, <2>1, <2>2, <3>1, ShortIs, ShortGood
    <2>3. CASE ~ (a > n)
      BY <1>2, <2>1, <2>3
    <2> QED  BY <2>2, <2>3
  <1>6. /\ files' \in FileStates(saves) /\ files'.db = d
        /\ files'.jrnl = files.jrnl /\ files'.jrnlSynced = files.jrnlSynced
        /\ files'.dbSynced = files.dbSynced
    BY <1>3, <1>5, Types DEF FileStates
  <1>7. Cold(files', src) /\ Shows(files', src)
    BY <1>4, <1>5, <1>6 DEF Cold, Shows
  <1>8. Now' = Now
    BY <1>4, <1>6, <1>7, Types, ViewIs DEF Now
  <1>9. TypeOK' /\ (tx \in TxTypes)' /\ Phase(Now)'
    BY <1>3, <1>6, Types, AtRest
  <1>10. /\ Loss(undo)' /\ Lone(undo, Now)' /\ UNCHANGED <<Now, Earlier, src>>
    BY <1>3, <1>8, Stutters
  <1>11. IInv'
    BY <1>3, <1>4, <1>7, <1>8, <1>9, <1>10 DEF IInv
  <1> QED  BY <1>10, <1>11

LEMMA CutBackKeeps ==
  ASSUME IInv, CutBack
  PROVE  IInv' /\ [Replaced!Next]_<<Now, Earlier, src>>
  <1>1. /\ pc = "cut" /\ pc' = "play" /\ src' = src /\ saves' = saves
        /\ undo' = undo /\ tx' = tx /\ redo' = Played(files.jrnl)
        /\ files' = [files EXCEPT !.db = Cut(files.db, files.jrnl)]
    BY DEF CutBack
  <1>2. /\ files \in FileStates(saves) /\ Now \in Saved /\ Shows(files, Now)
    BY Types
  <1>3. src # <<>> /\ files.jrnl # <<>> /\ files.jrnl[1].is = "header"
    BY <1>1 DEF IInv, Phase
  <1>4. PICK h \in 1..Len(files.jrnl), n \in 1..Len(files.jrnl) :
          Hot(files, Now, h, n)
    BY <1>2, <1>3, FirstIs
  <1>5. Cut(files.db, files.jrnl) \in Seq(Pages(saves))
    <2>1. files.jrnl[1].orig \in Nat
      BY <1>2, <1>4, SureIs
    <2>2. files.db \in Seq(Pages(saves)) /\ Junk \in Pages(saves)
      BY <1>2, FileTypes, JunkIsPage
    <2> QED  BY <2>1, <2>2, ResizedIs DEF Cut
  <1>6. /\ files' \in FileStates(saves) /\ files'.db = Cut(files.db, files.jrnl)
        /\ files'.dbSynced = files.dbSynced
        /\ files'.jrnl = files.jrnl /\ files'.jrnlSynced = files.jrnlSynced
    BY <1>1, <1>2, <1>5 DEF FileStates
  <1>7. /\ Hot(files', Now, h, n)
        /\ Covers(Len(files'.db), Now) /\ Len(files'.db) = files.jrnl[1].orig
        /\ \A p \in 1..Len(Now) :
             p <= Len(files.db) /\ files.db[p] = Now[p] => files'.db[p] = Now[p]
    BY <1>2, <1>4, <1>6, CutShows
  <1>8. Shows(files', Now) /\ Now' = Now
    <2>1. Shows(files', Now)
      BY <1>6, <1>7 DEF Shows
    <2> QED  BY <1>2, <1>6, <2>1, ViewIs DEF Now
  <1>9. PICK r \in Seq(Items(saves)) :
          /\ r = Played(files.jrnl)
          /\ \A x \in 1..Len(r) : r[x].is = "record"
          /\ Kept(r, 1, Len(r), files.jrnl[1].orig, Now)
          /\ \A p \in 1..Len(Now) : \/ p <= Len(files.db) /\ files.db[p] = Now[p]
                                    \/ Holds(r, Len(r), p)
    BY <1>2, <1>4, HotIsPlayed
  <1>10. Playing(files'.db, r, Now)
    BY <1>7, <1>9 DEF Playing
  <1>11. TypeOK'
    BY <1>1, <1>6, <1>9 DEF IInv, TypeOK
  <1>12. Phase(Now)'
    BY <1>1, <1>3, <1>8, <1>9, <1>10 DEF Phase
  <1>13. /\ Loss(undo)' /\ Lone(undo, Now)' /\ UNCHANGED <<Now, Earlier, src>>
    BY <1>1, <1>8, Stutters
  <1>14. IInv'
    BY <1>1, <1>8, <1>11, <1>12, <1>13 DEF IInv
  <1> QED  BY <1>13, <1>14

(* The first record is played back.                                        *)
LEMMA PlayedOne ==
  ASSUME NEW k, NEW d \in Seq(Pages(k)), NEW r \in Seq(Items(k)), r # <<>>,
         NEW c \in Saved, Playing(d, r, c)
  PROVE  /\ r[1].page \in 1..Len(d) /\ r[1].data \in Pages(k)
         /\ r[1].page <= Len(c) => r[1].data = c[r[1].page]
         /\ Tail(r) \in Seq(Items(k))
         /\ Playing(Written(d, r[1].page, r[1].data, Junk), Tail(r), c)
  <1>1. PICK n \in Nat, a \in Nat, m \in Nat :
          n = Len(r) /\ a = Len(d) /\ m = Len(c) /\ n # 0
    BY LenProperties, SavedIs, EmptyIff
  <1>2. r[1] \in Items(k) /\ r[1].is = "record"
    <2>1. 1 \in 1..n
      BY <1>1
    <2> QED  BY <1>1, <2>1, ElementOfSeq DEF Playing
  <1>3. /\ r[1].page \in 1..a /\ r[1].data \in Pages(k)
        /\ r[1].page <= m => r[1].data = c[r[1].page]
    <2>1. 1 \in 1..n
      BY <1>1
    <2> QED  BY <1>1, <1>2, <2>1, RecordIs DEF Playing, Kept
  <1>4. PICK q \in 1..a : q = r[1].page
    BY <1>3
  <1>5. PICK w : w = Written(d, q, r[1].data, Junk)
    OBVIOUS
  <1>6. /\ w \in Seq(Pages(k)) /\ Len(w) = a /\ w[q] = r[1].data
        /\ \A i \in 1..a : i # q => w[i] = d[i]
    <2>1. q \in Nat \ {0} /\ ~ (a < q)
      BY <1>1
    <2>2. w \in Seq(Pages(k)) /\ Writes(w, d, q, r[1].data, Junk)
      BY <1>3, <1>5, <2>1, WrittenPage
    <2> QED  BY <1>1, <2>1, <2>2 DEF Writes
  <1> DEFINE z == Tail(r)
  <1>7. /\ z \in Seq(Items(k)) /\ Len(z) = n - 1
        /\ \A i \in 1..(n - 1) : z[i] = r[i + 1]
    BY <1>1, HeadTailProperties
  <1> HIDE DEF z
  <1>8. \A x \in 1..Len(z) : x + 1 \in 1..n /\ z[x] = r[x + 1]
    BY <1>1, <1>7
  <1>9. \A x \in 1..Len(z) : z[x].is = "record"
    BY <1>1, <1>8 DEF Playing
  <1>10. Kept(z, 1, Len(z), a, c)
    BY <1>1, <1>8 DEF Playing, Kept
  <1>11. ASSUME NEW p \in 1..m  PROVE w[p] = c[p] \/ Holds(z, Len(z), p)
    <2>1. m <= a
      BY <1>1 DEF Playing, Covers
    <2>2. CASE p = q
      BY <1>1, <1>3, <1>4, <1>6, <2>2
    <2>3. CASE p # q /\ d[p] = c[p]
      BY <1>1, <1>6, <2>1, <2>3
    <2>4. CASE p # q /\ Holds(r, n, p)
      <3>1. PICK x \in 1..n : r[x].is = "record" /\ r[x].page = p
        BY <2>4 DEF Holds
      <3>2. x # 1
        BY <1>4, <2>4, <3>1
      <3>3. x - 1 \in 1..(n - 1) /\ (x - 1) + 1 = x
        BY <1>1, <3>2
      <3>4. z[x - 1] = r[x]
        BY <1>7, <3>3
      <3> QED  BY <1>7, <3>1, <3>3, <3>4 DEF Holds
    <2> QED  BY <1>1, <2>2, <2>3, <2>4 DEF Playing
  <1>12. Covers(a, c)
    BY <1>1 DEF Playing
  <1>13. Playing(w, z, c)
    BY <1>1, <1>6, <1>9, <1>10, <1>11, <1>12 DEF Playing
  <1> QED  BY <1>1, <1>3, <1>4, <1>5, <1>7, <1>13 DEF z

LEMMA PlayBackKeeps ==
  ASSUME IInv, PlayBack
  PROVE  IInv' /\ [Replaced!Next]_<<Now, Earlier, src>>
  <1>1. /\ pc = "play" /\ pc' = "play" /\ redo # <<>> /\ redo' = Tail(redo)
        /\ src' = src /\ saves' = saves /\ undo' = undo /\ tx' = tx
        /\ files' = [files EXCEPT
             !.db = Written(files.db, redo[1].page, redo[1].data, Junk)]
    BY DEF PlayBack
  <1>2. /\ files \in FileStates(saves) /\ Now \in Saved /\ Shows(files, Now)
        /\ files.db \in Seq(Pages(saves)) /\ redo \in Seq(Items(saves))
    BY Types, FileTypes
  <1>3. src # <<>> /\ Playing(files.db, redo, Now)
    BY <1>1 DEF IInv, Phase
  <1> DEFINE q == redo[1].page
             x == redo[1].data
             w == Written(files.db, q, x, Junk)
  <1>4. /\ q \in 1..Len(files.db) /\ x \in Pages(saves)
        /\ q <= Len(Now) => x = Now[q]
        /\ Tail(redo) \in Seq(Items(saves)) /\ Playing(w, Tail(redo), Now)
    BY <1>1, <1>2, <1>3, PlayedOne
  <1>5. w \in Seq(Pages(saves))
    <2>1. q \in Nat \ {0}
      BY <1>2, <1>4, LenProperties
    <2> QED  BY <1>2, <1>4, <2>1, WrittenPage
  <1>6. /\ files' \in FileStates(saves) /\ files'.db = w
        /\ files'.dbSynced = files.dbSynced
        /\ files'.jrnl = files.jrnl /\ files'.jrnlSynced = files.jrnlSynced
    <2> HIDE DEF w
    <2>1. files' = [files EXCEPT !.db = w]
      BY <1>1 DEF w
    <2> QED  BY <1>2, <1>5, <2>1 DEF FileStates
  <1> HIDE DEF q, x, w
  <1>7. Shows(files', Now)
    BY <1>2, <1>4, <1>6, WriteShows DEF w
  <1>8. Now' = Now
    BY <1>2, <1>6, <1>7, ViewIs DEF Now
  <1>9. TypeOK'
    BY <1>1, <1>4, <1>6 DEF IInv, TypeOK
  <1>10. Phase(Now)'
    BY <1>1, <1>3, <1>4, <1>6, <1>8 DEF Phase
  <1>11. /\ Loss(undo)' /\ Lone(undo, Now)' /\ UNCHANGED <<Now, Earlier, src>>
    BY <1>1, <1>8, Stutters
  <1>12. IInv'
    BY <1>1, <1>7, <1>8, <1>9, <1>10, <1>11 DEF IInv
  <1> QED  BY <1>11, <1>12

LEMMA SyncedDb ==
  ASSUME IInv, SyncDb
  PROVE  /\ files' \in FileStates(saves) /\ Shows(files', Now) /\ Now' = Now
         /\ files'.db = files.db /\ files'.dbSynced = files.db
         /\ files'.jrnl = files.jrnl /\ files'.jrnlSynced = files.jrnlSynced
  <1>1. /\ files' \in FileStates(saves)
        /\ files'.db = files.db /\ files'.dbSynced = files.db
        /\ files'.jrnl = files.jrnl /\ files'.jrnlSynced = files.jrnlSynced
    BY Types DEF SyncDb, FileStates
  <1>2. Shows(files', Now)
    BY <1>1, Types, SyncDbShows
  <1> QED  BY <1>1, <1>2 DEF Now

LEMMA EndOfPlayKeeps ==
  ASSUME IInv, EndOfPlay
  PROVE  IInv' /\ [Replaced!Next]_<<Now, Earlier, src>>
  <1>1. /\ pc = "play" /\ pc' = "drop" /\ redo = <<>> /\ redo' = redo
        /\ src' = src /\ saves' = saves /\ undo' = undo /\ tx' = tx /\ SyncDb
    BY DEF EndOfPlay, GoTo, SyncDb
  <1>2. /\ files' \in FileStates(saves) /\ Shows(files', Now) /\ Now' = Now
        /\ files'.db = files.db /\ files'.dbSynced = files.db
        /\ files'.jrnl = files.jrnl
    BY <1>1, SyncedDb
  <1>3. src # <<>> /\ Playing(files.db, redo, Now)
    BY <1>1 DEF IInv, Phase
  <1>4. Good(files.db, Now)
    <2>1. PICK a \in Nat : a = Len(files.db)
      BY Types, FileTypes
    <2>2. a = 0 => files.db = <<>>
      <3>1. files.db \in Seq(Pages(saves))
        BY Types, FileTypes
      <3> QED  BY <2>1, <3>1, EmptyIff
    <2>3. \A p : ~ Holds(<<>>, Len(<<>>), p)
      BY EmptySeq DEF Holds
    <2> QED  BY <1>1, <1>3, <2>1, <2>2, <2>3 DEF Playing, Covers, Good
  <1>5. TypeOK'
    BY <1>1, <1>2 DEF IInv, TypeOK
  <1>6. Phase(Now)'
    BY <1>1, <1>2, <1>3, <1>4 DEF Phase
  <1>7. /\ Loss(undo)' /\ Lone(undo, Now)' /\ UNCHANGED <<Now, Earlier, src>>
    BY <1>1, <1>2, Stutters
  <1>8. IInv'
    BY <1>1, <1>2, <1>5, <1>6, <1>7 DEF IInv
  <1> QED  BY <1>7, <1>8

-----------------------------------------------------------------------------
(* The steps that write *)

LEMMA WritingTypes ==
  ASSUME NEW k, NEW e \in FileStates(k), NEW c, NEW s \in Seq(Pages(k)), NEW u,
         NEW q, NEW t \in TxTypes, Writing(e, c, s, u, q, t)
  PROVE  /\ t.need \subseteq t.dirty /\ t.dirty \subseteq DOMAIN s
         /\ t.hdr <= t.off /\ t.off <= Len(e.jrnl)
         /\ q = "spill" => t.spill \notin t.need
         /\ q = "pages" => t.need = {}
  <1>1. PICK n \in Nat : n = Len(s) /\ DOMAIN s = 1..n
    BY LenProperties
  <1>2. PagesOk(e, s, q, t)
    BY DEF Writing
  <1>3. t.need \subseteq t.dirty /\ t.dirty \subseteq 1..n
    <2>1. t.next \in 2..(n + 1) /\ t.dirty \subseteq 1..(t.next - 1)
      BY <1>1, <1>2 DEF PagesOk
    <2> QED  BY <1>2, <2>1 DEF PagesOk
  <1>4. t.hdr <= t.off /\ t.off <= Len(e.jrnl)
    BY <1>2 DEF PagesOk, TxTypes
  <1>5. /\ q = "spill" => t.spill \notin t.need
        /\ q = "pages" => t.need = {}
    BY DEF Writing, Filling, Counted
  <1> QED  BY <1>1, <1>3, <1>4, <1>5

LEMMA WritingShows ==
  ASSUME NEW k, NEW e \in FileStates(k), NEW c, NEW s, NEW u, NEW q, NEW t,
         Writing(e, c, s, u, q, t)
  PROVE  Shows(e, c)
  <1>1. ASSUME NEW h, NEW n, Hot(e, c, h, n)  PROVE Shows(e, c)
    <2>1. h \in 1..Len(e.jrnl) /\ n \in 1..Len(e.jrnl)
      BY <1>1, SureIs, FileTypes
    <2> QED  BY <1>1, <2>1 DEF Shows
  <1>2. CASE Filling(e, c, q, t)
    BY <1>1, <1>2 DEF Filling, Shows
  <1>3. CASE Counted(e, c, q, t)
    BY <1>1, <1>3 DEF Counted
  <1> QED  BY <1>2, <1>3 DEF Writing

(* A step from one state of a transaction to another keeps the invariant.  *)
LEMMA AtWrite ==
  ASSUME IInv, UNCHANGED <<src, saves, redo>>, redo = <<>>, src # <<>>,
         files' \in FileStates(saves), undo' = undo \/ undo' = {},
         (tx \in TxTypes)',
         pc' \in {"copy", "records", "header", "sync", "spill", "pages", "finish"},
         Writing(files', Now, src, undo', pc', tx')
  PROVE  IInv' /\ [Replaced!Next]_<<Now, Earlier, src>>
  <1>1. Shows(files', Now)
    BY WritingShows
  <1>2. Now' = Now
    BY <1>1, Types, ViewIs DEF Now
  <1>3. src \in Seq(Pages(saves)) /\ tx' \in TxTypes
    BY Types
  <1>4. /\ tx'.need \subseteq tx'.dirty /\ tx'.dirty \subseteq DOMAIN src
        /\ tx'.hdr <= tx'.off /\ tx'.off <= Len(files'.jrnl)
        /\ pc' = "spill" => tx'.spill \notin tx'.need
        /\ pc' = "pages" => tx'.need = {}
    BY <1>3, WritingTypes
  <1>5. TypeOK'
    BY <1>4 DEF IInv, TypeOK
  <1>6. Phase(Now)'
    BY <1>2 DEF Phase
  <1>7. /\ Loss(undo)' /\ Lone(undo, Now)' /\ [Replaced!Next]_<<Now, Earlier, src>>
    BY <1>2, Stutters, Settles
  <1> QED  BY <1>1, <1>2, <1>3, <1>5, <1>6, <1>7 DEF IInv

LEMMA InWriting ==
  ASSUME IInv,
         pc \in {"copy", "records", "header", "sync", "spill", "pages", "finish"}
  PROVE  /\ redo = <<>> /\ src # <<>> /\ Len(src) \in Nat \ {0}
         /\ \/ pc = "copy" /\ Began(files, Now, tx)
            \/ Writing(files, Now, src, undo, pc, tx)
  <1>1. Len(src) \in Nat
    BY Types
  <1>2. redo = <<>> /\ src # <<>>
    BY DEF IInv, Phase
  <1>3. Len(src) # 0
    BY <1>2, Types, EmptyIff
  <1> QED  BY <1>1, <1>2, <1>3 DEF IInv, Phase

LEMMA SpillKeeps ==
  ASSUME IInv, Spill
  PROVE  IInv' /\ [Replaced!Next]_<<Now, Earlier, src>>
  <1>1. PICK p \in tx.dirty \ {1} :
          /\ tx' = [tx EXCEPT !.spill = p]
          /\ pc' = IF p \in tx.need \/ ~tx.dbmod THEN "records" ELSE "spill"
    BY DEF Spill
  <1>2. /\ pc = "copy" /\ files' = files /\ undo' = undo /\ src' = src
        /\ saves' = saves /\ redo' = redo
    BY DEF Spill
  <1>3. tx \in TxTypes /\ files \in FileStates(saves)
    BY Types
  <1>4. Writing(files, Now, src, undo, pc, tx) /\ redo = <<>> /\ src # <<>>
    <2>1. ~ Began(files, Now, tx)
      BY <1>1, <1>3, BegunIs
    <2> QED  BY <1>2, <2>1, InWriting
  <1>5. PagesOk(files, src, pc, tx) /\ Copied(files, Now, tx) /\ Filling(files, Now, pc, tx)
    BY <1>2, <1>4 DEF Writing, Counted
  <1>6. /\ tx' \in TxTypes /\ tx'.on = tx.on /\ tx'.orig = tx.orig
        /\ tx'.off = tx.off /\ tx'.hdr = tx.hdr /\ tx'.next = tx.next
        /\ tx'.dirty = tx.dirty /\ tx'.need = tx.need /\ tx'.dbmod = tx.dbmod
        /\ tx'.spill = p
    BY <1>1, <1>3 DEF TxTypes
  <1>7. p # 0
    BY <1>3, <1>5 DEF PagesOk, TxTypes
  <1>8. PagesOk(files, src, pc', tx')
    BY <1>1, <1>5, <1>6, <1>7 DEF PagesOk
  <1>9. Copied(files, Now, tx')
    BY <1>5, <1>6 DEF Copied
  <1>10. Filling(files, Now, pc', tx')
    BY <1>1, <1>5, <1>6, <1>7 DEF Filling
  <1>11. Writing(files', Now, src, undo', pc', tx')
    BY <1>2, <1>4, <1>6, <1>8, <1>9, <1>10 DEF Writing
  <1> QED  BY <1>1, <1>2, <1>3, <1>4, <1>6, <1>11, AtWrite

LEMMA CommitKeeps ==
  ASSUME IInv, Commit
  PROVE  IInv' /\ [Replaced!Next]_<<Now, Earlier, src>>
  <1>1. /\ pc = "copy" /\ pc' = "records" /\ files' = files /\ undo' = undo
        /\ src' = src /\ saves' = saves /\ redo' = redo /\ tx.next > Len(src)
        /\ tx' = [tx EXCEPT !.dirty = @ \cup {1}]
    BY DEF Commit
  <1>2. tx \in TxTypes /\ files \in FileStates(saves)
    BY Types
  <1>3. PICK n \in Nat \ {0} : n = Len(src)
    BY <1>1, InWriting
  <1>4. Writing(files, Now, src, undo, pc, tx) /\ redo = <<>> /\ src # <<>>
    <2>1. ~ Began(files, Now, tx)
      BY <1>1, <1>2, <1>3, BegunIs
    <2> QED  BY <1>1, <2>1, InWriting
  <1>5. PagesOk(files, src, pc, tx) /\ Copied(files, Now, tx) /\ Filling(files, Now, pc, tx)
    BY <1>1, <1>4 DEF Writing, Counted
  <1>6. /\ tx' \in TxTypes /\ tx'.on = tx.on /\ tx'.orig = tx.orig
        /\ tx'.off = tx.off /\ tx'.hdr = tx.hdr /\ tx'.next = tx.next
        /\ tx'.dirty = tx.dirty \cup {1} /\ tx'.need = tx.need
        /\ tx'.dbmod = tx.dbmod /\ tx'.spill = tx.spill
    BY <1>1, <1>2 DEF TxTypes
  <1>7. tx.next \in 2..(n + 1) /\ tx.next = n + 1 /\ tx.spill = 0
    BY <1>1, <1>2, <1>3, <1>5 DEF PagesOk, TxTypes
  <1>8. PagesOk(files, src, pc', tx')
    <2>1. tx'.dirty \subseteq 1..(tx'.next - 1)
      BY <1>3, <1>5, <1>6, <1>7 DEF PagesOk
    <2> QED  BY <1>1, <1>3, <1>5, <1>6, <1>7, <2>1 DEF PagesOk
  <1>9. Copied(files, Now, tx')
    BY <1>5, <1>6 DEF Copied
  <1>10. Filling(files, Now, pc', tx')
    BY <1>1, <1>5, <1>6, <1>7 DEF Filling
  <1>11. Writing(files', Now, src, undo', pc', tx')
    BY <1>1, <1>4, <1>6, <1>8, <1>9, <1>10 DEF Writing
  <1> QED  BY <1>1, <1>2, <1>4, <1>6, <1>11, AtWrite

LEMMA SyncRecordsKeeps ==
  ASSUME IInv, SyncRecords
  PROVE  IInv' /\ [Replaced!Next]_<<Now, Earlier, src>>
  <1>1. /\ pc = "records" /\ pc' = "header" /\ SyncJournal /\ undo' = {}
        /\ src' = src /\ saves' = saves /\ redo' = redo /\ tx' = tx
    BY DEF SyncRecords, GoTo, SyncJournal
  <1>2. tx \in TxTypes /\ files \in FileStates(saves)
    BY Types
  <1>3. Writing(files, Now, src, undo, pc, tx) /\ redo = <<>> /\ src # <<>>
    BY <1>1, InWriting
  <1>4. PagesOk(files, src, pc, tx) /\ Copied(files, Now, tx) /\ Filling(files, Now, pc, tx)
    BY <1>1, <1>3 DEF Writing, Counted
  <1>5. /\ files' \in FileStates(saves)
        /\ files'.db = files.db /\ files'.dbSynced = files.dbSynced
        /\ files'.jrnl = files.jrnl /\ files'.jrnlSynced = files.jrnl
    BY <1>1, SyncedJournal
  <1>6. PagesOk(files', src, pc', tx)
    BY <1>1, <1>4, <1>5 DEF PagesOk
  <1>7. Copied(files', Now, tx)
    BY <1>4, <1>5 DEF Copied, Untouched
  <1>8. ASSUME NEW h \in 1..(tx.hdr - 1), Hot(files, Now, h, tx.hdr - 1)
        PROVE  Hot(files', Now, h, tx.hdr - 1) /\ h \in Heads(files'.jrnlSynced)
    <2>1. PICK n : n = tx.hdr - 1
      OBVIOUS
    <2>2. Tiled(files.jrnl, n) /\ h \in Heads(files.jrnl)
      BY <1>8, <2>1 DEF Hot
    <2>3. n <= Len(files'.jrnl) /\ n <= Len(files'.jrnlSynced)
      BY <1>2, <1>5, <1>8, <2>1, SureIs
    <2>4. \A i \in Heads(files.jrnl) : i <= n
      BY <1>2, <2>2, FileTypes, TiledIs
    <2> QED  BY <1>2, <1>5, <1>8, <2>1, <2>2, <2>3, <2>4, HotAgain
  <1>9. Filling(files', Now, pc', tx)
    <2>1. tx.dbmod => \E h \in 1..(tx.hdr - 1) :
                        Hot(files', Now, h, tx.hdr - 1) /\ h \in Heads(files'.jrnlSynced)
      BY <1>4, <1>8 DEF Filling
    <2>2. ~ tx.dbmod => Cold(files', Now)
      BY <1>4, <1>5 DEF Filling, Cold
    <2> QED  BY <1>1, <1>4, <1>5, <2>1, <2>2 DEF Filling
  <1>10. Writing(files', Now, src, undo', pc', tx')
    BY <1>1, <1>6, <1>7, <1>9 DEF Writing
  <1> QED  BY <1>1, <1>2, <1>3, <1>5, <1>10, AtWrite

LEMMA HeaderPut ==
  ASSUME NEW k, NEW j \in Seq(Items(k)), NEW h \in 1..Len(j), NEW r \in Nat,
         NEW m \in Nat, NEW w, w = [j EXCEPT ![h] = Header(r, m)]
  PROVE  /\ w \in Seq(Items(k)) /\ Len(w) = Len(j)
         /\ w[h].is = "header" /\ w[h].recs = r /\ w[h].orig = m
         /\ \A i \in 1..Len(j) : i # h => w[i] = j[i]
         /\ Heads(w) = Heads(j) \cup {h}
  <1>1. PICK n \in Nat : n = Len(j) /\ DOMAIN j = 1..n /\ j \in [1..n -> Items(k)]
    BY LenProperties
  <1>2. PICK x : x = Header(r, m)
    OBVIOUS
  <1>3. x \in Items(k) /\ x.is = "header" /\ x.recs = r /\ x.orig = m
    BY <1>2 DEF Header, Items
  <1>4. /\ w \in [1..n -> Items(k)] /\ w[h] = x
        /\ \A i \in 1..n : i # h => w[i] = j[i]
    BY <1>1, <1>2, <1>3
  <1>5. w \in Seq(Items(k)) /\ Len(w) = n /\ DOMAIN w = 1..n
    BY <1>4, FunctionIsSeq
  <1>6. Heads(w) = Heads(j) \cup {h}
    BY <1>1, <1>3, <1>4, <1>5 DEF Heads
  <1> QED  BY <1>1, <1>3, <1>4, <1>5, <1>6

(* The header takes the records that are synced behind it into account.    *)
LEMMA HeaderCounts ==
  ASSUME NEW k, NEW e \in FileStates(k), NEW f \in FileStates(k),
         NEW c \in Saved, NEW t \in TxTypes,
         Filling(e, c, "header", t), Copied(e, c, t),
         t.hdr \in 1..t.off, t.off <= Len(e.jrnl),
         f.db = e.db, f.dbSynced = e.dbSynced, f.jrnlSynced = e.jrnlSynced,
         f.jrnl = [e.jrnl EXCEPT ![t.hdr] = Header(t.off - t.hdr, t.orig)]
  PROVE  /\ Hot(f, c, t.hdr, t.off) /\ f.jrnl[1].orig = t.orig
         /\ t.hdr \notin Heads(f.jrnlSynced)
  <1>1. PICK h \in Nat, n \in Nat, l \in Nat, m \in Nat :
          h = t.hdr /\ n = t.off /\ l = Len(e.jrnl) /\ m = t.orig
    BY FileTypes DEF TxTypes
  <1>2. h \in 1..n /\ n <= l /\ h \in 1..l
    BY <1>1
  <1>3. e.jrnl \in Seq(Items(k)) /\ e.jrnlSynced = e.jrnl /\ DOMAIN e.jrnl = 1..l
    BY <1>1, FileTypes, LenProperties DEF Filling
  <1> DEFINE j == f.jrnl
  <1>15. j = [e.jrnl EXCEPT ![h] = Header(n - h, m)]
    BY <1>1
  <1>4. /\ j \in Seq(Items(k)) /\ Len(j) = l
        /\ j[h].is = "header" /\ j[h].recs = n - h /\ j[h].orig = m
        /\ \A i \in 1..l : i # h => j[i] = e.jrnl[i]
        /\ Heads(j) = Heads(e.jrnl) \cup {h}
    <2>1. /\ n - h \in Nat /\ h \in 1..Len(e.jrnl) /\ Len(e.jrnl) = l
          /\ e.jrnl \in Seq(Items(k))
      BY <1>1, <1>2, <1>3
    <2> HIDE DEF j
    <2>2. /\ j \in Seq(Items(k)) /\ Len(j) = Len(e.jrnl)
          /\ j[h].is = "header" /\ j[h].recs = n - h /\ j[h].orig = m
          /\ \A i \in 1..Len(e.jrnl) : i # h => j[i] = e.jrnl[i]
          /\ Heads(j) = Heads(e.jrnl) \cup {h}
      BY <1>15, <2>1, HeaderPut
    <2> QED  BY <2>1, <2>2
  <1>5. h \notin Heads(e.jrnl)
    BY <1>1 DEF Filling, Heads, Zero
  <1>6. CASE t.dbmod
    <2>1. PICK g \in 1..(h - 1) : Hot(e, c, g, h - 1) /\ g \in Heads(e.jrnlSynced)
      BY <1>1, <1>6 DEF Filling
    <2>2. e.jrnl[1].orig = m /\ Tiled(e.jrnl, h - 1)
      BY <1>1, <1>6, <2>1 DEF Filling, Hot
    <2>3. /\ \A i \in Heads(e.jrnl) :
               /\ i \in 1..(h - 1) /\ e.jrnl[i].recs \in Nat
               /\ i + e.jrnl[i].recs <= h - 1
               /\ \A x \in i + 1 .. i + e.jrnl[i].recs : e.jrnl[x].is = "record"
          /\ h - 1 >= 1
      BY <1>3, <2>2, TiledIs
    <2>4. 1 \in Heads(e.jrnl) /\ 1 \in 1..l /\ 1 # h
      BY <1>2, <2>2, <2>3 DEF Tiled
    <2>5. \A i \in 1..(h - 1) : i \in 1..l /\ i # h /\ j[i] = e.jrnl[i]
      BY <1>2, <1>4
    <2>6. \A i \in h + 1 .. n : i \in 1..l /\ i # h /\ j[i] = e.jrnl[i] /\ j[i].is = "record"
      <3>1. \A i \in h + 1 .. n : e.jrnl[i].is = "record"
        BY <1>1 DEF Copied
      <3>2. \A i \in h + 1 .. n : i \in 1..l /\ i # h
        BY <1>2
      <3>3. \A i \in h + 1 .. n : j[i] = e.jrnl[i]
        BY <1>4, <3>2
      <3> HIDE DEF j
      <3> QED  BY <3>1, <3>2, <3>3
    <2>7. Tiled(j, n)
      <3>1. ASSUME NEW i \in Heads(j)
            PROVE  /\ i + j[i].recs <= n
                   /\ \A x \in i + 1 .. i + j[i].recs : j[x].is = "record"
        <4>1. CASE i = h
          BY <1>2, <1>4, <2>6, <4>1
        <4>2. CASE i \in Heads(e.jrnl)
          <5>1. PICK r \in Nat : r = e.jrnl[i].recs /\ i + r <= h - 1 /\ i \in 1..(h - 1)
            BY <2>3, <4>2
          <5>2. j[i].recs = r
            BY <2>5, <5>1
          <5>3. \A x \in i + 1 .. i + r : x \in 1..(h - 1) /\ e.jrnl[x].is = "record"
            BY <2>3, <4>2, <5>1
          <5> QED  BY <1>2, <2>5, <5>1, <5>2, <5>3
        <4> QED  BY <1>4, <4>1, <4>2
      <3>2. ASSUME NEW i \in 1..n
            PROVE  i \in Heads(j) \/ \E x \in Heads(j) : i \in x + 1 .. x + j[x].recs
        <4>1. CASE i = h
          BY <1>4, <4>1
        <4>2. CASE i > h
          <5>1. i \in h + 1 .. h + j[h].recs
            BY <1>2, <1>4, <4>2
          <5> QED  BY <1>4, <5>1
        <4>3. CASE i < h
          <5>1. i \in 1..(h - 1)
            BY <4>3
          <5>2. i \in Heads(e.jrnl) \/ \E x \in Heads(e.jrnl) : i \in x + 1 .. x + e.jrnl[x].recs
            BY <2>2, <5>1 DEF Tiled, Under
          <5>3. \A x \in Heads(e.jrnl) : x \in Heads(j) /\ j[x] = e.jrnl[x]
            BY <1>4, <2>3, <2>5
          <5> QED  BY <5>2, <5>3
        <4>4. i < h \/ i = h \/ i > h
          BY <1>2
        <4> QED  BY <4>1, <4>2, <4>3, <4>4
      <3>3. n \in 1..Len(j) /\ 1 \in Heads(j)
        <4>1. h \in Nat /\ n \in Nat /\ 1 <= h /\ h <= n /\ n <= l /\ Len(j) = l
          BY <1>2, <1>4
        <4>2. 1 \in Heads(j)
          BY <1>4, <2>4
        <4> HIDE DEF j
        <4> QED  BY <4>1, <4>2
      <3> QED  BY <3>1, <3>2, <3>3 DEF Tiled, Under
    <2>8. j[1].orig = m
      BY <1>4, <2>2, <2>4
    <2>9. Kept(j, 1, n, m, c)
      <3>1. Kept(e.jrnl, 1, h - 1, m, c) /\ Kept(e.jrnl, h + 1, n, m, c)
        BY <1>1, <2>1, <2>2 DEF Hot, Copied
      <3>2. \A i \in 1..n : i \in 1..(h - 1) \/ i = h \/ i \in h + 1 .. n
        BY <1>2
      <3> QED  BY <1>4, <2>5, <2>6, <3>1, <3>2 DEF Kept
    <2>10. Sure(f, h, n) = h - 1 /\ h - 1 # 0 /\ Sure(e, g, h - 1) = h - 1
      BY <1>3, <1>5, <2>1, <2>3 DEF Sure
    <2>11. ASSUME NEW p \in 1..Len(c)
           PROVE  Untouched(f, c, p) \/ Holds(j, h - 1, p)
      <3>1. Untouched(e, c, p) \/ Holds(e.jrnl, h - 1, p)
        BY <2>1, <2>10 DEF Hot
      <3>2. Untouched(e, c, p) => Untouched(f, c, p)
        BY DEF Untouched
      <3>3. Holds(e.jrnl, h - 1, p) => Holds(j, h - 1, p)
        BY <2>5 DEF Holds
      <3> QED  BY <3>1, <3>2, <3>3
    <2>12. \A i \in 1..n \ {h} : i <= Len(f.jrnlSynced) /\ f.jrnlSynced[i] = j[i]
      BY <1>1, <1>2, <1>3, <1>4
    <2>13. \A i \in Heads(f.jrnlSynced) : i <= n /\ f.jrnlSynced[i] = j[i]
      BY <1>2, <1>3, <2>3, <2>5
    <2>14. c # <<>> => f.db # <<>> /\ f.dbSynced # <<>>
      BY <2>1 DEF Hot
    <2>15. Covers(m, c) /\ h \in Heads(j) /\ h + j[h].recs = n
      <3>1. Covers(m, c)
        BY <1>1 DEF Copied
      <3>2. h + (n - h) = n
        BY <1>2
      <3> QED  BY <1>4, <3>1, <3>2
    <2>16. Hot(f, c, h, n)
      BY <2>7, <2>8, <2>9, <2>10, <2>11, <2>12, <2>13, <2>14, <2>15 DEF Hot
    <2> QED  BY <1>1, <1>3, <1>5, <2>8, <2>16
  <1>7. CASE ~ t.dbmod
    <2>1. h = 1 /\ Cold(e, c)
      BY <1>1, <1>7 DEF Filling
    <2>2. Heads(j) = {1}
      BY <1>4, <2>1 DEF Cold
    <2>3. \A i \in 2..n : i \in 1..l /\ i # h /\ j[i] = e.jrnl[i] /\ j[i].is = "record"
      BY <1>1, <1>2, <1>4, <2>1 DEF Copied
    <2>4. Tiled(j, n)
      <3>1. \A i \in 2 .. 1 + j[1].recs : j[i].is = "record"
        BY <1>4, <2>1, <2>3
      <3>2. 1 + j[1].recs = n /\ n \in 1..Len(j)
        BY <1>2, <1>4, <2>1
      <3>3. \A i \in 1..n : i = 1 \/ i \in 2..n
        BY <1>2
      <3>4. \A i \in Heads(j) : /\ i + j[i].recs <= n
                                /\ \A x \in i + 1 .. i + j[i].recs : j[x].is = "record"
        BY <1>2, <2>2, <3>1, <3>2
      <3>5. ASSUME NEW i \in 1..n
            PROVE  i \in Heads(j) \/ \E x \in Heads(j) : i \in x + 1 .. x + j[x].recs
        <4>1. CASE i = 1
          BY <2>2, <4>1
        <4>2. CASE i \in 2..n
          <5>1. i \in 1 + 1 .. 1 + j[1].recs /\ 1 \in Heads(j)
            BY <2>2, <3>2, <4>2
          <5> QED  BY <5>1
        <4> QED  BY <3>3, <4>1, <4>2
      <3>6. 1 \in Heads(j)
        BY <2>2
      <3> QED  BY <3>2, <3>4, <3>5, <3>6 DEF Tiled, Under
    <2>5. Kept(j, 1, n, m, c)
      <3>1. Kept(e.jrnl, 2, n, m, c)
        BY <1>1, <2>1 DEF Copied
      <3>2. \A i \in 1..n : i = 1 \/ i \in 2..n
        BY <1>2
      <3> QED  BY <1>4, <2>1, <2>3, <3>1, <3>2 DEF Kept
    <2>6. Sure(f, h, n) = 0
      BY <1>3, <1>5, <2>1 DEF Sure
    <2>7. Good(f.db, c) /\ Good(f.dbSynced, c) /\ Heads(f.jrnlSynced) = {}
      BY <1>3, <2>1 DEF Cold
    <2>8. PICK z \in Nat, a \in Nat, b \in Nat :
            z = Len(c) /\ a = Len(f.db) /\ b = Len(f.dbSynced)
      BY FileTypes, SavedIs
    <2>9. \A p \in 1..z : Untouched(f, c, p)
      BY <2>7, <2>8 DEF Untouched, Good
    <2>10. c # <<>> => f.db # <<>> /\ f.dbSynced # <<>>
      <3>1. c # <<>> => z # 0
        BY <2>8, SavedIs
      <3>2. z <= a /\ z <= b
        BY <2>7, <2>8 DEF Good
      <3>3. (f.db = <<>> => a = 0) /\ (f.dbSynced = <<>> => b = 0)
        BY <2>8, EmptySeq
      <3> QED  BY <3>1, <3>2, <3>3
    <2>11. \A i \in 1..n \ {h} : i <= Len(f.jrnlSynced) /\ f.jrnlSynced[i] = j[i]
      BY <1>1, <1>2, <1>3, <1>4
    <2>12. Covers(m, c) /\ h \in Heads(j) /\ h + j[h].recs = n /\ j[1].orig = m
      BY <1>1, <1>2, <1>4, <2>1 DEF Copied
    <2>13. Hot(f, c, h, n)
      BY <2>4, <2>5, <2>6, <2>7, <2>8, <2>9, <2>10, <2>11, <2>12 DEF Hot
    <2> QED  BY <1>1, <1>3, <1>5, <2>12, <2>13
  <1> QED  BY <1>6, <1>7

LEMMA WriteHeaderKeeps ==
  ASSUME IInv, WriteHeader
  PROVE  IInv' /\ [Replaced!Next]_<<Now, Earlier, src>>
  <1>1. /\ pc = "header" /\ pc' = "sync" /\ undo' = undo
        /\ src' = src /\ saves' = saves /\ redo' = redo /\ tx' = tx
    BY DEF WriteHeader, GoTo
  <1> DEFINE j == [files.jrnl EXCEPT ![tx.hdr] = Header(tx.off - tx.hdr, tx.orig)]
  <1>2. files' = [files EXCEPT !.jrnl = j]
    BY DEF WriteHeader
  <1>3. tx \in TxTypes /\ files \in FileStates(saves) /\ Now \in Saved
    BY Types
  <1>4. Writing(files, Now, src, undo, pc, tx) /\ redo = <<>> /\ src # <<>>
    BY <1>1, InWriting
  <1>5. PagesOk(files, src, pc, tx) /\ Copied(files, Now, tx) /\ Filling(files, Now, pc, tx)
    BY <1>1, <1>4 DEF Writing, Counted
  <1>6. PICK h \in Nat, n \in Nat, l \in Nat, m \in Nat :
          /\ h = tx.hdr /\ n = tx.off /\ l = Len(files.jrnl) /\ m = tx.orig
          /\ h \in 1..n /\ n <= l
    BY <1>3, <1>5, FileTypes DEF TxTypes, PagesOk
  <1>7. j \in Seq(Items(saves)) /\ Len(j) = l /\ \A i \in 1..l : i # h => j[i] = files.jrnl[i]
    <2>1. h \in 1..Len(files.jrnl) /\ n - h \in Nat /\ files.jrnl \in Seq(Items(saves))
      BY <1>3, <1>6, FileTypes
    <2>2. j = [files.jrnl EXCEPT ![h] = Header(n - h, m)]
      BY <1>6
    <2> HIDE DEF j
    <2> QED  BY <1>6, <2>1, <2>2, HeaderPut
  <1> HIDE DEF j
  <1>8. /\ files' \in FileStates(saves) /\ files'.jrnl = j
        /\ files'.db = files.db /\ files'.dbSynced = files.dbSynced
        /\ files'.jrnlSynced = files.jrnlSynced
    BY <1>2, <1>3, <1>7 DEF FileStates
  <1>9. /\ Hot(files', Now, h, n) /\ j[1].orig = m
        /\ h \notin Heads(files'.jrnlSynced)
    <2>1. files'.jrnl = [files.jrnl EXCEPT ![tx.hdr] = Header(tx.off - tx.hdr, tx.orig)]
      BY <1>8 DEF j
    <2>2. Filling(files, Now, "header", tx) /\ Copied(files, Now, tx)
      BY <1>1, <1>5
    <2>3. tx.hdr \in 1..tx.off /\ tx.off <= Len(files.jrnl)
      BY <1>6
    <2> QED  BY <1>3, <1>6, <1>8, <2>1, <2>2, <2>3, HeaderCounts
  <1>10. PagesOk(files', src, pc', tx)
    BY <1>1, <1>5, <1>6, <1>7, <1>8 DEF PagesOk
  <1>11. Copied(files', Now, tx)
    <2>1. \A i \in h + 1 .. n : j[i] = files.jrnl[i]
      BY <1>6, <1>7
    <2>2. \A p : Holds(files.jrnl, n, p) => Holds(j, n, p)
      <3> SUFFICES ASSUME NEW p, NEW i \in 1..n, files.jrnl[i].is = "record",
                          files.jrnl[i].page = p
                   PROVE  Holds(j, n, p)
        BY DEF Holds
      <3>1. i # h
        BY <1>5, <1>6 DEF Filling, Zero
      <3>2. i \in 1..l
        BY <1>6
      <3> QED  BY <1>7, <3>1, <3>2 DEF Holds
    <2> QED  BY <1>5, <1>6, <1>8, <2>1, <2>2 DEF Copied, Kept, Untouched
  <1>12. Counted(files', Now, pc', tx)
    <2>1. tx.dbmod <=> h # 1
      BY <1>5, <1>6 DEF Filling
    <2> QED  BY <1>1, <1>6, <1>8, <1>9, <2>1 DEF Counted
  <1>13. Writing(files', Now, src, undo', pc', tx')
    BY <1>1, <1>4, <1>10, <1>11, <1>12 DEF Writing
  <1> QED  BY <1>1, <1>3, <1>4, <1>8, <1>13, AtWrite

(* An item that is no header is written to the journal.                    *)
LEMMA WrittenItem ==
  ASSUME NEW k, NEW j \in Seq(Items(k)), NEW i \in Nat \ {0}, NEW x \in Items(k),
         x.is # "header", NEW w, w = Written(j, i, x, JunkItem)
  PROVE  /\ w \in Seq(Items(k)) /\ Writes(w, j, i, x, JunkItem)
         /\ Heads(w) \subseteq Heads(j)
  <1>1. JunkItem \in Items(k) /\ JunkItem.is = "junk"
    BY DEF Items, JunkItem
  <1>2. w \in Seq(Items(k)) /\ Writes(w, j, i, x, JunkItem)
    BY <1>1, WrittenIs
  <1>3. PICK n \in Nat, m \in Nat :
          /\ n = Len(j) /\ DOMAIN j = 1..n /\ m = Len(w) /\ DOMAIN w = 1..m
    BY <1>2, LenProperties
  <1>4. ASSUME NEW g \in Heads(w)  PROVE g \in Heads(j)
    <2>1. g \in 1..m /\ w[g].is = "header"
      BY <1>3 DEF Heads
    <2>2. m = IF n < i THEN i ELSE n
      BY <1>2, <1>3 DEF Writes
    <2>3. g # i
      BY <1>2, <2>1 DEF Writes
    <2>4. ~ (g \in n + 1 .. i - 1)
      BY <1>1, <1>2, <1>3, <2>1 DEF Writes
    <2>5. g \in 1..n
      BY <2>1, <2>2, <2>3, <2>4
    <2> QED  BY <1>2, <1>3, <2>1, <2>3, <2>5 DEF Writes, Heads
  <1> QED  BY <1>2, <1>4

LEMMA SyncHeaderSettles ==
  ASSUME IInv, SyncHeader
  PROVE  IInv' /\ [Replaced!Next]_<<Now, Earlier, src>>
  <1>1. /\ pc = "sync" /\ undo' = {} /\ src' = src /\ saves' = saves /\ redo' = redo
    BY DEF SyncHeader
  <1>2. tx \in TxTypes /\ files \in FileStates(saves) /\ Now \in Saved
    BY Types
  <1>3. Writing(files, Now, src, undo, pc, tx) /\ redo = <<>> /\ src # <<>>
    BY <1>1, InWriting
  <1>4. PagesOk(files, src, pc, tx) /\ Copied(files, Now, tx) /\ Counted(files, Now, pc, tx)
    BY <1>1, <1>3 DEF Writing, Filling
  <1>5. PICK h \in Nat, n \in Nat, l \in Nat, m \in Nat :
          /\ h = tx.hdr /\ n = tx.off /\ l = Len(files.jrnl) /\ m = tx.orig
          /\ h \in 1..n /\ n <= l
    BY <1>2, <1>4, FileTypes DEF TxTypes, PagesOk
  <1> DEFINE o == IF tx.spill = 0 THEN n ELSE n + 1
             w == IF tx.spill = 0 THEN files.jrnl
                  ELSE Written(files.jrnl, n + 1, Zero, JunkItem)
  <1>6. /\ files' = [files EXCEPT !.jrnlSynced = files.jrnl, !.jrnl = w]
        /\ tx' = [tx EXCEPT !.need = {}, !.dbmod = TRUE, !.off = o,
                            !.hdr = IF tx.spill = 0 THEN @ ELSE o]
        /\ pc' = IF tx.spill = 0 THEN "pages" ELSE "spill"
    BY <1>5 DEF SyncHeader
  <1>7. files.jrnl \in Seq(Items(saves)) /\ n + 1 \in Nat \ {0}
    BY <1>2, FileTypes
  <1>8. /\ w \in Seq(Items(saves)) /\ o <= Len(w)
        /\ \A i \in 1..n : w[i] = files.jrnl[i]
        /\ Heads(w) \subseteq Heads(files.jrnl)
        /\ tx.spill # 0 => w[n + 1] = Zero
    <2>1. CASE tx.spill = 0
      BY <1>5, <1>7, <2>1
    <2>2. CASE tx.spill # 0
      <3>1. Zero \in Items(saves) /\ Zero.is # "header"
        BY DEF Items, Zero
      <3>2. w = Written(files.jrnl, n + 1, Zero, JunkItem) /\ o = n + 1
        BY <2>2
      <3> HIDE DEF w, o
      <3>3. /\ w \in Seq(Items(saves)) /\ Writes(w, files.jrnl, n + 1, Zero, JunkItem)
            /\ Heads(w) \subseteq Heads(files.jrnl)
        BY <1>7, <3>1, <3>2, WrittenItem
      <3>4. Len(w) = IF l < n + 1 THEN n + 1 ELSE l
        BY <1>5, <3>3 DEF Writes
      <3> QED  BY <1>5, <3>2, <3>3, <3>4 DEF Writes
    <2> QED  BY <2>1, <2>2
  <1>9. o \in Nat /\ o >= n
    OBVIOUS
  <1> HIDE DEF w, o
  <1>10. /\ files' \in FileStates(saves) /\ files'.jrnl = w
         /\ files'.db = files.db /\ files'.dbSynced = files.dbSynced
         /\ files'.jrnlSynced = files.jrnl
    BY <1>2, <1>6, <1>7, <1>8 DEF FileStates
  <1>11. /\ tx' \in TxTypes /\ tx'.on = tx.on /\ tx'.orig = tx.orig
         /\ tx'.off = o /\ tx'.hdr = (IF tx.spill = 0 THEN h ELSE o)
         /\ tx'.next = tx.next /\ tx'.dirty = tx.dirty /\ tx'.need = {}
         /\ tx'.dbmod /\ tx'.spill = tx.spill
    BY <1>2, <1>5, <1>6, <1>9 DEF TxTypes
  <1>12. Hot(files, Now, h, n) /\ Tiled(files.jrnl, n) /\ h \in Heads(files.jrnl)
    BY <1>4, <1>5 DEF Counted, Hot
  <1>13. Hot(files', Now, h, n) /\ h \in Heads(files'.jrnlSynced)
    <2>1. \A i \in Heads(files.jrnl) : i <= n
      BY <1>7, <1>12, TiledIs
    <2>2. \A i \in Heads(files'.jrnl) : i <= n
      BY <1>8, <1>10, <2>1
    <2>3. n <= Len(files'.jrnl) /\ n <= Len(files'.jrnlSynced)
      <3>1. PICK z \in Nat : z = Len(w)
        BY <1>8, LenProperties
      <3> QED  BY <1>5, <1>8, <1>9, <1>10, <3>1
    <2> QED  BY <1>2, <1>8, <1>10, <1>12, <2>1, <2>2, <2>3, HotAgain
  <1>14. PagesOk(files', src, pc', tx')
    <2>1. PICK z \in Nat : z = Len(w)
      BY <1>8, LenProperties
    <2>2. tx'.hdr \in 1..tx'.off /\ tx'.off <= Len(files'.jrnl)
      BY <1>5, <1>8, <1>9, <1>10, <1>11, <2>1
    <2>3. tx'.spill = 0 => tx'.next = Len(src) + 1
      BY <1>1, <1>4, <1>11 DEF PagesOk
    <2>4. tx'.spill # 0 => pc' = "spill"
      BY <1>6, <1>11
    <2> QED  BY <1>4, <1>10, <1>11, <2>2, <2>3, <2>4 DEF PagesOk
  <1>15. \A p : Holds(files.jrnl, n, p) => Holds(w, n, p) /\ Holds(w, o, p)
    <2> SUFFICES ASSUME NEW p, NEW i \in 1..n, files.jrnl[i].is = "record",
                        files.jrnl[i].page = p
                 PROVE  Holds(w, n, p) /\ Holds(w, o, p)
      BY DEF Holds
    <2>1. w[i] = files.jrnl[i] /\ i \in 1..o
      BY <1>8, <1>9
    <2> QED  BY <2>1 DEF Holds
  <1>16. /\ Covers(m, Now)
         /\ Kept(files.jrnl, h + 1, n, m, Now)
         /\ \A i \in h + 1 .. n : files.jrnl[i].is = "record"
         /\ \A p \in 1..(tx.next - 1) : p <= m => Holds(files.jrnl, n, p)
         /\ \A p \in 1..Len(Now) : p >= tx.next => Untouched(files', Now, p)
    BY <1>4, <1>5, <1>10 DEF Copied, Untouched
  <1>17. w[1].orig = m
    <2>1. 1 \in 1..n
      BY <1>5
    <2> QED  BY <1>4, <1>5, <1>8, <2>1 DEF Counted
  <1>18. CASE tx.spill = 0
    <2>1. o = n /\ tx'.hdr = h /\ pc' = "pages"
      BY <1>6, <1>11, <1>18 DEF o
    <2>2. \A i \in h + 1 .. n : i \in 1..n /\ w[i] = files.jrnl[i]
      BY <1>5, <1>8
    <2>3. Copied(files', Now, tx')
      BY <1>5, <1>10, <1>11, <1>15, <1>16, <2>1, <2>2 DEF Copied, Kept
    <2>4. Counted(files', Now, pc', tx')
      BY <1>5, <1>10, <1>11, <1>13, <1>17, <2>1 DEF Counted
    <2>5. Writing(files', Now, src, undo', pc', tx')
      BY <1>1, <1>14, <2>3, <2>4 DEF Writing
    <2> QED  BY <1>1, <1>2, <1>3, <1>10, <1>11, <2>1, <2>5, AtWrite
  <1>19. CASE tx.spill # 0
    <2>1. o = n + 1 /\ tx'.hdr = n + 1 /\ pc' = "spill" /\ (n + 1) - 1 = n
      BY <1>6, <1>11, <1>19 DEF o
    <2>2. \A i : i \notin (n + 1) + 1 .. n + 1
      OBVIOUS
    <2>3. Copied(files', Now, tx')
      BY <1>5, <1>10, <1>11, <1>15, <1>16, <2>1, <2>2 DEF Copied, Kept
    <2>4. Filling(files', Now, pc', tx')
      BY <1>5, <1>8, <1>10, <1>11, <1>13, <1>15, <1>16, <1>17, <1>19, <2>1 DEF Filling
    <2>5. Writing(files', Now, src, undo', pc', tx')
      BY <1>1, <1>14, <2>3, <2>4 DEF Writing
    <2> QED  BY <1>1, <1>2, <1>3, <1>10, <1>11, <2>1, <2>5, AtWrite
  <1> QED  BY <1>18, <1>19

(* A page of the new database is written.                                  *)
LEMMA WroteDb ==
  ASSUME IInv, NEW p \in 1..Len(src), WriteDb(p), NEW a \in Nat, a = Len(files.db)
  PROVE  /\ files' \in FileStates(saves) /\ src[p] \in Pages(saves)
         /\ files'.db = Written(files.db, p, src[p], Junk)
         /\ Len(files'.db) = (IF a < p THEN p ELSE a) /\ files'.db[p] = src[p]
         /\ \A i \in 1..a : i # p => files'.db[i] = files.db[i]
         /\ files'.dbSynced = files.dbSynced
         /\ files'.jrnl = files.jrnl /\ files'.jrnlSynced = files.jrnlSynced
  <1>1. /\ src \in Seq(Pages(saves)) /\ files \in FileStates(saves)
        /\ files.db \in Seq(Pages(saves)) /\ Len(src) \in Nat
    BY Types, FileTypes
  <1>2. src[p] \in Pages(saves) /\ p \in Nat \ {0}
    BY <1>1, ElementOfSeq
  <1> DEFINE w == Written(files.db, p, src[p], Junk)
  <1>3. files' = [files EXCEPT !.db = w]
    BY DEF WriteDb
  <1>4. w = Written(files.db, p, src[p], Junk)
    OBVIOUS
  <1> HIDE DEF w
  <1>5. w \in Seq(Pages(saves)) /\ Writes(w, files.db, p, src[p], Junk)
    BY <1>1, <1>2, <1>4, WrittenPage
  <1>6. /\ files' \in FileStates(saves) /\ files'.db = w
        /\ files'.dbSynced = files.dbSynced
        /\ files'.jrnl = files.jrnl /\ files'.jrnlSynced = files.jrnlSynced
    BY <1>1, <1>3, <1>5 DEF FileStates
  <1> QED  BY <1>2, <1>4, <1>5, <1>6 DEF Writes

(* The write of a dirty page whose record is synced.                       *)
LEMMA PageWritten ==
  ASSUME IInv, NEW p \in tx.dirty, p \notin tx.need, WriteDb(p),
         PagesOk(files, src, pc, tx), Copied(files, Now, tx),
         NEW t, t.dirty = tx.dirty \ {p}, t.orig = tx.orig, t.hdr = tx.hdr,
         t.off = tx.off, t.next = tx.next, t.need = tx.need
  PROVE  /\ p \in 1..Len(src) /\ p \in 1..(tx.next - 1)
         /\ p <= Len(Now) => p <= tx.orig
         /\ files' \in FileStates(saves)
         /\ files'.jrnl = files.jrnl /\ files'.jrnlSynced = files.jrnlSynced
         /\ files'.dbSynced = files.dbSynced
         /\ \A i \in 1..(t.next - 1) : i \notin t.dirty =>
              i <= Len(files'.db) /\ files'.db[i] = src[i]
         /\ t.orig <= Len(files'.db)
         /\ Copied(files', Now, t)
         /\ \A h, n : /\ Hot(files, Now, h, n) /\ h \in Heads(files.jrnlSynced)
                      /\ p <= tx.orig => Holds(files.jrnl, n, p)
                      => Hot(files', Now, h, n)
  <1>1. /\ tx \in TxTypes /\ files \in FileStates(saves) /\ Now \in Saved
    BY Types
  <1>2. PICK a \in Nat, b \in Nat, m \in Nat, z \in Nat, x \in Nat :
          /\ a = Len(files.db) /\ b = Len(src) /\ m = tx.orig /\ z = Len(Now)
          /\ x = tx.next
    BY <1>1, Types, FileTypes, SavedIs DEF TxTypes
  <1>3. p \in 1..b /\ p \in 1..(x - 1)
    <2>1. x \in 2..(b + 1) /\ p \in 1..(x - 1)
      BY <1>2 DEF PagesOk
    <2> QED  BY <2>1
  <1>4. z <= m
    BY <1>2 DEF Copied, Covers
  <1>5. /\ files' \in FileStates(saves) /\ src[p] \in Pages(saves)
        /\ files'.db = Written(files.db, p, src[p], Junk)
        /\ Len(files'.db) = (IF a < p THEN p ELSE a) /\ files'.db[p] = src[p]
        /\ \A i \in 1..a : i # p => files'.db[i] = files.db[i]
        /\ files'.dbSynced = files.dbSynced
        /\ files'.jrnl = files.jrnl /\ files'.jrnlSynced = files.jrnlSynced
    BY <1>2, <1>3, WroteDb
  <1>6. ASSUME NEW i \in 1..(x - 1), i \notin t.dirty
        PROVE  i <= Len(files'.db) /\ files'.db[i] = src[i]
    <2>1. CASE i = p
      BY <1>2, <1>3, <1>5, <2>1
    <2>2. CASE i # p
      <3>1. i <= a /\ files.db[i] = src[i]
        BY <1>2, <1>6, <2>2 DEF PagesOk
      <3> QED  BY <1>2, <1>3, <1>5, <2>2, <3>1
    <2> QED  BY <2>1, <2>2
  <1>7. ASSUME NEW i \in 1..z, i # p, Untouched(files, Now, i)
        PROVE  Untouched(files', Now, i)
    BY <1>2, <1>3, <1>5, <1>7 DEF Untouched
  <1>10. t.orig <= Len(files'.db)
    <2>1. m <= a
      BY <1>2 DEF PagesOk
    <2> QED  BY <1>2, <1>3, <1>5, <2>1
  <1>8. Copied(files', Now, t)
    <2>1. ASSUME NEW i \in 1..z, i >= x \/ i \in tx.need
          PROVE  Untouched(files', Now, i)
      <3>1. i # p
        BY <1>2, <1>3, <2>1
      <3>2. Untouched(files, Now, i)
        BY <1>2, <2>1 DEF Copied
      <3> QED  BY <1>7, <3>1, <3>2
    <2> QED  BY <1>2, <1>5, <2>1 DEF Copied
  <1>9. ASSUME NEW h, NEW n, Hot(files, Now, h, n), h \in Heads(files.jrnlSynced),
               p <= tx.orig => Holds(files.jrnl, n, p)
        PROVE  Hot(files', Now, h, n)
    <2>1. p \in Nat \ {0}
      BY <1>3
    <2>2. p <= Len(Now) => Holds(files.jrnl, n, p)
      BY <1>2, <1>3, <1>4, <1>9
    <2> QED  BY <1>1, <1>5, <1>9, <2>1, <2>2, WriteHeld
  <1> QED  BY <1>2, <1>3, <1>4, <1>5, <1>6, <1>8, <1>9, <1>10

LEMMA SpillPageKeeps ==
  ASSUME IInv, SpillPage
  PROVE  IInv' /\ [Replaced!Next]_<<Now, Earlier, src>>
  <1>1. /\ pc = "spill" /\ pc' = "copy" /\ undo' = undo /\ src' = src
        /\ saves' = saves /\ redo' = redo /\ WriteDb(tx.spill)
        /\ tx' = [tx EXCEPT !.dirty = @ \ {tx.spill}, !.spill = 0]
    BY DEF SpillPage
  <1>2. /\ tx \in TxTypes
        /\ redo = <<>> /\ src # <<>> /\ Writing(files, Now, src, undo, pc, tx)
    BY <1>1, Types, InWriting
  <1>3. /\ PagesOk(files, src, pc, tx) /\ Copied(files, Now, tx)
        /\ Filling(files, Now, pc, tx) /\ (tx.dbmod => undo = {})
    BY <1>1, <1>2 DEF Writing, Counted
  <1>4. PICK p \in tx.dirty : p = tx.spill /\ p \notin tx.need /\ p # 0 /\ tx.dbmod
    BY <1>1, <1>3 DEF PagesOk, Filling
  <1>5. /\ tx' \in TxTypes /\ tx'.on = tx.on /\ tx'.orig = tx.orig
        /\ tx'.off = tx.off /\ tx'.hdr = tx.hdr /\ tx'.next = tx.next
        /\ tx'.dirty = tx.dirty \ {p} /\ tx'.need = tx.need
        /\ tx'.dbmod = tx.dbmod /\ tx'.spill = 0
    BY <1>1, <1>2, <1>4 DEF TxTypes
  <1>6. /\ p \in 1..Len(src) /\ p \in 1..(tx.next - 1)
        /\ files' \in FileStates(saves)
        /\ files'.jrnl = files.jrnl /\ files'.jrnlSynced = files.jrnlSynced
        /\ \A i \in 1..(tx.next - 1) : i \notin tx'.dirty =>
             i <= Len(files'.db) /\ files'.db[i] = src[i]
        /\ tx'.orig <= Len(files'.db)
        /\ Copied(files', Now, tx')
        /\ \A h, n : /\ Hot(files, Now, h, n) /\ h \in Heads(files.jrnlSynced)
                     /\ p <= tx.orig => Holds(files.jrnl, n, p)
                     => Hot(files', Now, h, n)
    BY <1>1, <1>3, <1>4, <1>5, PageWritten
  <1>7. PagesOk(files', src, pc', tx')
    BY <1>1, <1>3, <1>4, <1>5, <1>6 DEF PagesOk
  <1>8. Filling(files', Now, pc', tx')
    <2>1. p <= tx.orig => Holds(files.jrnl, tx.hdr - 1, p)
      BY <1>3, <1>4, <1>6 DEF Filling
    <2>2. \E h \in 1..(tx.hdr - 1) :
            Hot(files', Now, h, tx.hdr - 1) /\ h \in Heads(files'.jrnlSynced)
      BY <1>3, <1>4, <1>6, <2>1 DEF Filling
    <2> QED  BY <1>1, <1>3, <1>4, <1>5, <1>6, <2>2 DEF Filling
  <1>9. Writing(files', Now, src, undo', pc', tx')
    BY <1>1, <1>3, <1>5, <1>6, <1>7, <1>8 DEF Writing
  <1> QED  BY <1>1, <1>2, <1>5, <1>6, <1>9, AtWrite

LEMMA WritePageKeeps ==
  ASSUME IInv, WritePage
  PROVE  IInv' /\ [Replaced!Next]_<<Now, Earlier, src>>
  <1>1. /\ pc = "pages" /\ pc' = "pages" /\ undo' = undo /\ src' = src
        /\ saves' = saves /\ redo' = redo
    BY DEF WritePage
  <1>2. PICK p \in tx.dirty : WriteDb(p) /\ tx' = [tx EXCEPT !.dirty = @ \ {p}]
    BY DEF WritePage
  <1>3. /\ tx \in TxTypes /\ files \in FileStates(saves)
        /\ redo = <<>> /\ src # <<>> /\ Writing(files, Now, src, undo, pc, tx)
    BY <1>1, Types, InWriting
  <1>4. /\ PagesOk(files, src, pc, tx) /\ Copied(files, Now, tx)
        /\ Counted(files, Now, pc, tx) /\ (tx.dbmod => undo = {})
    BY <1>1, <1>3 DEF Writing, Filling
  <1>5. tx.need = {} /\ tx.hdr \in Heads(files.jrnlSynced) /\ tx.dbmod
    BY <1>1, <1>4 DEF Counted
  <1>6. /\ tx' \in TxTypes /\ tx'.on = tx.on /\ tx'.orig = tx.orig
        /\ tx'.off = tx.off /\ tx'.hdr = tx.hdr /\ tx'.next = tx.next
        /\ tx'.dirty = tx.dirty \ {p} /\ tx'.need = tx.need
        /\ tx'.dbmod = tx.dbmod /\ tx'.spill = tx.spill
    BY <1>2, <1>3 DEF TxTypes
  <1>7. /\ p \in 1..Len(src) /\ p \in 1..(tx.next - 1)
        /\ files' \in FileStates(saves)
        /\ files'.jrnl = files.jrnl /\ files'.jrnlSynced = files.jrnlSynced
        /\ \A i \in 1..(tx.next - 1) : i \notin tx'.dirty =>
             i <= Len(files'.db) /\ files'.db[i] = src[i]
        /\ tx'.orig <= Len(files'.db)
        /\ Copied(files', Now, tx')
        /\ \A h, n : /\ Hot(files, Now, h, n) /\ h \in Heads(files.jrnlSynced)
                     /\ p <= tx.orig => Holds(files.jrnl, n, p)
                     => Hot(files', Now, h, n)
    BY <1>2, <1>4, <1>5, <1>6, PageWritten
  <1>8. PagesOk(files', src, pc', tx')
    BY <1>1, <1>4, <1>5, <1>6, <1>7 DEF PagesOk
  <1>9. Counted(files', Now, pc', tx')
    <2>1. p <= tx.orig => Holds(files.jrnl, tx.off, p)
      BY <1>4, <1>7 DEF Copied
    <2>2. Hot(files', Now, tx.hdr, tx.off)
      BY <1>4, <1>5, <1>7, <2>1 DEF Counted
    <2> QED  BY <1>1, <1>4, <1>5, <1>6, <1>7, <2>2 DEF Counted
  <1>10. Writing(files', Now, src, undo', pc', tx')
    BY <1>1, <1>4, <1>6, <1>7, <1>8, <1>9 DEF Writing
  <1> QED  BY <1>1, <1>3, <1>6, <1>7, <1>10, AtWrite

LEMMA SyncPagesKeeps ==
  ASSUME IInv, SyncPages
  PROVE  IInv' /\ [Replaced!Next]_<<Now, Earlier, src>>
  <1>1. /\ pc = "pages" /\ pc' = "finish" /\ undo' = undo /\ src' = src
        /\ saves' = saves /\ redo' = redo /\ tx' = tx /\ tx.dirty = {} /\ SyncDb
    BY DEF SyncPages, GoTo, SyncDb
  <1>2. /\ tx \in TxTypes /\ files \in FileStates(saves)
        /\ redo = <<>> /\ src # <<>> /\ Writing(files, Now, src, undo, pc, tx)
    BY <1>1, Types, InWriting
  <1>3. /\ PagesOk(files, src, pc, tx) /\ Copied(files, Now, tx)
        /\ Counted(files, Now, pc, tx) /\ (tx.dbmod => undo = {})
    BY <1>1, <1>2 DEF Writing, Filling
  <1>4. /\ files' \in FileStates(saves)
        /\ files'.db = files.db /\ files'.dbSynced = files.db
        /\ files'.jrnl = files.jrnl /\ files'.jrnlSynced = files.jrnlSynced
    BY <1>1, SyncedDb
  <1>5. PagesOk(files', src, pc', tx)
    BY <1>1, <1>3, <1>4 DEF PagesOk
  <1>6. Copied(files', Now, tx)
    <2>1. \A i : Untouched(files, Now, i) => Untouched(files', Now, i)
      BY <1>4 DEF Untouched
    <2> QED  BY <1>3, <1>4, <2>1 DEF Copied
  <1>7. Hot(files', Now, tx.hdr, tx.off)
    BY <1>2, <1>3, <1>4, SyncDbShows DEF Counted
  <1>8. Counted(files', Now, pc', tx)
    BY <1>1, <1>3, <1>4, <1>7 DEF Counted
  <1>9. Writing(files', Now, src, undo', pc', tx')
    BY <1>1, <1>3, <1>5, <1>6, <1>8 DEF Writing
  <1> QED  BY <1>1, <1>2, <1>4, <1>9, AtWrite

(* Pages 1 to p - 1 are copied; the journal j is in use up to position o.  *)
Copies(e, c, j, o, h, p, m, need) ==
  /\ o <= Len(j) /\ h \in 1..o /\ m <= Len(e.db) /\ Covers(m, c)
  /\ Kept(j, h + 1, o, m, c)
  /\ \A i \in h + 1 .. o : j[i].is = "record"
  /\ \A q \in 1..(p - 1) : q <= m => Holds(j, o, q)
  /\ \A q \in 1..Len(c) : q >= p \/ q \in need => Untouched(e, c, q)

(* f and v are the files and the transaction with page p copied.           *)
Copy(f, v, e, j, o, h, p, m, need) ==
  /\ f.db = e.db /\ f.dbSynced = e.dbSynced
  /\ f.jrnl = IF p <= m THEN Written(j, o + 1, Record(p, e.db[p]), JunkItem) ELSE j
  /\ v.orig = m /\ v.hdr = h /\ v.next = p + 1 /\ v.need \subseteq need \cup {p}
  /\ v.off = IF p <= m THEN o + 1 ELSE o

Grown(f, v, k, c, j, o, h) ==
  /\ f.jrnl \in Seq(Items(k)) /\ v.off <= Len(f.jrnl) /\ h \in 1..v.off
  /\ \A i \in 1..o : f.jrnl[i] = j[i]
  /\ Heads(f.jrnl) \subseteq Heads(j)
  /\ Copied(f, c, v)

(* A page goes to the cache and, if the transaction found one, its old     *)
(* content to the end of the journal.                                      *)
LEMMA Copying ==
  ASSUME NEW k, NEW e \in FileStates(k), NEW c \in Saved,
         NEW j \in Seq(Items(k)), NEW o \in Nat \ {0}, NEW h,
         NEW p \in Nat \ {0}, NEW m \in Nat, NEW need, NEW f, NEW v,
         Copies(e, c, j, o, h, p, m, need), Copy(f, v, e, j, o, h, p, m, need)
  PROVE  Grown(f, v, k, c, j, o, h)
  <1> USE DEF Copies, Copy, Grown
  <1>1. PICK a \in Nat, n \in Nat, l \in Nat :
          a = Len(e.db) /\ n = Len(j) /\ l = Len(c)
    BY FileTypes, SavedIs, LenProperties
  <1>2. PICK w : w = f.jrnl
    OBVIOUS
  <1>3. PICK r : r = Record(p, e.db[p])
    OBVIOUS
  <1>4. r.is = "record" /\ r.page = p /\ r.data = e.db[p]
    BY <1>3 DEF Record
  <1>5. CASE p <= m
    <2>1. r \in Items(k)
      <3>1. e.db \in Seq(Pages(k)) /\ p \in 1..Len(e.db)
        BY <1>1, <1>5, FileTypes
      <3>2. e.db[p] \in Pages(k)
        BY <3>1, ElementOfSeq
      <3> QED  BY <1>3, <3>2 DEF Items, Record
    <2>2. w = Written(j, o + 1, r, JunkItem) /\ o + 1 \in Nat \ {0}
      BY <1>2, <1>3, <1>5
    <2>3. /\ w \in Seq(Items(k)) /\ Writes(w, j, o + 1, r, JunkItem)
          /\ Heads(w) \subseteq Heads(j)
      BY <1>4, <2>1, <2>2, WrittenItem
    <2>4. /\ Len(w) = IF n < o + 1 THEN o + 1 ELSE n
          /\ w[o + 1] = r
          /\ \A i \in 1..o : w[i] = j[i]
      <3>1. \A i \in 1..o : i \in 1..n /\ i # o + 1
        BY <1>1
      <3>2. \A i \in 1..n : i # o + 1 => w[i] = j[i]
        BY <1>1, <2>3 DEF Writes
      <3> QED  BY <1>1, <2>3, <3>1, <3>2 DEF Writes
    <2>5. v.off = o + 1 /\ h \in 1..(o + 1) /\ o + 1 <= Len(w)
      BY <1>1, <1>5, <2>4
    <2>6. \A i \in h + 1 .. o + 1 : i = o + 1 \/ (i \in h + 1 .. o /\ i \in 1..o)
      OBVIOUS
    <2>7. \A i \in h + 1 .. o + 1 : w[i].is = "record"
      BY <1>4, <2>4, <2>6
    <2>8. p <= l => e.db[p] = c[p]
      <3>1. p <= l => p \in 1..l /\ p >= p
        OBVIOUS
      <3> QED  BY <1>1, <3>1 DEF Untouched
    <2>9. Kept(w, h + 1, o + 1, m, c)
      <3>1. p \in 1..m
        BY <1>5
      <3> QED  BY <1>1, <1>4, <2>4, <2>6, <2>8, <3>1 DEF Kept
    <2>10. ASSUME NEW q \in 1..p, q <= m  PROVE Holds(w, o + 1, q)
      <3>1. CASE q = p
        <4>1. o + 1 \in 1..(o + 1)
          OBVIOUS
        <4> QED  BY <1>4, <2>4, <3>1, <4>1 DEF Holds
      <3>2. CASE q # p
        <4>1. q \in 1..(p - 1)
          BY <3>2
        <4>2. PICK i \in 1..o : j[i].is = "record" /\ j[i].page = q
          BY <2>10, <4>1 DEF Holds
        <4>3. i \in 1..(o + 1) /\ w[i] = j[i]
          BY <2>4
        <4> QED  BY <4>2, <4>3 DEF Holds
      <3> QED  BY <3>1, <3>2
    <2>11. \A q \in 1..l : q >= p + 1 \/ q \in v.need => Untouched(f, c, q)
      BY <1>1 DEF Untouched
    <2>12. (p + 1) - 1 = p
      OBVIOUS
    <2>13. Copied(f, c, v)
      BY <1>1, <1>2, <2>5, <2>7, <2>9, <2>10, <2>11, <2>12 DEF Copied
    <2> QED  BY <1>2, <2>3, <2>4, <2>5, <2>13
  <1>6. CASE ~ (p <= m)
    <2>1. w = j /\ v.off = o
      BY <1>2, <1>6
    <2>2. \A q \in 1..p : q <= m => q \in 1..(p - 1)
      BY <1>6
    <2>3. \A q \in 1..l : q >= p + 1 \/ q \in v.need => Untouched(f, c, q)
      BY <1>1 DEF Untouched
    <2>4. (p + 1) - 1 = p
      OBVIOUS
    <2>5. Copied(f, c, v)
      BY <1>1, <1>2, <2>1, <2>2, <2>3, <2>4 DEF Copied
    <2> QED  BY <1>2, <2>1, <2>5
  <1> QED  BY <1>5, <1>6

(* The first page: the journal is opened over what is left in it.          *)
LEMMA FirstPageKeeps ==
  ASSUME IInv, CopyPage, Began(files, Now, tx)
  PROVE  IInv' /\ [Replaced!Next]_<<Now, Earlier, src>>
  <1>1. /\ tx \in TxTypes /\ files \in FileStates(saves) /\ Now \in Saved
    BY Types
  <1>2. /\ Cold(files, Now)
        /\ tx.on /\ tx.orig = Len(files.db) /\ tx.off = 0 /\ tx.hdr = 0
        /\ tx.next = 1 /\ tx.need = {} /\ tx.dirty = {} /\ ~ tx.dbmod
        /\ tx.spill = 0
    BY <1>1, BegunIs
  <1>3. /\ pc = "copy" /\ pc' = "copy" /\ undo' = undo /\ src' = src
        /\ saves' = saves /\ redo' = redo
    BY DEF CopyPage
  <1>4. redo = <<>> /\ src # <<>>
    BY <1>3, InWriting
  <1>5. PICK m \in Nat, b \in Nat \ {0}, z \in Nat :
          m = Len(files.db) /\ b = Len(src) /\ z = Len(Now)
    BY <1>1, <1>3, FileTypes, SavedIs, InWriting
  <1> DEFINE j == Written(files.jrnl, 1, Zero, JunkItem)
             w == IF 1 <= m THEN Written(j, 1 + 1, Record(1, files.db[1]), JunkItem)
                  ELSE j
             o == IF 1 <= m THEN 1 + 1 ELSE 1
  <1>6. /\ files' = [files EXCEPT !.jrnl = w]
        /\ tx' = [tx EXCEPT !.next = 1 + 1, !.off = o, !.hdr = 1,
                            !.dirty = @ \cup {1}, !.need = @ \cup {1}]
    BY <1>2, <1>5 DEF CopyPage
  <1>7. o \in Nat
    OBVIOUS
  <1>8. j = Written(files.jrnl, 1, Zero, JunkItem)
    OBVIOUS
  <1>9. /\ w = IF 1 <= m THEN Written(j, 1 + 1, Record(1, files.db[1]), JunkItem)
               ELSE j
        /\ o = IF 1 <= m THEN 1 + 1 ELSE 1
    OBVIOUS
  <1> HIDE DEF j, w, o
  <1>10. /\ j \in Seq(Items(saves)) /\ j[1] = Zero /\ 1 <= Len(j)
         /\ Heads(j) = {}
    <2>1. /\ files.jrnl \in Seq(Items(saves)) /\ Len(files.jrnl) \in Nat
          /\ Zero \in Items(saves) /\ Zero.is # "header"
      BY <1>1, FileTypes DEF Items, Zero
    <2>2. /\ j \in Seq(Items(saves)) /\ Writes(j, files.jrnl, 1, Zero, JunkItem)
          /\ Heads(j) \subseteq Heads(files.jrnl)
      BY <1>8, <2>1, WrittenItem
    <2> QED  BY <1>2, <2>1, <2>2 DEF Writes, Cold
  <1>11. /\ files'.db = files.db /\ files'.dbSynced = files.dbSynced
         /\ files'.jrnl = w /\ files'.jrnlSynced = files.jrnlSynced
    BY <1>1, <1>6 DEF FileStates
  <1>12. /\ tx' \in TxTypes /\ tx'.on /\ tx'.orig = m
         /\ tx'.off = o /\ tx'.hdr = 1 /\ tx'.next = 1 + 1
         /\ tx'.dirty = {1} /\ tx'.need = {1} /\ ~ tx'.dbmod /\ tx'.spill = 0
    <2>1. tx' = [tx EXCEPT !.next = 2, !.off = o, !.hdr = 1,
                           !.dirty = {1}, !.need = {1}]
      BY <1>2, <1>6
    <2>2. {1} \in SUBSET Nat /\ 2 \in Nat \ {0} /\ 1 \in Nat
      OBVIOUS
    <2>3. tx' \in TxTypes
      BY <1>1, <1>7, <2>1, <2>2 DEF TxTypes
    <2>4. /\ tx'.on = tx.on /\ tx'.orig = tx.orig
          /\ tx'.off = o /\ tx'.hdr = 1 /\ tx'.next = 2
          /\ tx'.dirty = {1} /\ tx'.need = {1} /\ tx'.dbmod = tx.dbmod
          /\ tx'.spill = tx.spill
      BY <1>1, <2>1 DEF TxTypes
    <2> QED  BY <1>2, <1>5, <2>3, <2>4
  <1>13. /\ Covers(m, Now)
         /\ \A q \in 1..Len(Now) : Untouched(files, Now, q)
    <2>1. Good(files.db, Now) /\ Good(files.dbSynced, Now)
      BY <1>2 DEF Cold
    <2>2. z <= m /\ (Now = <<>> => m = 0)
      BY <1>1, <1>5, <2>1, EmptyIff, FileTypes DEF Good
    <2>3. \A q \in 1..z : q <= Len(files.db) /\ q <= Len(files.dbSynced)
      <3>1. PICK d \in Nat : d = Len(files.dbSynced)
        BY <1>1, FileTypes
      <3> QED  BY <1>5, <2>1, <3>1 DEF Good
    <2> QED  BY <1>5, <2>1, <2>2, <2>3 DEF Covers, Good, Untouched
  <1>14. /\ Kept(j, 1 + 1, 1, m, Now)
         /\ \A i \in 1 + 1 .. 1 : j[i].is = "record"
         /\ \A q \in 1..(1 - 1) : q <= m => Holds(j, 1, q)
    BY DEF Kept
  <1>15. /\ w \in Seq(Items(saves)) /\ o <= Len(w) /\ 1 \in 1..o
         /\ \A i \in 1..1 : w[i] = j[i]
         /\ Heads(w) \subseteq Heads(j)
         /\ Copied(files', Now, tx')
    <2>1. PICK u : u = 1
      OBVIOUS
    <2>2. u \in Nat \ {0} /\ Copies(files, Now, j, u, u, u, m, {})
      BY <1>5, <1>10, <1>13, <1>14, <2>1 DEF Copies
    <2>3. Copy(files', tx', files, j, u, u, u, m, {})
      BY <1>9, <1>11, <1>12, <2>1 DEF Copy
    <2>4. Grown(files', tx', saves, Now, j, u, u)
      BY <1>1, <1>5, <1>10, <2>2, <2>3, Copying
    <2> QED  BY <1>11, <1>12, <2>1, <2>4 DEF Grown
  <1>16. files' \in FileStates(saves)
    BY <1>1, <1>6, <1>15 DEF FileStates
  <1>17. Cold(files', Now)
    BY <1>2, <1>10, <1>11, <1>15 DEF Cold
  <1>18. PagesOk(files', src, pc', tx')
    <2>1. 1 + 1 \in 2..(Len(src) + 1) /\ \A i \in 1..((1 + 1) - 1) : i = 1
      BY <1>5
    <2>2. tx'.orig <= Len(files'.db)
      BY <1>5, <1>11, <1>12
    <2> QED  BY <1>3, <1>11, <1>12, <1>15, <2>1, <2>2 DEF PagesOk
  <1>19. Filling(files', Now, pc', tx')
    <2>1. w[1] = Zero
      BY <1>10, <1>15
    <2>2. \A i \in 1..((1 + 1) - 1) : i = 1
      OBVIOUS
    <2> QED  BY <1>3, <1>11, <1>12, <1>17, <2>1, <2>2 DEF Filling
  <1>20. Writing(files', Now, src, undo', pc', tx')
    BY <1>12, <1>15, <1>18, <1>19 DEF Writing
  <1> QED  BY <1>3, <1>4, <1>12, <1>16, <1>20, AtWrite

LEMMA NextPageKeeps ==
  ASSUME IInv, CopyPage, Writing(files, Now, src, undo, pc, tx)
  PROVE  IInv' /\ [Replaced!Next]_<<Now, Earlier, src>>
  <1>1. /\ tx \in TxTypes /\ files \in FileStates(saves) /\ Now \in Saved
    BY Types
  <1>2. /\ pc = "copy" /\ pc' = "copy" /\ undo' = undo /\ src' = src
        /\ saves' = saves /\ redo' = redo /\ tx.next <= Len(src)
    BY DEF CopyPage
  <1>3. redo = <<>> /\ src # <<>>
    BY <1>2, InWriting
  <1>4. /\ PagesOk(files, src, pc, tx) /\ Copied(files, Now, tx)
        /\ Filling(files, Now, pc, tx) /\ (tx.dbmod => undo = {})
    BY <1>2 DEF Writing, Counted
  <1>5. PICK h \in Nat, o \in Nat \ {0}, p \in Nat \ {0}, m \in Nat, b \in Nat :
          /\ h = tx.hdr /\ o = tx.off /\ p = tx.next /\ m = tx.orig /\ b = Len(src)
          /\ h \in 1..o /\ o <= Len(files.jrnl) /\ m <= Len(files.db)
          /\ p \in 2..b /\ tx.spill = 0
    <2>1. /\ tx.hdr \in 1..tx.off /\ tx.off <= Len(files.jrnl)
          /\ tx.orig <= Len(files.db) /\ tx.next \in 2..(Len(src) + 1)
          /\ tx.spill = 0
      BY <1>2, <1>4 DEF PagesOk
    <2> QED  BY <1>1, <1>2, <2>1, Types DEF TxTypes
  <1> DEFINE j == files.jrnl
             w == IF p <= m THEN Written(j, o + 1, Record(p, files.db[p]), JunkItem)
                  ELSE j
             v == IF p <= m THEN o + 1 ELSE o
             need == IF p <= m \/ ~ tx.dbmod THEN tx.need \cup {p} ELSE tx.need
  <1>6. /\ files' = [files EXCEPT !.jrnl = w]
        /\ tx' = [tx EXCEPT !.next = p + 1, !.off = v,
                            !.dirty = tx.dirty \cup {p}, !.need = need]
    <2>1. /\ files' = [files EXCEPT !.jrnl = w]
          /\ tx' = [tx EXCEPT !.next = p + 1, !.off = v, !.hdr = tx.hdr,
                              !.dirty = tx.dirty \cup {p}, !.need = need]
      BY <1>5 DEF CopyPage
    <2>2. [tx EXCEPT !.hdr = tx.hdr] = tx
      BY <1>1 DEF TxTypes
    <2> QED  BY <1>1, <2>1, <2>2 DEF TxTypes
  <1>7. /\ w = IF p <= m THEN Written(j, o + 1, Record(p, files.db[p]), JunkItem)
               ELSE j
        /\ v = (IF p <= m THEN o + 1 ELSE o) /\ v \in Nat
        /\ tx.need \subseteq need /\ need \subseteq tx.need \cup {p}
        /\ p <= m \/ ~ tx.dbmod => p \in need
        /\ j = files.jrnl
    OBVIOUS
  <1> HIDE DEF j, w, v, need
  <1>8. j \in Seq(Items(saves))
    BY <1>1, <1>7, FileTypes
  <1>9. /\ files'.db = files.db /\ files'.dbSynced = files.dbSynced
        /\ files'.jrnl = w /\ files'.jrnlSynced = files.jrnlSynced
    BY <1>1, <1>6 DEF FileStates
  <1>10. /\ tx' \in TxTypes /\ tx'.on = tx.on /\ tx'.orig = m
         /\ tx'.off = v /\ tx'.hdr = h /\ tx'.next = p + 1
         /\ tx'.dirty = tx.dirty \cup {p} /\ tx'.need = need
         /\ tx'.dbmod = tx.dbmod /\ tx'.spill = 0
    <2>1. tx.dirty \cup {p} \in SUBSET Nat /\ need \in SUBSET Nat
      BY <1>1, <1>7 DEF TxTypes
    <2>2. PICK d \in SUBSET Nat : d = tx.dirty \cup {p}
      BY <2>1
    <2>3. PICK x \in Nat \ {0} : x = p + 1
      OBVIOUS
    <2>4. tx' = [tx EXCEPT !.next = x, !.off = v, !.dirty = d, !.need = need]
      BY <1>6, <2>2, <2>3
    <2>5. tx' \in TxTypes
      BY <1>1, <1>7, <2>1, <2>4 DEF TxTypes
    <2>6. /\ tx'.on = tx.on /\ tx'.orig = tx.orig
          /\ tx'.off = v /\ tx'.hdr = tx.hdr /\ tx'.next = x
          /\ tx'.dirty = d /\ tx'.need = need
          /\ tx'.dbmod = tx.dbmod /\ tx'.spill = tx.spill
      BY <1>1, <2>4 DEF TxTypes
    <2> QED  BY <1>5, <2>2, <2>3, <2>5, <2>6
  <1>11. Copies(files, Now, j, o, h, p, m, tx.need)
    BY <1>4, <1>5, <1>7 DEF Copies, Copied
  <1>12. Copy(files', tx', files, j, o, h, p, m, tx.need)
    BY <1>7, <1>9, <1>10 DEF Copy
  <1>13. /\ w \in Seq(Items(saves)) /\ v <= Len(w) /\ h \in 1..v
         /\ \A i \in 1..o : w[i] = j[i]
         /\ Heads(w) \subseteq Heads(j)
         /\ Copied(files', Now, tx')
    <2>1. Grown(files', tx', saves, Now, j, o, h)
      BY <1>1, <1>5, <1>8, <1>11, <1>12, Copying
    <2> QED  BY <1>9, <1>10, <2>1 DEF Grown
  <1>14. files' \in FileStates(saves)
    BY <1>1, <1>6, <1>13 DEF FileStates
  <1>15. (p + 1) - 1 = p /\ \A q \in 1..p : q = p \/ q \in 1..(p - 1)
    OBVIOUS
  <1>16. PagesOk(files', src, pc', tx')
    <2>1. p + 1 \in 2..(b + 1)
      BY <1>5
    <2>2. /\ tx.dirty \subseteq 1..(p - 1) /\ tx.need \subseteq tx.dirty
          /\ ~ tx.dbmod => 1..(p - 1) \subseteq tx.need
          /\ \A q \in 1..(p - 1) : q \notin tx.dirty =>
               q <= Len(files.db) /\ files.db[q] = src[q]
          /\ tx.on
      BY <1>4, <1>5 DEF PagesOk
    <2>3. 1..(p - 1) \subseteq 1..p /\ p \in 1..p
      OBVIOUS
    <2>4. tx.dirty \cup {p} \subseteq 1..p /\ need \subseteq tx.dirty \cup {p}
      BY <1>7, <2>2, <2>3
    <2>5. ~ tx.dbmod => 1..p \subseteq need
      BY <1>7, <1>15, <2>2
    <2>6. \A q \in 1..p : q \notin tx.dirty \cup {p} =>
            q <= Len(files.db) /\ files.db[q] = src[q]
      BY <1>15, <2>2
    <2> QED  BY <1>2, <1>5, <1>9, <1>10, <1>13, <1>15, <2>1, <2>2, <2>4, <2>5, <2>6
             DEF PagesOk
  <1>17. ASSUME NEW g \in 1..(h - 1), Hot(files, Now, g, h - 1)
         PROVE  Hot(files', Now, g, h - 1)
    <2>1. PICK n \in Nat : n = h - 1 /\ n < o
      BY <1>5
    <2>2. \A i \in Heads(j) : i <= n
      BY <1>7, <1>8, <1>17, <2>1, TiledIs DEF Hot
    <2>3. /\ n <= Len(w) /\ \A i \in 1..n : w[i] = j[i]
      <3>1. PICK z \in Nat : z = Len(w)
        BY <1>13, LenProperties
      <3>2. v >= o /\ \A i \in 1..n : i \in 1..o
        BY <1>7, <2>1
      <3> QED  BY <1>7, <1>13, <2>1, <3>1, <3>2
    <2>4. /\ n <= Len(files'.jrnl) /\ \A i \in 1..n : files'.jrnl[i] = files.jrnl[i]
          /\ \A i \in Heads(files'.jrnl) : i <= n
      BY <1>7, <1>9, <1>13, <2>2, <2>3
    <2>5. Hot(files, Now, g, n)
      BY <1>17, <2>1
    <2>6. Hot(files', Now, g, n)
      BY <1>1, <1>9, <1>14, <2>4, <2>5, HotAgain
    <2> QED  BY <2>1, <2>6
  <1>18. Filling(files', Now, pc', tx')
    <2>1. h \in 1..o /\ 1 \in 1..o
      BY <1>5
    <2>2. w[h] = Zero
      BY <1>4, <1>5, <1>7, <1>13, <2>1 DEF Filling
    <2>3. tx.dbmod => /\ \E g \in 1..(h - 1) :
                           Hot(files', Now, g, h - 1) /\ g \in Heads(files'.jrnlSynced)
                      /\ w[1].orig = m
      BY <1>4, <1>5, <1>7, <1>9, <1>13, <1>17, <2>1 DEF Filling
    <2>4. ~ tx.dbmod => h = 1 /\ Cold(files', Now)
      <3>1. ~ tx.dbmod => h = 1 /\ Cold(files, Now)
        BY <1>4, <1>5 DEF Filling
      <3> QED  BY <1>7, <1>9, <1>13, <3>1 DEF Cold
    <2>5. ASSUME NEW q \in 1..p, q <= m, q \notin need
          PROVE  Holds(w, h - 1, q)
      <3>1. q \in 1..(p - 1) /\ q \notin tx.need
        BY <1>7, <1>15, <2>5
      <3>2. Holds(files.jrnl, h - 1, q)
        BY <1>4, <1>5, <2>5, <3>1 DEF Filling
      <3>3. \A i \in 1..(h - 1) : i \in 1..o
        BY <2>1
      <3> QED  BY <1>7, <1>13, <3>2, <3>3 DEF Holds
    <2> QED  BY <1>2, <1>9, <1>10, <1>15, <2>2, <2>3, <2>4, <2>5 DEF Filling
  <1>19. Writing(files', Now, src, undo', pc', tx')
    BY <1>2, <1>4, <1>10, <1>13, <1>16, <1>18 DEF Writing
  <1> QED  BY <1>2, <1>3, <1>10, <1>14, <1>19, AtWrite

LEMMA CopyPageKeeps ==
  ASSUME IInv, CopyPage
  PROVE  IInv' /\ [Replaced!Next]_<<Now, Earlier, src>>
  <1>1. pc = "copy"
    BY DEF CopyPage
  <1>2. Began(files, Now, tx) \/ Writing(files, Now, src, undo, pc, tx)
    BY <1>1, InWriting
  <1> QED  BY <1>2, FirstPageKeeps, NextPageKeeps

-----------------------------------------------------------------------------
(* The theorems *)

LEMMA InitHolds ==
  ASSUME Init
  PROVE  IInv /\ Replaced!Init
  <1>1. PICK n \in OldSizes :
          files = [db |-> Image(0, n), dbSynced |-> Image(0, n),
                   jrnl |-> <<>>, jrnlSynced |-> <<>>]
    BY DEF Init
  <1>2. /\ undo = {} /\ src = <<>> /\ saves = 0 /\ pc = "idle" /\ tx = NoTx
        /\ redo = <<>>
    BY DEF Init
  <1>3. 0 \in 0..MaxSaves
    BY SizesAssumption
  <1>4. PICK c : c = Image(0, n)
    OBVIOUS
  <1>5. c \in Saved /\ c \in Seq(Pages(0)) /\ Len(c) \in Nat
    <2>1. c \in Saved /\ c \in Seq(Pages(0) \ {Junk})
      BY <1>3, <1>4, ImageSaved
    <2>2. c \in Seq(Pages(0))
      BY <2>1, SeqDef
    <2> QED  BY <2>1, <2>2, LenProperties
  <1>6. /\ files \in FileStates(0)
        /\ files.db = c /\ files.dbSynced = c
        /\ files.jrnl = <<>> /\ files.jrnlSynced = <<>>
    <2>1. <<>> \in Seq(Items(0))
      BY EmptySeq
    <2> QED  BY <1>1, <1>4, <1>5, <2>1 DEF FileStates
  <1>7. Cold(files, c)
    <2>1. DOMAIN <<>> = {}
      OBVIOUS
    <2>2. Heads(<<>>) = {}
      BY <2>1 DEF Heads
    <2> QED  BY <1>5, <1>6, <2>2 DEF Cold, Good
  <1>8. Shows(files, c)
    BY <1>7 DEF Shows
  <1>9. Now = c
    BY <1>5, <1>6, <1>8, ViewIs DEF Now
  <1>10. src \in Saved
    <2>1. PICK v, z : v = 0 /\ z = 0
      OBVIOUS
    <2>2. Image(v, z) \in Saved
      BY <1>3, <2>1 DEF Saved
    <2>3. Len(Image(v, z)) = 0 /\ Image(v, z) \in Seq({Page(v, v, v)})
      <3>1. Image(v, z) \in [1..z -> {Page(v, v, v)}]
        BY <2>1 DEF Image
      <3> QED  BY <2>1, <3>1, FunctionIsSeq
    <2> QED  BY <1>2, <2>2, <2>3, EmptyIff
  <1>11. TypeOK /\ tx \in TxTypes
    <2>1. <<>> \in Seq(Items(0)) /\ <<>> \in Seq(Pages(0) \ {Junk})
      BY EmptySeq
    <2>2. Len(files.jrnl) = 0
      BY <1>6, EmptySeq
    <2>3. /\ tx \in TxTypes /\ tx.off = 0 /\ tx.hdr = 0
          /\ tx.need = {} /\ tx.dirty = {}
      BY <1>2, NoTxIs
    <2> QED  BY <1>2, <1>3, <1>6, <2>1, <2>2, <2>3 DEF TypeOK
  <1>12. Phase(Now) /\ Loss(undo) /\ Lone(undo, Now)
    BY <1>2 DEF Phase, Loss, Lone
  <1>13. IInv
    BY <1>5, <1>8, <1>9, <1>10, <1>11, <1>12 DEF IInv
  <1>14. Earlier = Now
    BY <1>2 DEF Earlier, Before
  <1> QED  BY <1>5, <1>9, <1>10, <1>13, <1>14 DEF Replaced!Init

LEMMA StepHolds ==
  ASSUME IInv, [Next]_vars
  PROVE  IInv' /\ [Replaced!Next]_<<Now, Earlier, src>>
  <1>1. CASE \E n \in NewSizes : Open(n)
    BY <1>1, OpenKeeps
  <1>2. CASE SharedLock
    BY <1>2, SharedLockKeeps
  <1>3. CASE CopyPage
    BY <1>3, CopyPageKeeps
  <1>4. CASE Spill
    BY <1>4, SpillKeeps
  <1>5. CASE Commit
    BY <1>5, CommitKeeps
  <1>6. CASE SyncRecords
    BY <1>6, SyncRecordsKeeps
  <1>7. CASE WriteHeader
    BY <1>7, WriteHeaderKeeps
  <1>8. CASE SyncHeader
    BY <1>8, SyncHeaderSettles
  <1>9. CASE SpillPage
    BY <1>9, SpillPageKeeps
  <1>10. CASE WritePage
    BY <1>10, WritePageKeeps
  <1>11. CASE SyncPages
    BY <1>11, SyncPagesKeeps
  <1>12. CASE Finish
    BY <1>12, FinishKeeps
  <1>13. CASE Shrink
    BY <1>13, ShrinkKeeps
  <1>14. CASE Fails
    BY <1>14, FailsKeeps
  <1>15. CASE CutBack
    BY <1>15, CutBackKeeps
  <1>16. CASE PlayBack
    BY <1>16, PlayBackKeeps
  <1>17. CASE EndOfPlay
    BY <1>17, EndOfPlayKeeps
  <1>18. CASE Drop
    BY <1>18, DropKeeps
  <1>19. CASE Killed
    BY <1>19, KilledKeeps
  <1>20. CASE PowerLoss
    BY <1>20, PowerLossKeeps
  <1>21. CASE UNCHANGED vars
    <2>1. /\ files' = files /\ undo' = undo /\ src' = src /\ saves' = saves
          /\ pc' = pc /\ tx' = tx /\ redo' = redo
      BY <1>21 DEF vars
    <2>2. Now' = Now /\ Earlier' = Earlier
      BY <2>1 DEF Now, Earlier, Before
    <2>3. TypeOK' /\ Phase(Now)'
      BY <2>1, <2>2 DEF IInv, TypeOK, Phase
    <2> QED  BY <2>1, <2>2, <2>3 DEF IInv
  <1> QED
    BY <1>1, <1>2, <1>3, <1>4, <1>5, <1>6, <1>7, <1>8, <1>9, <1>10, <1>11,
       <1>12, <1>13, <1>14, <1>15, <1>16, <1>17, <1>18, <1>19, <1>20, <1>21
    DEF Next

(***************************************************************************)
(* For every number of pages and of saves, and whatever fails, every       *)
(* variable of the save keeps its type; in the journal of a transaction    *)
(* the header in use counts no record twice, and no page that may not be   *)
(* written yet is spilled or written (pager_write, pagerStress,            *)
(* syncJournal of sqlite3.c).                                              *)
(***************************************************************************)
THEOREM TypeCorrect == Spec => []TypeOK
  <1>1. Init => IInv
    BY InitHolds
  <1>2. IInv /\ [Next]_vars => IInv'
    BY StepHolds
  <1>3. IInv => TypeOK
    BY DEF IInv
  <1> QED  BY <1>1, <1>2, <1>3, PTL DEF Spec

(***************************************************************************)
(* For every number of pages and of saves, at whatever step the program is *)
(* killed, the power fails or the save fails, and however often: who opens *)
(* the file finds the database of the last save that was finished, or      *)
(* after a power loss the one before it, whole (CCmSqlite::backup,         *)
(* cm_sqlite.cpp:116-148).                                                 *)
(***************************************************************************)
THEOREM SaveIsAtomic == Spec => OldOrNew
  <1>1. Init => IInv /\ Replaced!Init
    BY InitHolds
  <1>2. IInv /\ [Next]_vars => IInv' /\ [Replaced!Next]_<<Now, Earlier, src>>
    BY StepHolds
  <1> QED  BY <1>1, <1>2, PTL DEF Spec, OldOrNew, Replaced!Spec
=============================================================================
