----------------------------- MODULE TextProofs ------------------------------
(***************************************************************************)
(* Theorems about TextUtil, for texts of every length and any symbols: the *)
(* types of the results (TypeOK), and what _strdiv, open_mid and           *)
(* parse_path make of their arguments (DivIsRuns, LineReadsBack,           *)
(* PathKept).                                                              *)
(*                                                                         *)
(* The loops over a text are recursive functions.  That they have a value  *)
(* at each position is LoopExists and FoldExists, by induction over        *)
(* positions (Induction, from the well-foundedness of < on Nat); what the  *)
(* value is follows by induction again (DivRuns, TokensOfCut, LineIsCut).  *)
(***************************************************************************)
EXTENDS TextUtil, TLAPS, WellFoundedInduction, FiniteSetTheorems,
        SequenceTheorems

-----------------------------------------------------------------------------
(* Positions: the lowest and the highest of a set, induction *)

Lower == {ss \in Nat \X Nat : ss[1] < ss[2]}

LEMMA Lowest ==
  ASSUME NEW T, T \subseteq Nat, T # {}
  PROVE  \E x \in T : \A y \in T : x <= y
  <1>1. IsWellFoundedOn(Lower, Nat)
    BY NatLessThanWellFounded DEF OpToRel, Lower
  <1>2. PICK x \in T : \A y \in T : ~(<<y, x>> \in Lower)
    BY <1>1, WFMin
  <1>3. \A y \in T : <<y, x>> \in Nat \X Nat
    OBVIOUS
  <1>4. \A y \in T : ~ (y < x)
    BY <1>2, <1>3 DEF Lower
  <1> QED  BY <1>2, <1>4

LEMMA Highest ==
  ASSUME NEW T, NEW n \in Nat, T \subseteq 1..n, T # {}
  PROVE  \E x \in T : \A y \in T : x >= y
  <1> DEFINE U == {n - x : x \in T}
  <1>a. \A x \in T : n - x \in Nat
    OBVIOUS
  <1>1. U \subseteq Nat /\ U # {}
    BY <1>a
  <1>2. PICK u \in U : \A v \in U : u <= v
    BY <1>1, Lowest
  <1>3. PICK x \in T : u = n - x
    OBVIOUS
  <1>4. \A y \in T : n - y \in U
    OBVIOUS
  <1>5. \A y \in T : x >= y
    BY <1>2, <1>3, <1>4
  <1> QED  BY <1>5

LEMMA LeastIs ==
  ASSUME NEW T, T \subseteq Nat
  PROVE  /\ T = {} => Least(T) = 0
         /\ T # {} => Least(T) \in T /\ \A y \in T : Least(T) <= y
  <1>1. T # {} => \E x \in T : \A y \in T : x <= y
    BY Lowest
  <1> QED  BY <1>1 DEF Least, npos

LEMMA GreatestIs ==
  ASSUME NEW T, NEW n \in Nat, T \subseteq 1..n
  PROVE  /\ T = {} => Greatest(T) = 0
         /\ T # {} => Greatest(T) \in T /\ \A y \in T : Greatest(T) >= y
  <1>1. T # {} => \E x \in T : \A y \in T : x >= y
    BY Highest
  <1> QED  BY <1>1 DEF Greatest, npos

(* The last c, and none if there is none.                                  *)
IsLast(s, c, q) ==
  /\ q \in 0..Len(s)
  /\ q # 0 => s[q] = c
  /\ \A p \in (q + 1)..Len(s) : s[p] # c

LEMMA FindLastIs ==
  ASSUME NEW S, NEW s \in Seq(S), NEW c
  PROVE  IsLast(s, c, FindLast(s, c))
  <1> DEFINE T == {p \in 1..Len(s) : s[p] = c}
  <1>1. Len(s) \in Nat /\ T \subseteq 1..Len(s)
    OBVIOUS
  <1>2. FindLast(s, c) = Greatest(T)
    BY DEF FindLast
  <1>3. /\ T = {} => Greatest(T) = 0
        /\ T # {} => Greatest(T) \in T /\ \A y \in T : Greatest(T) >= y
    BY <1>1, GreatestIs
  <1>4. FindLast(s, c) \in 0..Len(s)
    BY <1>1, <1>2, <1>3
  <1>5. FindLast(s, c) # 0 => FindLast(s, c) \in T
    BY <1>1, <1>2, <1>3
  <1>6. \A p \in T : p <= FindLast(s, c)
    BY <1>1, <1>2, <1>3
  <1>7. ASSUME NEW p \in (FindLast(s, c) + 1)..Len(s)  PROVE s[p] # c
    <2>1. p \in 1..Len(s) /\ ~ (p <= FindLast(s, c))
      BY <1>1, <1>4
    <2> QED  BY <1>6, <2>1
  <1> QED  BY <1>4, <1>5, <1>7 DEF IsLast

LEMMA LastIs ==
  ASSUME NEW S, NEW s \in Seq(S), NEW c, NEW q, IsLast(s, c, q)
  PROVE  FindLast(s, c) = q
  <1>1. IsLast(s, c, FindLast(s, c))
    BY FindLastIs
  <1>2. Len(s) \in Nat
    OBVIOUS
  <1>3. PICK r \in 0..Len(s) : r = FindLast(s, c)
    BY <1>1 DEF IsLast
  <1>4. r < q => FALSE
    BY <1>1, <1>2, <1>3 DEF IsLast
  <1>5. q < r => FALSE
    BY <1>1, <1>2, <1>3 DEF IsLast
  <1> QED  BY <1>2, <1>3, <1>4, <1>5 DEF IsLast

-----------------------------------------------------------------------------
(* parse_path *)

LEMMA Cut ==
  ASSUME NEW S, NEW s \in Seq(S), NEW d \in 1..Len(s)
  PROVE  s = SubSeq(s, 1, d - 1) \o <<s[d]>> \o SubSeq(s, d + 1, Len(s))
  <1>1. Len(s) \in Nat
    OBVIOUS
  <1>2. 1 \in 1..Len(s) + 1 /\ d \in 0..Len(s) /\ Len(s) \in d..Len(s)
    BY <1>1
  <1>3. SubSeq(s, 1, d) \o SubSeq(s, d + 1, Len(s)) = SubSeq(s, 1, Len(s))
    BY <1>2, ConcatAdjacentSubSeq
  <1>4. SubSeq(s, 1, d) = SubSeq(s, 1, d - 1) \o <<s[d]>>
    BY <1>1, SubSeqRecursiveSecond
  <1> QED  BY <1>3, <1>4, SubSeqFull

(* a, then c, then b.                                                      *)
LEMMA JoinIs ==
  ASSUME NEW S, NEW a \in Seq(S), NEW c \in S, NEW b \in Seq(S)
  PROVE  /\ a \o <<c>> \o b \in Seq(S)
         /\ Len(a \o <<c>> \o b) = Len(a) + 1 + Len(b)
         /\ \A i \in 1..Len(a) : (a \o <<c>> \o b)[i] = a[i]
         /\ (a \o <<c>> \o b)[Len(a) + 1] = c
         /\ \A i \in 1..Len(b) : (a \o <<c>> \o b)[Len(a) + 1 + i] = b[i]
  <1>1. /\ <<c>> \in Seq(S) /\ Len(<<c>>) = 1 /\ <<c>>[1] = c
        /\ Len(a) \in Nat /\ Len(b) \in Nat
    OBVIOUS
  <1> DEFINE d == a \o <<c>>
  <1>2. /\ d \in Seq(S) /\ Len(d) = Len(a) + 1
        /\ \A i \in 1..(Len(a) + 1) :
             d[i] = IF i <= Len(a) THEN a[i] ELSE <<c>>[i - Len(a)]
    BY <1>1, ConcatProperties
  <1>3. d[Len(a) + 1] = c /\ \A i \in 1..Len(a) : d[i] = a[i]
    BY <1>1, <1>2
  <1> HIDE DEF d
  <1>4. /\ d \o b \in Seq(S) /\ Len(d \o b) = Len(d) + Len(b)
        /\ \A i \in 1..(Len(d) + Len(b)) :
             (d \o b)[i] = IF i <= Len(d) THEN d[i] ELSE b[i - Len(d)]
    BY <1>2, ConcatProperties, Zenon
  <1>5. \A i \in 1..Len(a) : (d \o b)[i] = a[i]
    BY <1>1, <1>2, <1>3, <1>4
  <1>6. (d \o b)[Len(a) + 1] = c
    BY <1>1, <1>2, <1>3, <1>4
  <1>7. \A i \in 1..Len(b) : (d \o b)[Len(a) + 1 + i] = b[i]
    BY <1>1, <1>2, <1>4
  <1> QED  BY <1>2, <1>4, <1>5, <1>6, <1>7 DEF d

Free(c, s) == \A i \in 1..Len(s) : s[i] # c

(* The parts are found again, when c is not in the second.                 *)
LEMMA JoinParts ==
  ASSUME NEW S, NEW a \in Seq(S), NEW c \in S, NEW b \in Seq(S)
  PROVE  LET s == a \o <<c>> \o b
         IN  /\ Until(s, Len(a) + 1) = a
             /\ From(s, Len(a) + 2) = b
             /\ Free(c, b) => FindLast(s, c) = Len(a) + 1
  <1> DEFINE s == a \o <<c>> \o b
  <1>1. /\ s \in Seq(S) /\ Len(s) = Len(a) + 1 + Len(b)
        /\ \A i \in 1..Len(a) : s[i] = a[i]
        /\ s[Len(a) + 1] = c
        /\ \A i \in 1..Len(b) : s[Len(a) + 1 + i] = b[i]
    BY JoinIs
  <1>2. Len(a) \in Nat /\ Len(b) \in Nat
    OBVIOUS
  <1> HIDE DEF s
  <1>3. Until(s, Len(a) + 1) = a
    <2>1. /\ SubSeq(s, 1, Len(a)) \in Seq(S) /\ Len(SubSeq(s, 1, Len(a))) = Len(a)
          /\ \A i \in 1..Len(a) : SubSeq(s, 1, Len(a))[i] = s[i]
      BY <1>1, <1>2
    <2>2. SubSeq(s, 1, Len(a)) = a
      BY <1>1, <2>1, SeqEqual
    <2> QED  BY <1>2, <2>2 DEF Until
  <1>4. From(s, Len(a) + 2) = b
    <2> DEFINE t == SubSeq(s, Len(a) + 2, Len(s))
    <2>1. /\ t \in Seq(S) /\ Len(t) = Len(b)
          /\ \A i \in 1..Len(b) : t[i] = s[Len(a) + 1 + i]
      BY <1>1, <1>2
    <2> HIDE DEF t
    <2>2. t = b
      BY <1>1, <2>1, SeqEqual
    <2> QED  BY <2>2 DEF From, t
  <1>5. ASSUME Free(c, b)  PROVE FindLast(s, c) = Len(a) + 1
    <2>1. \A p \in (Len(a) + 1 + 1)..Len(s) : s[p] # c
      <3> SUFFICES ASSUME NEW p \in (Len(a) + 1 + 1)..Len(s)  PROVE s[p] # c
        OBVIOUS
      <3>1. PICK i \in 1..Len(b) : p = Len(a) + 1 + i
        <4>1. p - (Len(a) + 1) \in 1..Len(b) /\ p = Len(a) + 1 + (p - (Len(a) + 1))
          BY <1>1, <1>2
        <4> QED  BY <4>1
      <3> QED  BY <1>1, <1>5, <3>1 DEF Free
    <2>2. IsLast(s, c, Len(a) + 1)
      BY <1>1, <1>2, <2>1 DEF IsLast
    <2> QED  BY <1>1, <2>2, LastIs
  <1> QED  BY <1>3, <1>4, <1>5 DEF s

(* The parts of a text at its last c.                                      *)
LEMMA SplitAtLast ==
  ASSUME NEW S, NEW s \in Seq(S), NEW c
  PROVE  LET q == FindLast(s, c)
         IN  /\ q \in Nat
             /\ q = 0 => Free(c, s) /\ ~ Occurs(c, s)
             /\ q # 0 => /\ Occurs(c, s)
                         /\ Until(s, q) \in Seq(S) /\ Len(Until(s, q)) = q - 1
                         /\ s = Until(s, q) \o <<c>> \o From(s, q + 1)
             /\ From(s, q + 1) \in Seq(S) /\ Free(c, From(s, q + 1))
  <1>1. PICK q \in 0..Len(s) : q = FindLast(s, c) /\ IsLast(s, c, q)
    BY FindLastIs DEF IsLast
  <1>2. Len(s) \in Nat
    OBVIOUS
  <1>3. q = 0 => Free(c, s) /\ ~ Occurs(c, s)
    BY <1>1 DEF IsLast, Free, Occurs
  <1>4. /\ From(s, q + 1) \in Seq(S) /\ Len(From(s, q + 1)) = Len(s) - q
        /\ \A i \in 1..(Len(s) - q) : From(s, q + 1)[i] = s[q + i]
    BY <1>2 DEF From
  <1>5. Free(c, From(s, q + 1))
    BY <1>1, <1>2, <1>4 DEF IsLast, Free
  <1>6. ASSUME q # 0
        PROVE  /\ Occurs(c, s)
               /\ Until(s, q) \in Seq(S) /\ Len(Until(s, q)) = q - 1
               /\ s = Until(s, q) \o <<c>> \o From(s, q + 1)
    <2>1. s[q] = c /\ Occurs(c, s)
      BY <1>1, <1>2, <1>6 DEF IsLast, Occurs
    <2>2. Until(s, q) \in Seq(S) /\ Len(Until(s, q)) = q - 1
      BY <1>2, <1>6 DEF Until
    <2>3. q \in 1..Len(s)
      BY <1>2, <1>6
    <2> QED  BY <2>1, <2>2, <2>3, Cut DEF Until, From
  <1> QED  BY <1>1, <1>3, <1>4, <1>5, <1>6

(* What parse_path makes of a directory and a file, and of a file alone.   *)
LEMMA ParseFile ==
  ASSUME NEW S, NEW f \in Seq(S), Free(Slash, f)
  PROVE  /\ FindLast(f, Slash) = 0
         /\ ParsePath(f).dir = <<>>
         /\ ParsePath(f).base = LET dot == FindLast(f, Dot)
                                IN  IF dot = npos THEN f ELSE Until(f, dot)
         /\ ParsePath(f).ext = LET dot == FindLast(f, Dot)
                               IN  IF dot = npos THEN <<>> ELSE From(f, dot + 1)
  <1>1. FindLast(f, Slash) = 0
    <2>1. IsLast(f, Slash, 0)
      BY DEF IsLast, Free
    <2> QED  BY <2>1, LastIs
  <1>2. From(f, 0 + 1) = f
    BY SubSeqFull DEF From
  <1> QED  BY <1>1, <1>2 DEF ParsePath, npos

LEMMA ParseDirFile ==
  ASSUME NEW S, NEW d \in Seq(S), d # <<>>, NEW f \in Seq(S), Slash \in S,
         Free(Slash, f)
  PROVE  LET s == d \o <<Slash>> \o f
         IN  /\ FindLast(s, Slash) = Len(d) + 1
             /\ ParsePath(s) = [ParsePath(f) EXCEPT !.dir = d]
  <1> DEFINE s == d \o <<Slash>> \o f
  <1>1. /\ Until(s, Len(d) + 1) = d /\ From(s, Len(d) + 2) = f
        /\ FindLast(s, Slash) = Len(d) + 1
    BY JoinParts
  <1>2. Len(d) \in Nat /\ Len(d) + 1 # 0 /\ (Len(d) + 1) + 1 = Len(d) + 2
    OBVIOUS
  <1> HIDE DEF s
  <1>3. FindLast(f, Slash) = 0 /\ From(f, 0 + 1) = f
    BY ParseFile, SubSeqFull DEF From
  <1> QED  BY <1>1, <1>2, <1>3 DEF ParsePath, npos, s

(* An output path, for a directory and a base name without slash.          *)
Assembled(d, b, ext) ==
  IF d = <<>> THEN b \o <<Dot, ext>> ELSE d \o <<Slash>> \o (b \o <<Dot, ext>>)

LEMMA OutParsed ==
  ASSUME NEW S, Slash \in S, Dot \in S, NEW ext \in S, ext # Dot, ext # Slash,
         NEW d \in Seq(S), NEW b \in Seq(S), Free(Slash, b)
  PROVE  /\ ParsePath(Assembled(d, b, ext)) = [dir |-> d, base |-> b, ext |-> <<ext>>]
         /\ FindLast(Assembled(d, b, ext), Slash)
              = IF d = <<>> THEN 0 ELSE Len(d) + 1
  <1> DEFINE out == Assembled(d, b, ext)
  <1> DEFINE f == b \o <<Dot, ext>>
  <1>2. PICK e \in Seq(S) : e = <<ext>> /\ Len(e) = 1 /\ e[1] = ext
    <2>1. <<ext>> \in Seq(S) /\ Len(<<ext>>) = 1 /\ <<ext>>[1] = ext
      OBVIOUS
    <2> QED  BY <2>1, Zenon
  <1>1. f = b \o <<Dot>> \o e
    <2>1. <<Dot, ext>> = <<Dot>> \o e
      BY <1>2
    <2>2. PICK x \in Seq(S) : x = <<Dot>>
      <3>1. <<Dot>> \in Seq(S)
        OBVIOUS
      <3> QED  BY <3>1, Zenon
    <2>3. (b \o x) \o e = b \o (x \o e)
      BY ConcatAssociative
    <2> QED  BY <2>1, <2>2, <2>3
  <1>3. Free(Dot, e)
    BY <1>2 DEF Free
  <1>4. f \in Seq(S) /\ Free(Slash, f)
    <2> HIDE DEF f
    <2>1. /\ f \in Seq(S) /\ Len(f) = Len(b) + 1 + Len(e) /\ f[Len(b) + 1] = Dot
          /\ \A i \in 1..Len(b) : f[i] = b[i]
          /\ \A i \in 1..Len(e) : f[Len(b) + 1 + i] = e[i]
      BY <1>1, JoinIs
    <2>2. f[Len(b) + 1 + 1] = ext
      BY <1>2, <2>1
    <2>3. Len(b) \in Nat /\ Dot # Slash
      BY DEF Dot, Slash
    <2>4. ASSUME NEW i \in 1..Len(f)  PROVE f[i] # Slash
      <3>1. i \in 1..Len(b) \/ i = Len(b) + 1 \/ i = Len(b) + 1 + 1
        BY <1>2, <2>1, <2>3
      <3> QED  BY <2>1, <2>2, <2>3, <3>1 DEF Free
    <2> QED  BY <2>1, <2>4 DEF Free
  <1> HIDE DEF f
  <1>5. /\ Until(f, Len(b) + 1) = b /\ From(f, Len(b) + 2) = <<ext>>
        /\ FindLast(f, Dot) = Len(b) + 1
    <2>1. /\ Until(f, Len(b) + 1) = b /\ From(f, Len(b) + 2) = e
          /\ FindLast(f, Dot) = Len(b) + 1
      BY <1>1, <1>3, JoinParts
    <2> QED  BY <1>2, <2>1
  <1>6. ParsePath(f) = [dir |-> <<>>, base |-> b, ext |-> <<ext>>]
    <2>1. Len(b) \in Nat /\ Len(b) + 1 # 0 /\ (Len(b) + 1) + 1 = Len(b) + 2
      OBVIOUS
    <2>2. FindLast(f, Slash) = 0 /\ From(f, 0 + 1) = f
      BY <1>4, ParseFile, SubSeqFull DEF From
    <2> QED  BY <1>5, <2>1, <2>2 DEF ParsePath, npos
  <1> HIDE DEF out
  <1>7. CASE d = <<>>
    <2>1. out = f
      BY <1>7 DEF f, out, Assembled
    <2>2. FindLast(f, Slash) = 0
      BY <1>4, ParseFile
    <2> QED  BY <1>6, <1>7, <2>1, <2>2 DEF out
  <1>8. CASE d # <<>>
    <2>1. out = d \o <<Slash>> \o f
      BY <1>8 DEF f, out, Assembled
    <2>2. /\ FindLast(out, Slash) = Len(d) + 1
          /\ ParsePath(out) = [ParsePath(f) EXCEPT !.dir = d]
      BY <1>4, <1>8, <2>1, ParseDirFile, Zenon
    <2>3. [[dir |-> <<>>, base |-> b, ext |-> <<ext>>] EXCEPT !.dir = d]
            = [dir |-> d, base |-> b, ext |-> <<ext>>]
      OBVIOUS
    <2> QED  BY <1>6, <1>8, <2>2, <2>3 DEF out
  <1> QED  BY <1>7, <1>8

LEMMA Widened ==
  ASSUME NEW s, IsText(s)
  PROVE  \E S : s \in Seq(S) /\ Slash \in S /\ Dot \in S /\ "db" \in S
  <1> DEFINE T == {s[i] : i \in DOMAIN s}
             S == T \cup {Slash, Dot, "db"}
  <1>1. s \in Seq(T) /\ T \subseteq S
    BY DEF IsText
  <1> HIDE DEF T
  <1>2. s \in Seq(S)
    BY <1>1, SeqMonotonic
  <1> QED  BY <1>2

(* What PathKept says of a path and its output path.                       *)
Kept(path, p, out) ==
  LET at   == FindLast(path, Slash)
      file == From(path, at + 1)
  IN  /\ file = p.base \o (IF Occurs(Dot, file) THEN <<Dot>> ELSE <<>>) \o p.ext
      /\ ~Occurs(Dot, p.ext) /\ ~Occurs(Slash, file)
      /\ ParsePath(out) = [p EXCEPT !.ext = <<"db">>]
      /\ at # 1 => /\ FindLast(out, Slash) = at
                   /\ out = path => p.ext = <<"db">>

LEMMA PathIsKept ==
  ASSUME NEW path, IsText(path)
  PROVE  Kept(path, ParsePath(path), OutPath(path, "db"))
  <1>1. PICK S : path \in Seq(S) /\ Slash \in S /\ Dot \in S /\ "db" \in S
    BY Widened
  <1> DEFINE p    == ParsePath(path)
             at   == FindLast(path, Slash)
             file == From(path, at + 1)
             dot  == FindLast(file, Dot)
             out  == OutPath(path, "db")
  <1>2. /\ at \in Nat
        /\ at # 0 => /\ Until(path, at) \in Seq(S)
                     /\ Len(Until(path, at)) = at - 1
        /\ file \in Seq(S) /\ Free(Slash, file)
    BY <1>1, SplitAtLast
  <1>3. /\ dot \in Nat
        /\ dot = 0 => Free(Dot, file) /\ ~ Occurs(Dot, file)
        /\ dot # 0 => /\ Occurs(Dot, file)
                      /\ Until(file, dot) \in Seq(S)
                      /\ Len(Until(file, dot)) = dot - 1
                      /\ file = Until(file, dot) \o <<Dot>> \o From(file, dot + 1)
        /\ From(file, dot + 1) \in Seq(S) /\ Free(Dot, From(file, dot + 1))
    <2> HIDE DEF file
    <2> QED  BY <1>2, SplitAtLast
  <1>4. /\ p.dir = IF at = 0 THEN <<>> ELSE Until(path, at)
        /\ p.base = IF dot = 0 THEN file ELSE Until(file, dot)
        /\ p.ext = IF dot = 0 THEN <<>> ELSE From(file, dot + 1)
        /\ p = [dir |-> p.dir, base |-> p.base, ext |-> p.ext]
    BY DEF ParsePath, npos
  <1>5. out = IF p.dir = <<>> THEN p.base \o <<Dot, "db">>
              ELSE p.dir \o <<Slash>> \o (p.base \o <<Dot, "db">>)
    BY DEF OutPath
  <1> HIDE DEF p, at, file, dot, out
  <1>6. p.dir \in Seq(S) /\ p.base \in Seq(S)
    BY <1>2, <1>3, <1>4
  <1>7. Free(Slash, p.base)
    <2>1. CASE dot = 0
      BY <1>2, <1>4, <2>1
    <2>2. CASE dot # 0
      <3>1. Len(Until(file, dot)) \in Nat /\ Len(From(file, dot + 1)) \in Nat
        BY <1>3, <2>2
      <3>2. /\ Len(file) = Len(Until(file, dot)) + 1 + Len(From(file, dot + 1))
            /\ \A i \in 1..Len(Until(file, dot)) : file[i] = Until(file, dot)[i]
        BY <1>1, <1>3, <2>2, JoinIs
      <3> QED  BY <1>2, <1>4, <2>2, <3>1, <3>2 DEF Free
    <2> QED  BY <2>1, <2>2
  <1>8. /\ ParsePath(out) = [dir |-> p.dir, base |-> p.base, ext |-> <<"db">>]
        /\ FindLast(out, Slash) = IF p.dir = <<>> THEN 0 ELSE Len(p.dir) + 1
    <2>1. "db" # Dot /\ "db" # Slash
      BY DEF Dot, Slash
    <2>2. PICK x \in S : x = "db"
      BY <1>1
    <2>3. PICK d, b : d = p.dir /\ b = p.base
      OBVIOUS
    <2>4. out = Assembled(d, b, x)
      BY <1>5, <2>2, <2>3 DEF Assembled
    <2>5. d \in Seq(S) /\ b \in Seq(S) /\ Free(Slash, b)
      BY <1>6, <1>7, <2>3
    <2>6. x # Dot /\ x # Slash
      BY <2>1, <2>2
    <2>7. /\ ParsePath(out) = [dir |-> d, base |-> b, ext |-> <<x>>]
          /\ FindLast(out, Slash) = IF d = <<>> THEN 0 ELSE Len(d) + 1
      <3>1. Slash \in S /\ Dot \in S
        BY <1>1
      <3> QED  BY <3>1, <2>4, <2>5, <2>6, OutParsed
    <2> QED  BY <2>2, <2>3, <2>7, Zenon
  <1>9. file = p.base \o (IF Occurs(Dot, file) THEN <<Dot>> ELSE <<>>) \o p.ext
    <2>1. CASE dot = 0
      <3>1. p.base = file /\ p.ext = <<>> /\ ~ Occurs(Dot, file)
        BY <1>3, <1>4, <2>1
      <3>2. file \o <<>> = file
        BY <1>2, ConcatEmptySeq
      <3> QED  BY <3>1, <3>2
    <2>2. CASE dot # 0
      BY <1>3, <1>4, <2>2, Zenon
    <2> QED  BY <2>1, <2>2
  <1>10. ~ Occurs(Dot, p.ext) /\ ~ Occurs(Slash, file)
    <2>1. Len(<<>>) = 0
      OBVIOUS
    <2> QED  BY <1>2, <1>3, <1>4, <2>1 DEF Free, Occurs
  <1>11. ASSUME at # 1
         PROVE  FindLast(out, Slash) = at /\ (out = path => p.ext = <<"db">>)
    <2>1. FindLast(out, Slash) = at
      <3>1. CASE at = 0
        BY <1>4, <1>8, <3>1
      <3>2. CASE at # 0
        <4>1. p.dir = Until(path, at) /\ Len(p.dir) = at - 1 /\ Len(p.dir) # 0
          BY <1>2, <1>4, <1>11, <3>2
        <4>2. p.dir # <<>>
          <5>1. Len(<<>>) = 0
            OBVIOUS
          <5> QED  BY <4>1, <5>1
        <4> QED  BY <1>2, <1>8, <4>1, <4>2
      <3> QED  BY <3>1, <3>2
    <2>2. out = path => ParsePath(out) = p
      BY DEF p
    <2>3. out = path => p.ext = <<"db">>
      BY <1>8, <2>2
    <2> QED  BY <2>1, <2>3
  <1>12. ParsePath(out) = [p EXCEPT !.ext = <<"db">>]
    BY <1>4, <1>8
  <1> QED  BY <1>9, <1>10, <1>11, <1>12 DEF Kept, p, at, file, out

-----------------------------------------------------------------------------
(* _strdiv *)

LEMMA Induction ==
  ASSUME NEW T, 0 \in T, \A n \in Nat : n \in T => n + 1 \in T
  PROVE  Nat \subseteq T
  <1> SUFFICES ASSUME Nat \ T # {}  PROVE FALSE
    OBVIOUS
  <1>1. PICK x \in Nat \ T : \A y \in Nat \ T : x <= y
    BY Lowest
  <1>2. x # 0 /\ x - 1 \in Nat
    OBVIOUS
  <1>3. x - 1 \in T
    BY <1>1, <1>2
  <1>4. (x - 1) + 1 \in T
    BY <1>2, <1>3
  <1> QED  BY <1>4

(* Where a loop over a text goes from p: to nx[p], with h[p] in front, or  *)
(* nowhere, with a[p].                                                     *)
Loop(v, n, a, h, nx) ==
  v = [p \in 1..(n + 1) |-> IF nx[p] = 0 THEN a[p] ELSE h[p] \o v[nx[p]]]

Ahead(n, nx) ==
  \A p \in 1..(n + 1) : nx[p] # 0 => nx[p] \in (p + 1)..(n + 1)

LEMMA LoopExists ==
  ASSUME NEW n \in Nat, NEW a, NEW h, NEW nx, Ahead(n, nx)
  PROVE  \E v : Loop(v, n, a, h, nx)
  <1> DEFINE Body(v, p) == IF nx[p] = 0 THEN a[p] ELSE h[p] \o v[nx[p]]
             From0(v, k) == /\ DOMAIN v = 1..(n + 1)
                            /\ v = [p \in DOMAIN v |-> v[p]]
                            /\ \A p \in 1..(n + 1) : n + 1 - p < k => v[p] = Body(v, p)
             T == {k \in Nat : \E v : From0(v, k)}
  <1>1. 0 \in T
    <2> DEFINE v == [p \in 1..(n + 1) |-> 0]
    <2>1. DOMAIN v = 1..(n + 1) /\ v = [p \in DOMAIN v |-> v[p]]
      OBVIOUS
    <2>2. \A p \in 1..(n + 1) : ~ (n + 1 - p < 0)
      OBVIOUS
    <2> HIDE DEF v
    <2>3. From0(v, 0)
      BY <2>1, <2>2
    <2> QED  BY <2>3
  <1>2. ASSUME NEW k \in Nat, k \in T  PROVE k + 1 \in T
    <2>1. PICK v : From0(v, k)
      BY <1>2
    <2> DEFINE w == [p \in 1..(n + 1) |-> IF n + 1 - p = k THEN Body(v, p) ELSE v[p]]
    <2>2. DOMAIN w = 1..(n + 1) /\ w = [p \in DOMAIN w |-> w[p]]
      OBVIOUS
    <2>3. ASSUME NEW p \in 1..(n + 1), n + 1 - p < k + 1  PROVE w[p] = Body(w, p)
      <3>1. nx[p] # 0 => w[nx[p]] = v[nx[p]]
        <4> SUFFICES ASSUME nx[p] # 0  PROVE w[nx[p]] = v[nx[p]]
          OBVIOUS
        <4>1. PICK y \in 1..(n + 1) : y = nx[p] /\ n + 1 - y < k
          BY <2>3 DEF Ahead
        <4>2. w[y] = v[y]
          BY <4>1
        <4> QED  BY <4>1, <4>2
      <3>2. Body(w, p) = Body(v, p)
        <4> HIDE DEF w
        <4>1. CASE nx[p] = 0
          BY <4>1
        <4>2. CASE nx[p] # 0
          <5>1. w[nx[p]] = v[nx[p]]
            BY <3>1, <4>2
          <5> QED  BY <4>2, <5>1, Zenon
        <4> QED  BY <4>1, <4>2
      <3>3. CASE n + 1 - p = k
        BY <3>2, <3>3
      <3>4. CASE n + 1 - p # k
        <4>1. w[p] = v[p] /\ n + 1 - p < k
          BY <2>3, <3>4
        <4>2. v[p] = Body(v, p)
          BY <2>1, <4>1
        <4> HIDE DEF w, Body
        <4> QED  BY <3>2, <4>1, <4>2
      <3> QED  BY <3>3, <3>4
    <2> HIDE DEF w
    <2>4. From0(w, k + 1)
      BY <2>2, <2>3
    <2>5. k + 1 \in Nat
      OBVIOUS
    <2> HIDE DEF From0
    <2> QED  BY <2>4, <2>5
  <1> HIDE DEF T
  <1>3. n + 1 \in T
    BY <1>1, <1>2, Induction
  <1>4. PICK v : From0(v, n + 1)
    BY <1>3 DEF T
  <1>5. \A p \in 1..(n + 1) : v[p] = Body(v, p)
    <2>1. \A p \in 1..(n + 1) : n + 1 - p < n + 1
      OBVIOUS
    <2> HIDE DEF Body
    <2> QED  BY <1>4, <2>1
  <1>6. v = [p \in 1..(n + 1) |-> v[p]]
    BY <1>4
  <1>7. [p \in 1..(n + 1) |-> v[p]] = [p \in 1..(n + 1) |-> Body(v, p)]
    BY <1>5
  <1>8. Loop(v, n, a, h, nx)
    BY <1>6, <1>7 DEF Loop
  <1> QED  BY <1>8

LEMMA FindFirstIs ==
  ASSUME NEW S, NEW s \in Seq(S), NEW c, NEW p \in 1..(Len(s) + 1)
  PROVE  LET q == FindFirst(s, c, p)
         IN  /\ q \in 0..Len(s)
             /\ q = 0 => \A x \in p..Len(s) : s[x] # c
             /\ q # 0 => /\ q >= p /\ s[q] = c
                         /\ \A x \in p..(q - 1) : s[x] # c
  <1> DEFINE T == {x \in p..Len(s) : s[x] = c}
             q == Least(T)
  <1>1. Len(s) \in Nat
    OBVIOUS
  <1>2. T \subseteq Nat
    BY <1>1
  <1>3. /\ T = {} => q = 0
        /\ T # {} => q \in T /\ \A y \in T : q <= y
    BY <1>2, LeastIs
  <1>4. FindFirst(s, c, p) = q
    BY DEF FindFirst
  <1>5. CASE T = {}
    BY <1>1, <1>3, <1>4, <1>5
  <1>6. CASE T # {}
    <2>1. q \in p..Len(s) /\ s[q] = c
      BY <1>3, <1>6
    <2>2. ASSUME NEW x \in p..(q - 1)  PROVE s[x] # c
      <3>1. x \in p..Len(s) /\ ~ (q <= x)
        BY <1>1, <2>1
      <3> QED  BY <1>3, <1>6, <3>1
    <2> HIDE DEF q
    <2> QED  BY <1>1, <1>4, <2>1, <2>2
  <1> QED  BY <1>5, <1>6

(* v is the list of the tokens from each position on.                      *)
DivFrom(s, c, v) ==
  \A p \in 1..(Len(s) + 1) :
    LET q == FindFirst(s, c, p)
    IN  v[p] = IF q = 0 THEN Token(From(s, p))
               ELSE Token(SubSeq(s, p, q - 1)) \o v[q + 1]

LEMMA DivIs ==
  ASSUME NEW S, NEW s \in Seq(S), NEW c
  PROVE  \E v : StrDiv(s, c) = v[1] /\ DivFrom(s, c, v)
  <1> DEFINE n     == Len(s)
             q(p)  == FindFirst(s, c, p)
             nx    == [p \in 1..(n + 1) |-> IF q(p) = 0 THEN 0 ELSE q(p) + 1]
             a     == [p \in 1..(n + 1) |-> Token(From(s, p))]
             h     == [p \in 1..(n + 1) |-> Token(SubSeq(s, p, q(p) - 1))]
             Eq(v) == v = [p \in 1..(n + 1) |->
                             IF q(p) = 0 THEN Token(From(s, p))
                             ELSE Token(SubSeq(s, p, q(p) - 1)) \o v[q(p) + 1]]
  <1>1. n \in Nat
    OBVIOUS
  <1>2. \A p \in 1..(n + 1) : q(p) \in 0..n /\ (q(p) # 0 => q(p) >= p)
    BY FindFirstIs
  <1> HIDE DEF q
  <1>3. Ahead(n, nx)
    BY <1>1, <1>2 DEF Ahead
  <1>4. \A v : Loop(v, n, a, h, nx) => Eq(v)
    <2> SUFFICES ASSUME NEW v, Loop(v, n, a, h, nx)  PROVE Eq(v)
      OBVIOUS
    <2>1. \A p \in 1..(n + 1) :
            (IF nx[p] = 0 THEN a[p] ELSE h[p] \o v[nx[p]])
              = IF q(p) = 0 THEN Token(From(s, p))
                ELSE Token(SubSeq(s, p, q(p) - 1)) \o v[q(p) + 1]
      <3> SUFFICES ASSUME NEW p \in 1..(n + 1)
                   PROVE  (IF nx[p] = 0 THEN a[p] ELSE h[p] \o v[nx[p]])
                            = IF q(p) = 0 THEN Token(From(s, p))
                              ELSE Token(SubSeq(s, p, q(p) - 1)) \o v[q(p) + 1]
        OBVIOUS
      <3>1. /\ nx[p] = IF q(p) = 0 THEN 0 ELSE q(p) + 1
            /\ a[p] = Token(From(s, p))
            /\ h[p] = Token(SubSeq(s, p, q(p) - 1))
        OBVIOUS
      <3>2. q(p) # 0 => q(p) + 1 # 0
        BY <1>2
      <3> HIDE DEF nx, a, h
      <3> QED  BY <3>1, <3>2
    <2>2. v = [p \in 1..(n + 1) |-> IF nx[p] = 0 THEN a[p] ELSE h[p] \o v[nx[p]]]
      BY DEF Loop
    <2> QED  BY <2>1, <2>2, Zenon
  <1>5. \E v : Eq(v)
    <2> HIDE DEF Eq, nx, a, h, n
    <2> QED  BY <1>1, <1>3, <1>4, LoopExists
  <1>6. PICK v : v = CHOOSE w : Eq(w)
    OBVIOUS
  <1>7. Eq(v)
    BY <1>5, <1>6, Zenon
  <1>8. StrDiv(s, c) = v[1]
    BY <1>6 DEF StrDiv, npos, q
  <1>9. DivFrom(s, c, v)
    <2> SUFFICES ASSUME NEW p \in 1..(n + 1)
                 PROVE  v[p] = IF q(p) = 0 THEN Token(From(s, p))
                               ELSE Token(SubSeq(s, p, q(p) - 1)) \o v[q(p) + 1]
      BY DEF DivFrom, q
    <2> QED  BY <1>7
  <1> QED  BY <1>8, <1>9

(* Where the runs of s without c begin, and the run that begins at p.      *)
Begins(s, c) == {x \in 1..Len(s) : s[x] # c /\ (x = 1 \/ s[x - 1] = c)}

RunAt(s, c, p) == LET q == FindFirst(s, c, p)
                  IN  IF q = npos THEN From(s, p) ELSE SubSeq(s, p, q - 1)

BeginsFrom(s, c, p) == {x \in Begins(s, c) : x >= p}

Upto(B, x) == {y \in B : y <= x}

(* r lists the runs that begin in B.                                       *)
AreRuns(s, c, B, r) ==
  /\ Len(r) = Cardinality(B)
  /\ \A x \in B : r[Cardinality(Upto(B, x))] = RunAt(s, c, x)
  /\ \A k \in 1..Len(r) : Len(r[k]) \in 1..Len(s)

LEMMA BeginsFinite ==
  ASSUME NEW S, NEW s \in Seq(S), NEW c, NEW B, B \subseteq Begins(s, c)
  PROVE  /\ B \subseteq Nat /\ IsFiniteSet(B) /\ Cardinality(B) \in Nat
         /\ \A x \in B : Cardinality(Upto(B, x)) \in 1..Cardinality(B)
  <1>1. Len(s) \in Nat /\ 1 \in Int /\ Len(s) \in Int
    OBVIOUS
  <1>2. IsFiniteSet(1..Len(s)) /\ B \subseteq 1..Len(s)
    BY <1>1, FS_Interval DEF Begins
  <1>3. IsFiniteSet(B) /\ Cardinality(B) \in Nat
    BY <1>2, FS_Subset, FS_CardinalityType
  <1>4. ASSUME NEW x \in B  PROVE Cardinality(Upto(B, x)) \in 1..Cardinality(B)
    <2>1. Upto(B, x) \subseteq B /\ x \in Upto(B, x)
      BY <1>2 DEF Upto
    <2>2. /\ IsFiniteSet(Upto(B, x)) /\ Cardinality(Upto(B, x)) <= Cardinality(B)
          /\ Cardinality(Upto(B, x)) \in Nat
      BY <1>3, <2>1, FS_Subset, FS_CardinalityType
    <2>3. Cardinality(Upto(B, x)) # 0
      BY <2>1, <2>2, FS_EmptySet
    <2> QED  BY <1>3, <2>2, <2>3
  <1> QED  BY <1>2, <1>3, <1>4

LEMMA NoRuns ==
  ASSUME NEW s, NEW c
  PROVE  AreRuns(s, c, {}, <<>>)
  <1>1. Len(<<>>) = 0 /\ Cardinality({}) = 0
    BY FS_EmptySet
  <1> QED  BY <1>1 DEF AreRuns

(* A run in front of the others.                                           *)
LEMMA OneMoreRun ==
  ASSUME NEW S, NEW s \in Seq(S), NEW c, NEW B, B \subseteq Begins(s, c),
         NEW U, NEW r \in Seq(U), AreRuns(s, c, B, r),
         NEW p \in Begins(s, c), \A x \in B : p < x,
         NEW t \in U, t = RunAt(s, c, p), Len(t) \in 1..Len(s)
  PROVE  AreRuns(s, c, {p} \cup B, <<t>> \o r)
  <1> DEFINE A == {p} \cup B
             u == <<t>> \o r
  <1>1. /\ B \subseteq Nat /\ IsFiniteSet(B) /\ Cardinality(B) \in Nat
        /\ \A x \in B : Cardinality(Upto(B, x)) \in 1..Cardinality(B)
    BY BeginsFinite
  <1>2. p \in Nat /\ p \notin B
    BY DEF Begins
  <1>3. Cardinality(A) = Cardinality(B) + 1
    <2>1. Cardinality(B \cup {p}) = Cardinality(B) + 1
      BY <1>1, <1>2, FS_AddElement
    <2>2. A = B \cup {p}
      OBVIOUS
    <2> QED  BY <2>1, <2>2
  <1>4. /\ Len(u) = Len(r) + 1 /\ u[1] = t
        /\ \A k \in 1..Len(r) : u[k + 1] = r[k]
    OBVIOUS
  <1>5. Len(r) = Cardinality(B)
    BY DEF AreRuns
  <1> HIDE DEF u
  <1>6. ASSUME NEW x \in A  PROVE u[Cardinality(Upto(A, x))] = RunAt(s, c, x)
    <2>1. CASE x = p
      <3>1. Upto(A, x) = {p}
        <4>1. \A y \in B : ~ (y <= p)
          BY <1>1, <1>2
        <4>2. p <= p /\ p \in A
          BY <1>2
        <4>3. \A y \in A : y <= p => y = p
          BY <4>1
        <4> HIDE DEF A
        <4> QED  BY <2>1, <4>2, <4>3 DEF Upto
      <3>2. Cardinality(Upto(A, x)) = 1
        BY <3>1, FS_Singleton
      <3> QED  BY <1>4, <2>1, <3>2
    <2>2. CASE x \in B
      <3>1. Upto(A, x) = {p} \cup Upto(B, x)
        BY <1>1, <1>2, <2>2 DEF Upto
      <3>2. Upto(B, x) \subseteq B /\ p \notin Upto(B, x)
        BY <1>2 DEF Upto
      <3>3. IsFiniteSet(Upto(B, x))
        BY <1>1, <3>2, FS_Subset
      <3>4. Cardinality({p} \cup Upto(B, x)) = Cardinality(Upto(B, x)) + 1
        <4>1. Cardinality(Upto(B, x) \cup {p}) = Cardinality(Upto(B, x)) + 1
          BY <3>2, <3>3, FS_AddElement
        <4>2. Upto(B, x) \cup {p} = {p} \cup Upto(B, x)
          OBVIOUS
        <4> QED  BY <4>1, <4>2
      <3>5. PICK k \in 1..Len(r) : k = Cardinality(Upto(B, x))
        BY <1>1, <1>5, <2>2
      <3>6. r[k] = RunAt(s, c, x)
        BY <2>2, <3>5 DEF AreRuns
      <3> QED  BY <1>4, <3>1, <3>4, <3>5, <3>6
    <2> QED  BY <2>1, <2>2
  <1>7. ASSUME NEW k \in 1..Len(u)  PROVE Len(u[k]) \in 1..Len(s)
    <2>1. Len(r) \in Nat
      OBVIOUS
    <2>2. CASE k = 1
      BY <1>4, <2>2
    <2>3. CASE k # 1
      <3>1. PICK j \in 1..Len(r) : k = j + 1
        <4>1. k - 1 \in 1..Len(r) /\ k = (k - 1) + 1
          BY <1>4, <2>1, <2>3
        <4> QED  BY <4>1
      <3>2. u[k] = r[j]
        BY <1>4, <3>1
      <3> QED  BY <3>2 DEF AreRuns
    <2> QED  BY <2>2, <2>3
  <1> QED  BY <1>3, <1>4, <1>5, <1>6, <1>7 DEF AreRuns, u

(* At the begin of the text, or behind a c.                                *)
AtBorder(s, c, p) == p = 1 \/ s[p - 1] = c

LEMMA RunsToEnd ==
  ASSUME NEW S, NEW s \in Seq(S), NEW c, NEW p \in 1..(Len(s) + 1),
         AtBorder(s, c, p), FindFirst(s, c, p) = 0
  PROVE  /\ Token(From(s, p)) \in Seq(Seq(S))
         /\ AreRuns(s, c, BeginsFrom(s, c, p), Token(From(s, p)))
  <1>1. PICK n \in Nat : n = Len(s)
    OBVIOUS
  <1>2. \A x \in p..n : s[x] # c
    BY <1>1, FindFirstIs
  <1>3. From(s, p) \in Seq(S) /\ Len(From(s, p)) = n + 1 - p
    BY <1>1 DEF From
  <1>4. CASE p = n + 1
    <2>1. From(s, p) = <<>>
      BY <1>1, <1>4, SubSeqEmpty DEF From
    <2>2. BeginsFrom(s, c, p) = {}
      BY <1>1, <1>4 DEF BeginsFrom, Begins
    <2>3. <<>> \in Seq(Seq(S))
      OBVIOUS
    <2> QED  BY <2>1, <2>2, <2>3, NoRuns DEF Token
  <1>5. CASE p # n + 1
    <2>1. p \in 1..n /\ Len(From(s, p)) \in 1..n
      BY <1>1, <1>3, <1>5
    <2>2. From(s, p) # <<>>
      <3>1. Len(<<>>) = 0
        OBVIOUS
      <3> QED  BY <2>1, <3>1
    <2>3. Token(From(s, p)) = <<From(s, p)>> /\ <<From(s, p)>> \in Seq(Seq(S))
      BY <1>3, <2>2 DEF Token
    <2>4. p \in Begins(s, c)
      BY <1>1, <1>2, <2>1 DEF Begins, AtBorder
    <2>5. BeginsFrom(s, c, p) = {p}
      <3>1. ASSUME NEW x \in Begins(s, c), x >= p  PROVE x = p
        <4>1. x \in p..n /\ (x = 1 \/ s[x - 1] = c)
          BY <1>1, <3>1 DEF Begins
        <4>2. x # p => x - 1 \in p..n /\ x # 1
          BY <2>1, <4>1
        <4> QED  BY <1>2, <4>1, <4>2
      <3>2. p >= p
        BY <2>1
      <3> QED  BY <2>4, <3>1, <3>2 DEF BeginsFrom
    <2>6. RunAt(s, c, p) = From(s, p)
      BY DEF RunAt, npos
    <2>7. AreRuns(s, c, {p} \cup {}, <<From(s, p)>> \o <<>>)
      <3>1. /\ {} \subseteq Begins(s, c) /\ \A x \in {} : p < x
            /\ <<>> \in Seq(Seq(S))
        OBVIOUS
      <3> QED  BY <1>1, <1>3, <2>1, <2>4, <2>6, <3>1, NoRuns, OneMoreRun
    <2>8. <<From(s, p)>> \o <<>> = <<From(s, p)>>
      BY <2>3, ConcatEmptySeq
    <2> QED  BY <2>3, <2>5, <2>7, <2>8
  <1> QED  BY <1>4, <1>5

LEMMA RunsToNext ==
  ASSUME NEW S, NEW s \in Seq(S), NEW c, NEW p \in 1..(Len(s) + 1),
         AtBorder(s, c, p), NEW q, q = FindFirst(s, c, p), q # 0,
         NEW r \in Seq(Seq(S)), AreRuns(s, c, BeginsFrom(s, c, q + 1), r)
  PROVE  /\ Token(SubSeq(s, p, q - 1)) \o r \in Seq(Seq(S))
         /\ AreRuns(s, c, BeginsFrom(s, c, p), Token(SubSeq(s, p, q - 1)) \o r)
  <1>1. PICK n \in Nat : n = Len(s)
    OBVIOUS
  <1>2. q \in p..n /\ s[q] = c /\ \A x \in p..(q - 1) : s[x] # c
    BY <1>1, FindFirstIs
  <1> DEFINE t == SubSeq(s, p, q - 1)
             B == BeginsFrom(s, c, q + 1)
  <1>3. t \in Seq(S) /\ Len(t) = q - p
    BY <1>1, <1>2
  <1>4. \A x \in B : x \in Begins(s, c) /\ x \in (q + 1)..n
    BY <1>1, <1>2 DEF BeginsFrom, Begins
  <1>5. ASSUME NEW x \in Begins(s, c), x >= p  PROVE x = p \/ x \in B
    <2>1. x \in p..n /\ s[x] # c /\ (x = 1 \/ s[x - 1] = c)
      BY <1>1, <1>5 DEF Begins
    <2>2. x > p /\ x <= q => x - 1 \in p..(q - 1) /\ x # 1
      BY <1>1, <1>2, <2>1
    <2>3. x = p \/ x >= q + 1
      BY <1>2, <2>1, <2>2
    <2> QED  BY <2>3 DEF BeginsFrom
  <1> HIDE DEF t
  <1>6. CASE q = p
    <2>1. t = <<>> /\ Token(t) \o r = r
      <3>1. t = <<>>
        BY <1>2, <1>6, SubSeqEmpty DEF t
      <3> QED  BY <3>1, ConcatEmptySeq DEF Token
    <2>2. BeginsFrom(s, c, p) = B
      <3>1. p \notin Begins(s, c)
        BY <1>2, <1>6 DEF Begins
      <3>2. \A x \in B : x >= p
        BY <1>2, <1>4
      <3> QED  BY <1>4, <1>5, <3>1, <3>2 DEF BeginsFrom
    <2> QED  BY <2>1, <2>2 DEF t
  <1>7. CASE q # p
    <2>1. p \in 1..n /\ Len(t) \in 1..n /\ p \in p..(q - 1)
      BY <1>1, <1>2, <1>3, <1>7
    <2>2. t # <<>>
      <3>1. Len(<<>>) = 0
        OBVIOUS
      <3> QED  BY <2>1, <3>1
    <2>3. Token(t) = <<t>> /\ <<t>> \o r \in Seq(Seq(S))
      BY <1>3, <2>2 DEF Token
    <2>4. p \in Begins(s, c)
      BY <1>1, <1>2, <2>1 DEF Begins, AtBorder
    <2>5. BeginsFrom(s, c, p) = {p} \cup B
      <3>1. \A x \in B : x >= p
        BY <1>2, <1>4
      <3>2. p >= p
        BY <2>1
      <3> QED  BY <1>4, <1>5, <2>4, <3>1, <3>2 DEF BeginsFrom
    <2>6. t = RunAt(s, c, p)
      BY DEF RunAt, npos, t
    <2>7. AreRuns(s, c, {p} \cup B, <<t>> \o r)
      <3>1. B \subseteq Begins(s, c) /\ \A x \in B : p < x
        BY <1>2, <1>4
      <3> HIDE DEF B
      <3>2. AreRuns(s, c, B, r)
        BY DEF B
      <3> QED  BY <1>1, <1>3, <2>1, <2>4, <2>6, <3>1, <3>2, OneMoreRun
    <2> QED  BY <2>3, <2>5, <2>7 DEF t
  <1> QED  BY <1>6, <1>7

LEMMA DivRuns ==
  ASSUME NEW S, NEW s \in Seq(S), NEW c
  PROVE  AreRuns(s, c, Begins(s, c), StrDiv(s, c))
  <1>1. PICK v : StrDiv(s, c) = v[1] /\ DivFrom(s, c, v)
    BY DivIs
  <1>2. PICK n \in Nat : n = Len(s)
    OBVIOUS
  <1> DEFINE Good(p) == /\ v[p] \in Seq(Seq(S))
                        /\ AreRuns(s, c, BeginsFrom(s, c, p), v[p])
             T == {k \in Nat : \A p \in 1..(n + 1) :
                     n + 1 - p < k /\ AtBorder(s, c, p) => Good(p)}
  <1>3. 0 \in T
    <2>1. \A p \in 1..(n + 1) : ~ (n + 1 - p < 0)
      OBVIOUS
    <2> HIDE DEF Good
    <2> QED  BY <2>1
  <1>4. ASSUME NEW k \in Nat, k \in T  PROVE k + 1 \in T
    <2> SUFFICES ASSUME NEW p \in 1..(n + 1), n + 1 - p < k + 1, AtBorder(s, c, p)
                 PROVE  Good(p)
      <3> HIDE DEF Good
      <3> QED  OBVIOUS
    <2> DEFINE q == FindFirst(s, c, p)
    <2>1. v[p] = IF q = 0 THEN Token(From(s, p))
                 ELSE Token(SubSeq(s, p, q - 1)) \o v[q + 1]
      BY <1>1, <1>2 DEF DivFrom
    <2>2. q \in 0..n /\ (q # 0 => q >= p /\ s[q] = c)
      BY <1>2, FindFirstIs
    <2> HIDE DEF q
    <2>3. CASE q = 0
      BY <1>2, <2>1, <2>3, RunsToEnd DEF q
    <2>4. CASE q # 0
      <3>1. q + 1 \in 1..(n + 1) /\ n + 1 - (q + 1) < k
        BY <2>2, <2>4
      <3>2. AtBorder(s, c, q + 1)
        BY <2>2, <2>4 DEF AtBorder
      <3>3. Good(q + 1)
        BY <1>4, <3>1, <3>2
      <3>4. PICK r \in Seq(Seq(S)) :
              r = v[q + 1] /\ AreRuns(s, c, BeginsFrom(s, c, q + 1), r)
        BY <3>3
      <3>5. v[p] = Token(SubSeq(s, p, q - 1)) \o r
        BY <2>1, <2>4, <3>4
      <3> QED  BY <1>2, <2>4, <3>4, <3>5, RunsToNext DEF q
    <2> QED  BY <2>3, <2>4
  <1> HIDE DEF T
  <1>5. n + 1 \in T
    BY <1>3, <1>4, Induction
  <1>6. Good(1)
    <2>1. 1 \in 1..(n + 1) /\ n + 1 - 1 < n + 1 /\ AtBorder(s, c, 1)
      BY DEF AtBorder
    <2> HIDE DEF Good
    <2> QED  BY <1>5, <2>1 DEF T
  <1>7. BeginsFrom(s, c, 1) = Begins(s, c)
    BY <1>2 DEF BeginsFrom, Begins
  <1> QED  BY <1>1, <1>6, <1>7

-----------------------------------------------------------------------------
(* A line as pieces with commas between them *)

(* s is made of the pieces ts, with commas between them: piece i is before *)
(* position b[i].                                                          *)
CutAt(s, ts, b) ==
  LET m == Len(ts) IN
  /\ m >= 1 /\ b \in [0..m -> Nat]
  /\ b[0] = 0 /\ b[m] = Len(s) + 1
  /\ \A i \in 1..m : /\ b[i] = b[i - 1] + 1 + Len(ts[i])
                     /\ \A j \in 1..Len(ts[i]) : s[b[i - 1] + j] = ts[i][j]
                     /\ Free(Comma, ts[i])
  /\ \A i \in 1..(m - 1) : s[b[i]] = Comma

IsCut(s, ts) == \E b : CutAt(s, ts, b)

LEMMA CutOne ==
  ASSUME NEW S, NEW t \in Seq(S), Free(Comma, t)
  PROVE  IsCut(t, <<t>>)
  <1> DEFINE b == [i \in 0..1 |-> IF i = 0 THEN 0 ELSE Len(t) + 1]
  <1>1. /\ b \in [0..1 -> Nat] /\ b[0] = 0 /\ b[1] = Len(t) + 1
        /\ Len(<<t>>) = 1 /\ <<t>>[1] = t /\ Len(t) \in Nat
    OBVIOUS
  <1> HIDE DEF b
  <1>2. PICK ts : ts = <<t>>
    OBVIOUS
  <1>3. CutAt(t, ts, b)
    <2>1. ASSUME NEW i \in 1..1
          PROVE  /\ b[i] = b[i - 1] + 1 + Len(ts[i])
                 /\ \A j \in 1..Len(ts[i]) : t[b[i - 1] + j] = ts[i][j]
                 /\ Free(Comma, ts[i])
      <3>1. i = 1 /\ i - 1 = 0 /\ ts[i] = t
        BY <1>1, <1>2
      <3> QED  BY <1>1, <3>1
    <2>2. Len(ts) = 1
      BY <1>1, <1>2
    <2> QED  BY <1>1, <2>1, <2>2 DEF CutAt
  <1> QED  BY <1>2, <1>3 DEF IsCut

(* No piece goes beyond the text.                                          *)
LEMMA CutWithin ==
  ASSUME NEW S, NEW s \in Seq(S), NEW ts \in Seq(Seq(S)), NEW b, CutAt(s, ts, b)
  PROVE  \A i \in 1..Len(ts) :
           /\ b[i] \in Nat /\ b[i - 1] \in Nat /\ Len(ts[i]) \in Nat
           /\ b[i] = b[i - 1] + 1 + Len(ts[i])
           /\ b[i] <= Len(s) + 1
  <1>1. PICK m \in Nat : m = Len(ts)
    OBVIOUS
  <1>2. PICK n \in Nat : n = Len(s)
    OBVIOUS
  <1>3. ASSUME NEW k \in 1..m
        PROVE  /\ b[k] \in Nat /\ b[k - 1] \in Nat /\ Len(ts[k]) \in Nat
               /\ b[k] = b[k - 1] + 1 + Len(ts[k])
    <2>1. k \in 0..m /\ k - 1 \in 0..m
      OBVIOUS
    <2>2. ts[k] \in Seq(S)
      BY <1>1
    <2>3. b \in [0..m -> Nat] /\ b[k] = b[k - 1] + 1 + Len(ts[k])
      BY <1>1 DEF CutAt
    <2> QED  BY <2>1, <2>2, <2>3
  <1> DEFINE T == {k \in Nat : k < m => b[m - k] <= n + 1}
  <1>4. 0 \in T
    BY <1>1, <1>2 DEF CutAt
  <1>5. ASSUME NEW k \in Nat, k \in T  PROVE k + 1 \in T
    <2> SUFFICES ASSUME k + 1 < m  PROVE b[m - (k + 1)] <= n + 1
      OBVIOUS
    <2>1. PICK j \in 1..m : j = m - k /\ j - 1 = m - (k + 1)
      <3>1. m - k \in 1..m /\ (m - k) - 1 = m - (k + 1)
        OBVIOUS
      <3> QED  BY <3>1
    <2>2. PICK x \in Nat, y \in Nat, w \in Nat :
            x = b[j - 1] /\ y = b[j] /\ w = Len(ts[j]) /\ y = x + 1 + w
      BY <1>3
    <2>3. y <= n + 1
      <3>1. k < m /\ (k < m => b[m - k] <= n + 1)
        BY <1>5
      <3>2. y = b[m - k]
        BY <2>1, <2>2
      <3> QED  BY <3>1, <3>2, Zenon
    <2> QED  BY <2>1, <2>2, <2>3
  <1> HIDE DEF T
  <1>6. Nat \subseteq T
    BY <1>4, <1>5, Induction
  <1>7. ASSUME NEW i \in 1..m  PROVE b[i] <= n + 1
    <2>1. m - i \in T /\ m - (m - i) = i /\ m - i < m
      BY <1>1, <1>6
    <2> QED  BY <2>1 DEF T
  <1> QED  BY <1>1, <1>2, <1>3, <1>7

(* The pieces but the last, and the commas, are within the text.           *)
LEMMA CutInside ==
  ASSUME NEW S, NEW s \in Seq(S), NEW ts \in Seq(Seq(S)), NEW b, CutAt(s, ts, b)
  PROVE  \A i \in 1..(Len(ts) - 1) :
           /\ b[i] \in 1..Len(s) /\ b[i - 1] \in Nat
           /\ b[i - 1] + 1 + Len(ts[i]) <= Len(s)
  <1> SUFFICES ASSUME NEW i \in 1..(Len(ts) - 1)
               PROVE  /\ b[i] \in 1..Len(s) /\ b[i - 1] \in Nat
                      /\ b[i - 1] + 1 + Len(ts[i]) <= Len(s)
    OBVIOUS
  <1>0. \A k \in 1..Len(ts) :
           /\ b[k] \in Nat /\ b[k - 1] \in Nat /\ Len(ts[k]) \in Nat
           /\ b[k] = b[k - 1] + 1 + Len(ts[k])
           /\ b[k] <= Len(s) + 1
    BY CutWithin
  <1>1. i \in 1..Len(ts) /\ i + 1 \in 1..Len(ts) /\ (i + 1) - 1 = i
    OBVIOUS
  <1>2. PICK x \in Nat, y \in Nat, w \in Nat :
          x = b[i - 1] /\ y = b[i] /\ w = Len(ts[i]) /\ y = x + 1 + w
    BY <1>0, <1>1
  <1>3. PICK z \in Nat, v \in Nat, n \in Nat :
          /\ z = b[i + 1] /\ v = Len(ts[i + 1]) /\ n = Len(s)
          /\ z = b[i] + 1 + v /\ z <= n + 1
    <2>1. Len(s) \in Nat
      OBVIOUS
    <2>2. /\ b[i + 1] \in Nat /\ Len(ts[i + 1]) \in Nat
          /\ b[i + 1] = b[(i + 1) - 1] + 1 + Len(ts[i + 1])
          /\ b[i + 1] <= Len(s) + 1
      BY <1>0, <1>1
    <2> QED  BY <1>1, <2>1, <2>2
  <1>4. y + 1 + v <= n + 1
    BY <1>2, <1>3
  <1>5. x \in Nat /\ y \in Nat /\ w \in Nat /\ v \in Nat /\ n \in Nat /\ y = x + 1 + w
    BY <1>2, <1>3
  <1>6. y \in 1..n /\ x + 1 + w <= n
    BY <1>4, <1>5
  <1> QED  BY <1>2, <1>3, <1>6

(* A comma and one more piece.                                             *)
LEMMA CutAppend ==
  ASSUME NEW S, Comma \in S, NEW s \in Seq(S), NEW ts \in Seq(Seq(S)), IsCut(s, ts),
         NEW t \in Seq(S), Free(Comma, t)
  PROVE  IsCut(s \o <<Comma>> \o t, Append(ts, t))
  <1>1. PICK b : CutAt(s, ts, b)
    BY DEF IsCut
  <1>2. PICK m \in Nat : m = Len(ts)
    OBVIOUS
  <1> DEFINE u  == s \o <<Comma>> \o t
             us == Append(ts, t)
             d  == [i \in 0..(m + 1) |-> IF i = m + 1 THEN Len(u) + 1 ELSE b[i]]
  <1>3. /\ u \in Seq(S) /\ Len(u) = Len(s) + 1 + Len(t)
        /\ \A i \in 1..Len(s) : u[i] = s[i]
        /\ u[Len(s) + 1] = Comma
        /\ \A i \in 1..Len(t) : u[Len(s) + 1 + i] = t[i]
    BY JoinIs
  <1>4. /\ Len(us) = m + 1 /\ us[m + 1] = t
        /\ \A i \in 1..m : us[i] = ts[i]
    BY <1>2
  <1>5. /\ m >= 1 /\ b \in [0..m -> Nat] /\ b[0] = 0 /\ b[m] = Len(s) + 1
        /\ \A i \in 1..m : /\ b[i] = b[i - 1] + 1 + Len(ts[i])
                           /\ \A j \in 1..Len(ts[i]) : s[b[i - 1] + j] = ts[i][j]
                           /\ Free(Comma, ts[i])
        /\ \A i \in 1..(m - 1) : s[b[i]] = Comma
    BY <1>1, <1>2 DEF CutAt
  <1>6. Len(s) \in Nat /\ Len(t) \in Nat
    OBVIOUS
  <1> HIDE DEF u, us
  <1>7. /\ d \in [0..(m + 1) -> Nat] /\ d[m + 1] = Len(u) + 1
        /\ \A i \in 0..m : d[i] = b[i]
    BY <1>3, <1>5, <1>6
  <1> HIDE DEF d
  <1>8. ASSUME NEW i \in 1..m
        PROVE  /\ b[i - 1] \in Nat /\ Len(ts[i]) \in Nat
               /\ b[i - 1] + 1 + Len(ts[i]) <= Len(s) + 1
    <2>1. /\ b[i - 1] \in Nat /\ Len(ts[i]) \in Nat
          /\ b[i] = b[i - 1] + 1 + Len(ts[i]) /\ b[i] <= Len(s) + 1
      BY <1>1, <1>2, CutWithin
    <2> QED  BY <2>1
  <1>9. ASSUME NEW i \in 1..m
        PROVE  /\ d[i] = d[i - 1] + 1 + Len(us[i])
               /\ \A j \in 1..Len(us[i]) : u[d[i - 1] + j] = us[i][j]
               /\ Free(Comma, us[i])
    <2>1. d[i] = b[i] /\ d[i - 1] = b[i - 1] /\ us[i] = ts[i]
      BY <1>4, <1>7
    <2>2. PICK x \in Nat, w \in Nat : x = b[i - 1] /\ w = Len(ts[i])
      BY <1>8
    <2>3. x + 1 + w <= Len(s) + 1
      BY <1>8, <2>2
    <2>4. \A j \in 1..w : x + j \in 1..Len(s)
      BY <1>6, <2>3
    <2>5. \A j \in 1..w : s[x + j] = ts[i][j]
      BY <1>5, <2>2
    <2>6. \A j \in 1..w : u[x + j] = ts[i][j]
      BY <1>3, <2>4, <2>5
    <2> QED  BY <1>5, <2>1, <2>2, <2>6
  <1>10. /\ d[m + 1] = d[m] + 1 + Len(us[m + 1])
         /\ \A j \in 1..Len(us[m + 1]) : u[d[m] + j] = us[m + 1][j]
         /\ Free(Comma, us[m + 1])
    <2>1. d[m] = Len(s) + 1
      BY <1>5, <1>7
    <2> QED  BY <1>3, <1>4, <1>6, <1>7, <2>1
  <1>11. ASSUME NEW i \in 1..m  PROVE u[d[i]] = Comma
    <2>1. CASE i = m
      BY <1>3, <1>5, <1>7, <2>1
    <2>2. CASE i # m
      <3>1. i \in 1..(m - 1)
        BY <2>2
      <3>2. s[b[i]] = Comma /\ d[i] = b[i]
        BY <1>5, <1>7, <3>1
      <3>3. b[i] \in 1..Len(s)
        BY <1>1, <1>2, <3>1, CutInside
      <3> QED  BY <1>3, <3>2, <3>3
    <2> QED  BY <2>1, <2>2
  <1>12. CutAt(u, us, d)
    <2>1. ASSUME NEW i \in 1..(m + 1)
          PROVE  /\ d[i] = d[i - 1] + 1 + Len(us[i])
                 /\ \A j \in 1..Len(us[i]) : u[d[i - 1] + j] = us[i][j]
                 /\ Free(Comma, us[i])
      <3>1. CASE i \in 1..m
        BY <1>9, <3>1
      <3>2. CASE i = m + 1
        <4>1. i - 1 = m
          BY <3>2
        <4> QED  BY <1>10, <3>2, <4>1
      <3> QED  BY <3>1, <3>2
    <2>2. d[0] = 0 /\ m + 1 >= 1 /\ (m + 1) - 1 = m
      BY <1>5, <1>7
    <2> QED  BY <1>4, <1>7, <1>11, <2>1, <2>2 DEF CutAt
  <1> QED  BY <1>12 DEF IsCut, u, us

(* A piece at the end that gets longer.                                    *)
LEMMA CutExtend ==
  ASSUME NEW S, NEW s \in Seq(S), NEW ts \in Seq(Seq(S)), IsCut(s, ts),
         NEW x \in S, x # Comma
  PROVE  IsCut(s \o <<x>>, [ts EXCEPT ![Len(ts)] = @ \o <<x>>])
  <1>1. PICK b : CutAt(s, ts, b)
    BY DEF IsCut
  <1>2. PICK m \in Nat : m = Len(ts)
    OBVIOUS
  <1>3. /\ m >= 1 /\ b \in [0..m -> Nat] /\ b[0] = 0 /\ b[m] = Len(s) + 1
        /\ \A i \in 1..m : /\ b[i] = b[i - 1] + 1 + Len(ts[i])
                           /\ \A j \in 1..Len(ts[i]) : s[b[i - 1] + j] = ts[i][j]
                           /\ Free(Comma, ts[i])
        /\ \A i \in 1..(m - 1) : s[b[i]] = Comma
    BY <1>1, <1>2 DEF CutAt
  <1> DEFINE t  == ts[m]
             u  == s \o <<x>>
             us == [ts EXCEPT ![m] = t \o <<x>>]
             d  == [b EXCEPT ![m] = Len(s) + 2]
  <1>4. Len(s) \in Nat /\ t \in Seq(S) /\ Len(t) \in Nat
    BY <1>2, <1>3
  <1>5. /\ Len(u) = Len(s) + 1 /\ u[Len(s) + 1] = x
        /\ \A i \in 1..Len(s) : u[i] = s[i]
    OBVIOUS
  <1>6. /\ Len(us) = m /\ us[m] = t \o <<x>>
        /\ \A i \in 1..(m - 1) : us[i] = ts[i]
    BY <1>2, <1>3
  <1>7. /\ Len(t \o <<x>>) = Len(t) + 1 /\ (t \o <<x>>)[Len(t) + 1] = x
        /\ \A i \in 1..Len(t) : (t \o <<x>>)[i] = t[i]
    BY <1>4
  <1>8. /\ d \in [0..m -> Nat] /\ d[m] = Len(s) + 2
        /\ \A i \in 0..(m - 1) : d[i] = b[i]
    BY <1>3, <1>4
  <1>9. b[m - 1] \in Nat /\ b[m - 1] + 1 + Len(t) = Len(s) + 1
    <2>1. m - 1 \in 0..m /\ m \in 1..m
      BY <1>3
    <2> QED  BY <1>3, <2>1
  <1>10. \A i \in 1..(m - 1) : b[i] \in 1..Len(s)
                                 /\ b[i - 1] \in Nat
                                 /\ b[i - 1] + 1 + Len(ts[i]) <= Len(s)
    BY <1>1, <1>2, CutInside
  <1> HIDE DEF t, u, us, d
  <1>11. ASSUME NEW i \in 1..m
         PROVE  /\ d[i] = d[i - 1] + 1 + Len(us[i])
                /\ \A j \in 1..Len(us[i]) : u[d[i - 1] + j] = us[i][j]
                /\ Free(Comma, us[i])
    <2>1. CASE i = m
      <3>1. d[i - 1] = b[m - 1] /\ d[i] = Len(s) + 2 /\ us[i] = t \o <<x>>
        <4>1. i - 1 = m - 1 /\ m - 1 \in 0..(m - 1)
          BY <1>3, <2>1
        <4> QED  BY <1>6, <1>8, <2>1, <4>1
      <3>2. PICK y \in Nat, w \in Nat, n \in Nat :
              y = b[m - 1] /\ w = Len(t) /\ n = Len(s) /\ y + w = n
        BY <1>4, <1>9
      <3>3. d[i] = d[i - 1] + 1 + Len(us[i])
        <4>1. Len(us[i]) = w + 1 /\ d[i - 1] = y /\ d[i] = n + 2
          BY <1>7, <3>1, <3>2
        <4> QED  BY <3>2, <4>1
      <3>4. ASSUME NEW j \in 1..(w + 1)
            PROVE  u[y + j] = (t \o <<x>>)[j] /\ (t \o <<x>>)[j] # Comma
        <4>1. CASE j = w + 1
          BY <1>5, <1>7, <3>2, <4>1
        <4>2. CASE j # w + 1
          <5>1. j \in 1..w /\ y + j \in 1..n /\ m \in 1..m
            <6>1. m \in 1..m
              BY <1>3
            <6> QED  BY <3>2, <4>2, <6>1
          <5>2. s[y + j] = t[j] /\ t[j] # Comma
            BY <1>3, <3>2, <5>1 DEF Free, t
          <5> QED  BY <1>5, <1>7, <3>2, <5>1, <5>2
        <4> QED  BY <4>1, <4>2
      <3> QED  BY <1>7, <3>1, <3>2, <3>3, <3>4 DEF Free
    <2>2. CASE i # m
      <3>1. i \in 1..(m - 1) /\ i - 1 \in 0..(m - 1) /\ i \in 0..(m - 1)
        BY <2>2
      <3>2. d[i] = b[i] /\ d[i - 1] = b[i - 1] /\ us[i] = ts[i]
        BY <1>6, <1>8, <3>1
      <3>3. PICK y \in Nat, w \in Nat, n \in Nat :
              y = b[i - 1] /\ w = Len(ts[i]) /\ n = Len(s) /\ y + 1 + w <= n
        <4>1. Len(ts[i]) \in Nat
          BY <1>2
        <4> QED  BY <1>4, <1>10, <3>1, <4>1
      <3>4. \A j \in 1..w : y + j \in 1..n
        BY <3>3
      <3>5. \A j \in 1..w : s[y + j] = ts[i][j]
        BY <1>3, <3>3
      <3>6. \A j \in 1..w : u[y + j] = ts[i][j]
        BY <1>5, <3>3, <3>4, <3>5
      <3> QED  BY <1>3, <3>2, <3>3, <3>6
    <2> QED  BY <2>1, <2>2
  <1>12. \A i \in 1..(m - 1) : u[d[i]] = Comma
    <2> SUFFICES ASSUME NEW i \in 1..(m - 1)  PROVE u[d[i]] = Comma
      OBVIOUS
    <2>1. d[i] = b[i] /\ s[b[i]] = Comma /\ b[i] \in 1..Len(s)
      BY <1>3, <1>8, <1>10
    <2> QED  BY <1>5, <2>1
  <1>13. CutAt(u, us, d)
    <2>1. d[0] = 0 /\ d[m] = Len(u) + 1
      BY <1>3, <1>4, <1>5, <1>8
    <2> QED  BY <1>3, <1>6, <1>8, <1>11, <1>12, <2>1 DEF CutAt
  <1> QED  BY <1>2, <1>13 DEF IsCut, u, us, t

-----------------------------------------------------------------------------
(* std::getline with a comma *)

(* v is the list of the pieces from each position on.                      *)
TokensFrom(s, v) ==
  \A p \in 1..(Len(s) + 1) :
    LET q == FindFirst(s, Comma, p)
    IN  v[p] = IF p > Len(s) THEN <<>>
               ELSE IF q = 0 THEN <<From(s, p)>>
               ELSE <<SubSeq(s, p, q - 1)>> \o v[q + 1]

LEMMA TokensAre ==
  ASSUME NEW S, NEW s \in Seq(S)
  PROVE  \E v : Tokens(s) = v[1] /\ TokensFrom(s, v)
  <1> DEFINE n     == Len(s)
             q(p)  == FindFirst(s, Comma, p)
             nx    == [p \in 1..(n + 1) |->
                         IF p > n THEN 0 ELSE IF q(p) = 0 THEN 0 ELSE q(p) + 1]
             a     == [p \in 1..(n + 1) |-> IF p > n THEN <<>> ELSE <<From(s, p)>>]
             h     == [p \in 1..(n + 1) |-> <<SubSeq(s, p, q(p) - 1)>>]
             Eq(v) == v = [p \in 1..(n + 1) |->
                             IF p > n THEN <<>>
                             ELSE IF q(p) = 0 THEN <<From(s, p)>>
                             ELSE <<SubSeq(s, p, q(p) - 1)>> \o v[q(p) + 1]]
  <1>1. n \in Nat
    OBVIOUS
  <1>2. \A p \in 1..(n + 1) : q(p) \in 0..n /\ (q(p) # 0 => q(p) >= p)
    BY FindFirstIs
  <1> HIDE DEF q
  <1>3. Ahead(n, nx)
    BY <1>1, <1>2 DEF Ahead
  <1>4. \A v : Loop(v, n, a, h, nx) => Eq(v)
    <2> SUFFICES ASSUME NEW v, Loop(v, n, a, h, nx)  PROVE Eq(v)
      OBVIOUS
    <2>1. \A p \in 1..(n + 1) :
            (IF nx[p] = 0 THEN a[p] ELSE h[p] \o v[nx[p]])
              = IF p > n THEN <<>>
                ELSE IF q(p) = 0 THEN <<From(s, p)>>
                ELSE <<SubSeq(s, p, q(p) - 1)>> \o v[q(p) + 1]
      <3> SUFFICES ASSUME NEW p \in 1..(n + 1)
                   PROVE  (IF nx[p] = 0 THEN a[p] ELSE h[p] \o v[nx[p]])
                            = IF p > n THEN <<>>
                              ELSE IF q(p) = 0 THEN <<From(s, p)>>
                              ELSE <<SubSeq(s, p, q(p) - 1)>> \o v[q(p) + 1]
        OBVIOUS
      <3>1. /\ nx[p] = IF p > n THEN 0 ELSE IF q(p) = 0 THEN 0 ELSE q(p) + 1
            /\ a[p] = IF p > n THEN <<>> ELSE <<From(s, p)>>
            /\ h[p] = <<SubSeq(s, p, q(p) - 1)>>
        OBVIOUS
      <3>2. q(p) # 0 => q(p) + 1 # 0
        BY <1>2
      <3> HIDE DEF nx, a, h
      <3>3. CASE p > n
        BY <3>1, <3>3, Zenon
      <3>4. CASE ~ (p > n) /\ q(p) = 0
        BY <3>1, <3>4, Zenon
      <3>5. CASE ~ (p > n) /\ q(p) # 0
        BY <3>1, <3>2, <3>5, Zenon
      <3> QED  BY <3>3, <3>4, <3>5
    <2>2. v = [p \in 1..(n + 1) |-> IF nx[p] = 0 THEN a[p] ELSE h[p] \o v[nx[p]]]
      BY DEF Loop
    <2> QED  BY <2>1, <2>2, Zenon
  <1>5. \E v : Eq(v)
    <2> HIDE DEF Eq, nx, a, h, n
    <2> QED  BY <1>1, <1>3, <1>4, LoopExists
  <1>6. PICK v : v = CHOOSE w : Eq(w)
    OBVIOUS
  <1>7. Eq(v)
    BY <1>5, <1>6, Zenon
  <1>8. Tokens(s) = v[1]
    BY <1>6 DEF Tokens, npos, q
  <1>9. TokensFrom(s, v)
    <2> SUFFICES ASSUME NEW p \in 1..(n + 1)
                 PROVE  v[p] = IF p > n THEN <<>>
                               ELSE IF q(p) = 0 THEN <<From(s, p)>>
                               ELSE <<SubSeq(s, p, q(p) - 1)>> \o v[q(p) + 1]
      BY DEF TokensFrom, q
    <2> QED  BY <1>7
  <1> QED  BY <1>8, <1>9

(* The pieces but an empty last one.                                       *)
Filled(ts) == IF ts[Len(ts)] = <<>> THEN Len(ts) - 1 ELSE Len(ts)

(* The first comma behind the begin of a piece.                            *)
LEMMA CommaBehind ==
  ASSUME NEW S, NEW s \in Seq(S), NEW p \in 1..(Len(s) + 1), NEW w \in Nat,
         p + w <= Len(s) + 1,
         \A j \in 1..w : s[p - 1 + j] # Comma
  PROVE  /\ p + w = Len(s) + 1 => FindFirst(s, Comma, p) = 0
         /\ p + w <= Len(s) /\ s[p + w] = Comma => FindFirst(s, Comma, p) = p + w
  <1>1. PICK n \in Nat : n = Len(s)
    OBVIOUS
  <1>2. PICK q \in 0..n : q = FindFirst(s, Comma, p)
    BY <1>1, FindFirstIs
  <1>3. /\ q = 0 => \A x \in p..n : s[x] # Comma
        /\ q # 0 => q >= p /\ s[q] = Comma /\ \A x \in p..(q - 1) : s[x] # Comma
    BY <1>1, <1>2, FindFirstIs
  <1>4. q # 0 => q >= p + w
    <2> SUFFICES ASSUME q # 0, q < p + w  PROVE FALSE
      BY <1>2
    <2>1. PICK j \in 1..w : p - 1 + j = q
      <3>1. q - p + 1 \in 1..w /\ p - 1 + (q - p + 1) = q
        BY <1>1, <1>2, <1>3
      <3> QED  BY <3>1
    <2> QED  BY <1>3, <2>1
  <1>5. p + w = n + 1 => q = 0
    BY <1>1, <1>2, <1>4
  <1>6. ASSUME p + w <= n, s[p + w] = Comma  PROVE q = p + w
    <2>1. p + w \in p..n
      BY <1>1, <1>6
    <2>2. q # 0
      BY <1>3, <1>6, <2>1
    <2>3. ~ (p + w \in p..(q - 1))
      BY <1>3, <1>6, <2>2
    <2> QED  BY <1>1, <1>2, <1>4, <2>1, <2>2, <2>3
  <1> QED  BY <1>1, <1>2, <1>5, <1>6

(* A line is split into the pieces it is made of.                          *)
LEMMA TokensOfCut ==
  ASSUME NEW S, NEW s \in Seq(S), NEW ts \in Seq(Seq(S)), IsCut(s, ts)
  PROVE  Tokens(s) = SubSeq(ts, 1, Filled(ts))
  <1>1. PICK b : CutAt(s, ts, b)
    BY DEF IsCut
  <1>2. PICK v : Tokens(s) = v[1] /\ TokensFrom(s, v)
    BY TokensAre
  <1>3. PICK m \in Nat, n \in Nat : m = Len(ts) /\ n = Len(s)
    OBVIOUS
  <1>4. /\ m >= 1 /\ b[0] = 0 /\ b[m] = n + 1
        /\ \A i \in 1..m : /\ \A j \in 1..Len(ts[i]) : s[b[i - 1] + j] = ts[i][j]
                           /\ Free(Comma, ts[i])
        /\ \A i \in 1..(m - 1) : s[b[i]] = Comma
    BY <1>1, <1>3 DEF CutAt
  <1>5. \A i \in 1..m : /\ b[i] \in Nat /\ b[i - 1] \in Nat /\ Len(ts[i]) \in Nat
                        /\ b[i] = b[i - 1] + 1 + Len(ts[i])
                        /\ b[i] <= n + 1
    BY <1>1, <1>3, CutWithin
  <1> DEFINE e == Filled(ts)
             Good(i) == v[b[i - 1] + 1] = SubSeq(ts, i, e)
             T == {k \in Nat : k < m => Good(m - k)}
  <1>6. e \in Nat /\ e <= m /\ e >= m - 1
    BY <1>3, <1>4 DEF Filled
  <1>7. ASSUME NEW i \in 1..m
        PROVE  \E p \in 1..(n + 1), w \in Nat :
                 /\ p = b[i - 1] + 1 /\ w = Len(ts[i]) /\ b[i] = p + w
                 /\ p + w <= n + 1
                 /\ \A j \in 1..w : s[p - 1 + j] = ts[i][j] /\ s[p - 1 + j] # Comma
                 /\ SubSeq(s, p, b[i] - 1) = ts[i]
    <2>1. PICK x \in Nat, w \in Nat :
            x = b[i - 1] /\ w = Len(ts[i]) /\ b[i] = x + 1 + w /\ x + 1 + w <= n + 1
      BY <1>5
    <2>2. PICK p \in 1..(n + 1) : p = x + 1
      BY <2>1
    <2>3. \A j \in 1..w : s[p - 1 + j] = ts[i][j] /\ s[p - 1 + j] # Comma
      <3> SUFFICES ASSUME NEW j \in 1..w
                   PROVE  s[p - 1 + j] = ts[i][j] /\ s[p - 1 + j] # Comma
        OBVIOUS
      <3>1. p - 1 + j = b[i - 1] + j
        BY <2>1, <2>2
      <3>2. j \in 1..Len(ts[i])
        BY <2>1
      <3>3. s[b[i - 1] + j] = ts[i][j]
        BY <1>4, <3>2
      <3>4. ts[i][j] # Comma
        BY <1>4, <3>2 DEF Free
      <3> QED  BY <3>1, <3>3, <3>4
    <2>4. SubSeq(s, p, b[i] - 1) = ts[i]
      <3>1. p + w - 1 <= n
        BY <2>1, <2>2
      <3>2. PICK k \in Int : k = x + w /\ k \in (p - 1)..n /\ k - p + 1 = w
        <4>1. p = x + 1 /\ x + w <= n /\ x + w \in Int
          BY <2>2, <3>1
        <4>2. x + w \in (p - 1)..n /\ (x + w) - p + 1 = w
          BY <4>1
        <4> QED  BY <4>1, <4>2
      <3>3. b[i] - 1 = k
        BY <2>1, <3>2, SMTT(30)
      <3>4. /\ SubSeq(s, p, k) \in Seq(S)
            /\ Len(SubSeq(s, p, k)) = IF p <= k THEN k - p + 1 ELSE 0
            /\ \A j \in 1..(k - p + 1) : SubSeq(s, p, k)[j] = s[p + j - 1]
        <4>1. p \in 1..(Len(s) + 1) /\ k \in (p - 1)..Len(s)
          BY <1>3, <3>2
        <4> QED  BY <4>1, SubSeqProperties
      <3>5. PICK y \in Seq(S) : y = SubSeq(s, p, k)
        BY <3>4
      <3>6. Len(y) = w /\ \A j \in 1..w : y[j] = s[p - 1 + j]
        <4>1. Len(y) = w
          BY <3>2, <3>4, <3>5
        <4>2. \A j \in 1..w : p + j - 1 = p - 1 + j
          OBVIOUS
        <4> QED  BY <3>2, <3>4, <3>5, <4>1, <4>2
      <3>7. PICK z \in Seq(S) : z = ts[i] /\ Len(z) = w
        <4>1. ts[i] \in Seq(S)
          BY <1>3
        <4> QED  BY <2>1, <4>1
      <3>8. \A j \in 1..w : y[j] = z[j]
        BY <2>3, <3>6, <3>7
      <3>9. y = z
        BY <3>6, <3>7, <3>8, SeqEqual
      <3>10. SubSeq(s, p, b[i] - 1) = SubSeq(s, p, k)
        BY <3>3, Zenon
      <3> QED  BY <3>5, <3>7, <3>9, <3>10, Zenon
    <2>5. p + w <= n + 1 /\ b[i] = p + w /\ p = b[i - 1] + 1
      BY <2>1, <2>2
    <2> QED  BY <2>1, <2>2, <2>3, <2>4, <2>5
  <1>8. Good(m)
    <2>1. m \in 1..m
      BY <1>4
    <2>2. PICK p \in 1..(n + 1), w \in Nat :
             /\ p = b[m - 1] + 1 /\ w = Len(ts[m]) /\ b[m] = p + w
             /\ p + w <= n + 1
             /\ \A j \in 1..w : s[p - 1 + j] = ts[m][j] /\ s[p - 1 + j] # Comma
             /\ SubSeq(s, p, b[m] - 1) = ts[m]
      BY <1>7, <2>1
    <2>3. p + w = n + 1 /\ ts[m] \in Seq(S)
      BY <1>3, <1>4, <2>1, <2>2
    <2>4. v[p] = IF p > n THEN <<>>
                 ELSE IF FindFirst(s, Comma, p) = 0 THEN <<From(s, p)>>
                 ELSE <<SubSeq(s, p, FindFirst(s, Comma, p) - 1)>>
                        \o v[FindFirst(s, Comma, p) + 1]
      BY <1>2, <1>3 DEF TokensFrom
    <2>5. CASE ts[m] = <<>>
      <3>1. w = 0 /\ p > n
        <4>1. Len(<<>>) = 0
          OBVIOUS
        <4>2. w = 0
          BY <2>2, <2>5, <4>1
        <4> QED  BY <2>3, <4>2
      <3>2. e = m - 1
        BY <1>3, <2>5 DEF Filled
      <3>3. SubSeq(ts, m, e) = <<>>
        BY <1>3, <1>4, <3>2, SubSeqEmpty
      <3> QED  BY <2>2, <2>4, <3>1, <3>3
    <2>6. CASE ts[m] # <<>>
      <3>1. w # 0
        BY <2>2, <2>3, <2>6, EmptySeq
      <3>2. FindFirst(s, Comma, p) = 0
        BY <1>3, <2>2, <2>3, CommaBehind
      <3>3. e = m /\ SubSeq(ts, m, e) = <<ts[m]>>
        <4>1. e = m
          BY <1>3, <2>6 DEF Filled
        <4>2. m \in 1..Len(ts) /\ SubSeq(ts, m, m) = SubSeq(ts, m, m - 1) \o <<ts[m]>>
          BY <1>3, <2>1, SubSeqRecursiveSecond
        <4>3. SubSeq(ts, m, m - 1) = <<>>
          BY <1>3, <1>4, SubSeqEmpty
        <4>4. <<>> \o <<ts[m]>> = <<ts[m]>>
          BY <2>3, ConcatEmptySeq
        <4> QED  BY <4>1, <4>2, <4>3, <4>4
      <3>4. From(s, p) = ts[m]
        <4>1. b[m] - 1 = n
          BY <2>2, <2>3
        <4> QED  BY <1>3, <2>2, <4>1 DEF From
      <3>5. ~ (p > n)
        BY <2>3, <3>1
      <3>6. v[p] = <<ts[m]>>
        BY <2>4, <3>2, <3>4, <3>5
      <3> QED  BY <2>2, <3>3, <3>6
    <2> QED  BY <2>5, <2>6
  <1>9. ASSUME NEW i \in 1..(m - 1), Good(i + 1)  PROVE Good(i)
    <2>1. i \in 1..m /\ i + 1 \in 1..m /\ (i + 1) - 1 = i
      BY <1>4
    <2>2. PICK p \in 1..(n + 1), w \in Nat :
             /\ p = b[i - 1] + 1 /\ w = Len(ts[i]) /\ b[i] = p + w
             /\ p + w <= n + 1
             /\ \A j \in 1..w : s[p - 1 + j] = ts[i][j] /\ s[p - 1 + j] # Comma
             /\ SubSeq(s, p, b[i] - 1) = ts[i]
      BY <1>7, <2>1
    <2>3. b[i] \in 1..n
      BY <1>1, <1>3, CutInside
    <2>4. FindFirst(s, Comma, p) = p + w
      <3>1. s[p + w] = Comma /\ p + w <= n
        BY <1>4, <2>2, <2>3
      <3> QED  BY <1>3, <2>2, <3>1, CommaBehind
    <2>5. v[p] = IF p > n THEN <<>>
                 ELSE IF FindFirst(s, Comma, p) = 0 THEN <<From(s, p)>>
                 ELSE <<SubSeq(s, p, FindFirst(s, Comma, p) - 1)>>
                        \o v[FindFirst(s, Comma, p) + 1]
      BY <1>2, <1>3 DEF TokensFrom
    <2>6. ~ (p > n) /\ p + w # 0
      <3>1. p + w <= n
        BY <2>2, <2>3
      <3> QED  BY <3>1
    <2>7. v[p] = <<ts[i]>> \o v[b[i] + 1]
      <3>2. PICK q : q = FindFirst(s, Comma, p)
        OBVIOUS
      <3>3. v[p] = <<SubSeq(s, p, q - 1)>> \o v[q + 1]
        BY <2>4, <2>5, <2>6, <3>2
      <3>4. q = b[i]
        BY <2>2, <2>4, <3>2
      <3>5. SubSeq(s, p, q - 1) = ts[i]
        BY <2>2, <3>4
      <3>6. v[q + 1] = v[b[i] + 1]
        BY <3>4, Zenon
      <3>7. <<SubSeq(s, p, q - 1)>> = <<ts[i]>>
        BY <3>5, Zenon
      <3> QED  BY <3>3, <3>6, <3>7, Zenon
    <2>8. v[b[i] + 1] = SubSeq(ts, i + 1, e)
      BY <1>9, <2>1
    <2>9. SubSeq(ts, i, e) = <<ts[i]>> \o SubSeq(ts, i + 1, e)
      <3>1. i \in 1..Len(ts) /\ e \in i..Len(ts)
        BY <1>3, <1>6, <2>1
      <3> HIDE DEF e
      <3> QED  BY <3>1, SubSeqRecursiveFirst
    <2> QED  BY <2>2, <2>7, <2>8, <2>9
  <1> HIDE DEF Good
  <1>10. 0 \in T
    BY <1>8
  <1>11. ASSUME NEW k \in Nat, k \in T  PROVE k + 1 \in T
    <2> SUFFICES ASSUME k + 1 < m  PROVE Good(m - (k + 1))
      OBVIOUS
    <2>1. m - (k + 1) \in 1..(m - 1) /\ (m - (k + 1)) + 1 = m - k
      OBVIOUS
    <2>2. Good(m - k)
      BY <1>11
    <2>3. Good((m - (k + 1)) + 1)
      BY <2>1, <2>2
    <2> QED  BY <1>9, <2>1, <2>3
  <1> HIDE DEF T
  <1>12. m - 1 \in T
    <2>1. Nat \subseteq T
      BY <1>10, <1>11, Induction
    <2>2. m - 1 \in Nat
      BY <1>4
    <2> QED  BY <2>1, <2>2
  <1>13. Good(1)
    <2>1. m - 1 < m => Good(m - (m - 1))
      BY <1>12 DEF T
    <2>2. m - (m - 1) = 1 /\ m - 1 < m
      OBVIOUS
    <2> QED  BY <2>1, <2>2
  <1> QED  BY <1>2, <1>4, <1>13 DEF Good

-----------------------------------------------------------------------------
(* Sequences put together in order *)

(* A sequence put together from the front.                                 *)
Folded(w, n, g) ==
  w = [k \in 0..n |-> IF k = 0 THEN <<>> ELSE w[k - 1] \o g[k]]

LEMMA FoldExists ==
  ASSUME NEW n \in Nat, NEW g
  PROVE  \E w : Folded(w, n, g)
  <1> DEFINE Body(w, k) == IF k = 0 THEN <<>> ELSE w[k - 1] \o g[k]
             Upto0(w, j) == /\ DOMAIN w = 0..n
                            /\ w = [k \in DOMAIN w |-> w[k]]
                            /\ \A k \in 0..n : k < j => w[k] = Body(w, k)
             T == {j \in Nat : \E w : Upto0(w, j)}
  <1>1. 0 \in T
    <2> DEFINE w == [k \in 0..n |-> 0]
    <2>1. DOMAIN w = 0..n /\ w = [k \in DOMAIN w |-> w[k]]
      OBVIOUS
    <2>2. \A k \in 0..n : ~ (k < 0)
      OBVIOUS
    <2> HIDE DEF w
    <2>3. Upto0(w, 0)
      BY <2>1, <2>2
    <2> QED  BY <2>3
  <1>2. ASSUME NEW j \in Nat, j \in T  PROVE j + 1 \in T
    <2>1. PICK v : Upto0(v, j)
      BY <1>2
    <2> DEFINE w == [k \in 0..n |-> IF k = j THEN Body(v, k) ELSE v[k]]
    <2>2. DOMAIN w = 0..n /\ w = [k \in DOMAIN w |-> w[k]]
      OBVIOUS
    <2>3. ASSUME NEW k \in 0..n, k < j + 1  PROVE w[k] = Body(w, k)
      <3>1. k # 0 => w[k - 1] = v[k - 1]
        <4> SUFFICES ASSUME k # 0  PROVE w[k - 1] = v[k - 1]
          OBVIOUS
        <4>1. PICK y \in 0..n : y = k - 1 /\ y # j
          <5>1. k - 1 \in 0..n /\ k - 1 # j
            BY <2>3
          <5> QED  BY <5>1
        <4>2. w[y] = v[y]
          BY <4>1
        <4> QED  BY <4>1, <4>2
      <3>2. Body(w, k) = Body(v, k)
        <4> HIDE DEF w
        <4>1. CASE k = 0
          BY <4>1
        <4>2. CASE k # 0
          <5>1. w[k - 1] = v[k - 1]
            BY <3>1, <4>2
          <5> QED  BY <4>2, <5>1, Zenon
        <4> QED  BY <4>1, <4>2
      <3>3. CASE k = j
        BY <3>2, <3>3
      <3>4. CASE k # j
        <4>1. w[k] = v[k] /\ k < j
          BY <2>3, <3>4
        <4>2. v[k] = Body(v, k)
          BY <2>1, <4>1
        <4> HIDE DEF w, Body
        <4> QED  BY <3>2, <4>1, <4>2
      <3> QED  BY <3>3, <3>4
    <2> HIDE DEF w
    <2>4. Upto0(w, j + 1)
      BY <2>2, <2>3
    <2>5. j + 1 \in Nat
      OBVIOUS
    <2> HIDE DEF Upto0
    <2> QED  BY <2>4, <2>5
  <1> HIDE DEF T
  <1>3. n + 1 \in T
    BY <1>1, <1>2, Induction
  <1>4. PICK w : Upto0(w, n + 1)
    BY <1>3 DEF T
  <1>5. \A k \in 0..n : w[k] = Body(w, k)
    <2>1. \A k \in 0..n : k < n + 1
      OBVIOUS
    <2> HIDE DEF Body
    <2> QED  BY <1>4, <2>1
  <1>6. w = [k \in 0..n |-> w[k]]
    BY <1>4
  <1>7. [k \in 0..n |-> w[k]] = [k \in 0..n |-> Body(w, k)]
    BY <1>5
  <1>8. Folded(w, n, g)
    BY <1>6, <1>7 DEF Folded
  <1> QED  BY <1>8

LEMMA FoldSteps ==
  ASSUME NEW n \in Nat, NEW g, NEW w, Folded(w, n, g)
  PROVE  /\ w[0] = <<>>
         /\ \A k \in 1..n : w[k] = w[k - 1] \o g[k]
  <1> DEFINE B(k) == IF k = 0 THEN <<>> ELSE w[k - 1] \o g[k]
  <1>1. w = [k \in 0..n |-> B(k)]
    BY DEF Folded
  <1>2. 0 \in 0..n /\ \A k \in 1..n : k \in 0..n /\ k # 0
    OBVIOUS
  <1>3. \A k \in 0..n : w[k] = B(k)
    <2> HIDE DEF B
    <2> QED  BY <1>1
  <1>4. w[0] = B(0) /\ \A k \in 1..n : w[k] = B(k)
    BY <1>2, <1>3
  <1> QED  BY <1>2, <1>4

-----------------------------------------------------------------------------
(* _strip_quotes *)

LEMMA NoneFound ==
  ASSUME NEW S, NEW s \in Seq(S), NEW c, Free(c, s)
  PROVE  FindFirst(s, c, 1) = 0 /\ FindLast(s, c) = 0
  <1>1. Len(s) \in Nat /\ 1 \in 1..(Len(s) + 1)
    OBVIOUS
  <1>2. /\ FindFirst(s, c, 1) \in 0..Len(s)
        /\ FindFirst(s, c, 1) # 0 =>
             FindFirst(s, c, 1) >= 1 /\ s[FindFirst(s, c, 1)] = c
    BY <1>1, FindFirstIs
  <1>3. IsLast(s, c, 0)
    BY <1>1 DEF IsLast, Free
  <1>4. FindFirst(s, c, 1) = 0
    BY <1>1, <1>2 DEF Free
  <1> QED  BY <1>3, <1>4, LastIs

LEMMA StripNone ==
  ASSUME NEW S, NEW s \in Seq(S), Free(Quote, s)
  PROVE  StripQuotes(s) = s
  BY NoneFound DEF StripQuotes, npos

(* What is behind the first quote.                                         *)
LEMMA FirstQuote ==
  ASSUME NEW S, Quote \in S, NEW x \in Seq(S), Free(Quote, x), NEW t \in Seq(S)
  PROVE  LET s == x \o <<Quote>> \o t
         IN  StripQuotes(s) = IF FindLast(t, Quote) = 0 THEN t
                              ELSE Until(t, FindLast(t, Quote))
  <1> DEFINE s == x \o <<Quote>> \o t
  <1>1. /\ s \in Seq(S) /\ Len(s) = Len(x) + 1 + Len(t)
        /\ \A i \in 1..Len(x) : s[i] = x[i]
        /\ s[Len(x) + 1] = Quote
    BY JoinIs
  <1>2. From(s, Len(x) + 2) = t
    BY JoinParts
  <1> HIDE DEF s
  <1>3. PICK k \in Nat, n \in Nat : k = Len(x) /\ n = Len(t)
    OBVIOUS
  <1>4. FindFirst(s, Quote, 1) = k + 1
    <2>1. PICK q \in 0..Len(s) : q = FindFirst(s, Quote, 1)
      BY <1>1, <1>3, FindFirstIs
    <2>2. /\ q = 0 => \A i \in 1..Len(s) : s[i] # Quote
          /\ q # 0 => /\ q >= 1 /\ s[q] = Quote
                      /\ \A i \in 1..(q - 1) : s[i] # Quote
      <3>1. 1 \in 1..(Len(s) + 1)
        BY <1>1, <1>3
      <3>2. LET f == FindFirst(s, Quote, 1)
            IN  /\ f = 0 => \A i \in 1..Len(s) : s[i] # Quote
                /\ f # 0 => /\ f >= 1 /\ s[f] = Quote
                            /\ \A i \in 1..(f - 1) : s[i] # Quote
        <4>1. s \in Seq(S)
          BY <1>1
        <4> QED  BY <3>1, <4>1, FindFirstIs, Zenon
      <3> QED  BY <2>1, <3>2
    <2>3. k + 1 \in 1..Len(s)
      BY <1>1, <1>3
    <2>4. q # 0
      BY <1>1, <1>3, <2>2, <2>3
    <2>5. ~ (q <= k)
      <3> SUFFICES ASSUME q <= k  PROVE FALSE
        OBVIOUS
      <3>1. q \in 1..k
        BY <2>1, <2>2, <2>4
      <3>2. x[q] # Quote
        BY <1>3, <3>1 DEF Free
      <3>3. s[q] = x[q]
        BY <1>1, <1>3, <3>1
      <3> QED  BY <2>2, <2>4, <3>2, <3>3
    <2>6. ~ (k + 1 \in 1..(q - 1))
      BY <1>1, <1>3, <2>2, <2>4
    <2> QED  BY <1>3, <2>1, <2>3, <2>5, <2>6
  <1>5. From(s, FindFirst(s, Quote, 1) + 1) = t
    <2>1. (k + 1) + 1 = Len(x) + 2
      BY <1>3
    <2> QED  BY <1>2, <1>4, <2>1
  <1>6. FindFirst(s, Quote, 1) # 0
    BY <1>3, <1>4
  <1> QED  BY <1>5, <1>6 DEF StripQuotes, npos, s

(* One quote, with nothing behind it that is one.                          *)
LEMMA StripOne ==
  ASSUME NEW S, Quote \in S, NEW x \in Seq(S), Free(Quote, x),
         NEW t \in Seq(S), Free(Quote, t)
  PROVE  StripQuotes(x \o <<Quote>> \o t) = t
  BY FirstQuote, NoneFound

(* Two quotes.                                                             *)
LEMMA StripTwo ==
  ASSUME NEW S, Quote \in S, NEW x \in Seq(S), Free(Quote, x),
         NEW a \in Seq(S), NEW y \in Seq(S), Free(Quote, y)
  PROVE  StripQuotes(x \o <<Quote>> \o (a \o <<Quote>> \o y)) = a
  <1> DEFINE t == a \o <<Quote>> \o y
  <1>1. t \in Seq(S)
    BY JoinIs
  <1>2. Until(t, Len(a) + 1) = a /\ FindLast(t, Quote) = Len(a) + 1
    BY JoinParts
  <1>3. Len(a) + 1 # 0
    OBVIOUS
  <1> HIDE DEF t
  <1>4. StripQuotes(x \o <<Quote>> \o t) = a
    BY <1>1, <1>2, <1>3, FirstQuote
  <1> QED  BY <1>4 DEF t

LEMMA EmptyText ==
  ASSUME NEW S
  PROVE  <<>> \in Seq(S) /\ Len(<<>>) = 0 /\ \A c : Free(c, <<>>)
  BY DEF Free

(* A text in quotes, and what may stand behind it.                         *)
LEMMA QuotedStrips ==
  ASSUME NEW S, Quote \in S, NEW a \in Seq(S), NEW y \in Seq(S), Free(Quote, y)
  PROVE  StripQuotes(<<Quote>> \o a \o <<Quote>> \o y) = a
  <1>1. PICK e \in Seq(S), o \in Seq(S) : e = <<>> /\ o = <<Quote>>
    <2>1. <<>> \in Seq(S) /\ <<Quote>> \in Seq(S)
      OBVIOUS
    <2> QED  BY <2>1, Zenon
  <1>2. e \o o = o
    BY <1>1, ConcatEmptySeq
  <1>3. o \o a \in Seq(S) /\ a \o o \in Seq(S)
    BY ConcatProperties
  <1>4. ((o \o a) \o o) \o y = o \o ((a \o o) \o y)
    <2>1. (o \o a) \o o = o \o (a \o o)
      BY ConcatAssociative
    <2>2. (o \o (a \o o)) \o y = o \o ((a \o o) \o y)
      BY <1>3, ConcatAssociative
    <2> QED  BY <2>1, <2>2
  <1>5. Free(Quote, e)
    BY <1>1, EmptyText
  <1>6. StripQuotes(e \o <<Quote>> \o (a \o <<Quote>> \o y)) = a
    BY <1>5, StripTwo
  <1>7. StripQuotes((e \o o) \o ((a \o o) \o y)) = a
    BY <1>1, <1>6, Zenon
  <1>8. StripQuotes(((o \o a) \o o) \o y) = a
    BY <1>2, <1>4, <1>7, Zenon
  <1> QED  BY <1>1, <1>8, Zenon

-----------------------------------------------------------------------------
(* The pieces of one field *)

(* A field as the file has it.                                             *)
Piece(f) == IF f.quote THEN <<Quote>> \o f.text \o <<Quote>> ELSE f.text

(* t is all of the field, or the last piece of it: only an empty one is    *)
(* lost at the end of a line.                                              *)
LastPiece(f, t) == t = <<>> <=> StripQuotes(t) = <<>> /\ ~ f.quote

OnePiece(f, t) ==
  /\ Free(Comma, t) /\ Piece(f) = t /\ Pieces(f) = <<StripQuotes(t)>>
  /\ LastPiece(f, t)
  /\ f.quote => StripQuotes(t \o <<Return>>) = StripQuotes(t)

TwoPieces(f, a, b) ==
  /\ Free(Comma, a) /\ Free(Comma, b) /\ Piece(f) = a \o <<Comma>> \o b
  /\ Pieces(f) = <<StripQuotes(a), StripQuotes(b)>>
  /\ LastPiece(f, b) /\ Occurs(Comma, f.text)

Symbols(S) == Quote \in S /\ Comma \in S /\ Return \in S

LEMMA Symbol == /\ Quote # Comma /\ Return # Comma /\ Return # Quote
  BY DEF Quote, Comma, Return

(* A text and one symbol more, at either end.                              *)
LEMMA EdgeFree ==
  ASSUME NEW S, NEW a \in Seq(S), NEW x \in S, NEW c, c # x, Free(c, a)
  PROVE  /\ <<x>> \o a \in Seq(S) /\ Free(c, <<x>> \o a) /\ <<x>> \o a # <<>>
         /\ a \o <<x>> \in Seq(S) /\ Free(c, a \o <<x>>) /\ a \o <<x>> # <<>>
  <1>1. PICK o \in Seq(S) : o = <<x>> /\ Len(o) = 1 /\ o[1] = x
    <2>1. <<x>> \in Seq(S) /\ Len(<<x>>) = 1 /\ <<x>>[1] = x
      OBVIOUS
    <2> QED  BY <2>1, Zenon
  <1>2. PICK n \in Nat : n = Len(a)
    OBVIOUS
  <1>3. /\ o \o a \in Seq(S) /\ Len(o \o a) = 1 + n
        /\ \A i \in 1..(1 + n) : (o \o a)[i] = IF i <= 1 THEN o[i] ELSE a[i - 1]
    BY <1>1, <1>2, ConcatProperties
  <1>4. /\ a \o o \in Seq(S) /\ Len(a \o o) = n + 1
        /\ \A i \in 1..(n + 1) : (a \o o)[i] = IF i <= n THEN a[i] ELSE o[i - n]
    BY <1>1, <1>2, ConcatProperties
  <1>5. Free(c, o \o a)
    <2>1. ASSUME NEW i \in 1..(1 + n)  PROVE (o \o a)[i] # c
      <3>1. CASE i = 1
        BY <1>1, <1>3, <3>1
      <3>2. CASE i # 1
        <4>1. i - 1 \in 1..n
          BY <3>2
        <4> QED  BY <1>2, <1>3, <3>2, <4>1 DEF Free
      <3> QED  BY <3>1, <3>2
    <2> QED  BY <1>3, <2>1 DEF Free
  <1>6. Free(c, a \o o)
    <2>1. ASSUME NEW i \in 1..(n + 1)  PROVE (a \o o)[i] # c
      <3>1. CASE i = n + 1
        BY <1>1, <1>4, <3>1
      <3>2. CASE i # n + 1
        <4>1. i \in 1..n
          BY <3>2
        <4> QED  BY <1>2, <1>4, <3>2, <4>1 DEF Free
      <3> QED  BY <3>1, <3>2
    <2> QED  BY <1>4, <2>1 DEF Free
  <1>7. o \o a # <<>> /\ a \o o # <<>>
    <2>1. Len(<<>>) = 0 /\ 1 + n # 0 /\ n + 1 # 0
      OBVIOUS
    <2> QED  BY <1>3, <1>4, <2>1
  <1> QED  BY <1>1, <1>3, <1>4, <1>5, <1>6, <1>7, Zenon

LEMMA WholeField ==
  ASSUME NEW S, Symbols(S), NEW f, f.text \in Seq(S), f.quote \in BOOLEAN,
         Free(Quote, f.text), Free(Comma, f.text)
  PROVE  \E t \in Seq(S) : OnePiece(f, t)
  <1>1. FindFirst(f.text, Comma, 1) = 0
    BY NoneFound
  <1>2. Pieces(f) = <<f.text>>
    BY <1>1 DEF Pieces, npos
  <1>3. CASE ~ f.quote
    <2>1. StripQuotes(f.text) = f.text
      BY StripNone
    <2> QED  BY <1>2, <1>3, <2>1 DEF OnePiece, Piece, LastPiece
  <1>4. CASE f.quote
    <2> DEFINE t == <<Quote>> \o f.text \o <<Quote>>
               u == <<Quote>> \o f.text
    <2>1. u \in Seq(S) /\ Free(Comma, u)
      BY EdgeFree, Symbol DEF Symbols
    <2>2. t \in Seq(S) /\ Free(Comma, t) /\ t # <<>>
      <3> HIDE DEF u
      <3>1. u \o <<Quote>> \in Seq(S) /\ Free(Comma, u \o <<Quote>>)
            /\ u \o <<Quote>> # <<>>
        BY <2>1, EdgeFree, Symbol DEF Symbols
      <3> QED  BY <3>1 DEF u
    <2>3. StripQuotes(t) = f.text
      <3>1. PICK e \in Seq(S) : e = <<>> /\ Free(Quote, e)
        <4>1. <<>> \in Seq(S) /\ Free(Quote, <<>>)
          BY EmptyText
        <4> QED  BY <4>1, Zenon
      <3>2. StripQuotes(t \o e) = f.text
        BY <3>1, QuotedStrips DEF Symbols
      <3>3. t \o e = t
        <4> HIDE DEF t
        <4> QED  BY <2>2, <3>1, ConcatEmptySeq
      <3> QED  BY <3>2, <3>3
    <2>4. StripQuotes(t \o <<Return>>) = f.text
      <3>1. PICK e \in Seq(S) : e = <<Return>> /\ Free(Quote, e)
        <4>1. <<Return>> \in Seq(S) /\ Free(Quote, <<Return>>)
          BY Symbol DEF Symbols, Free
        <4> QED  BY <4>1, Zenon
      <3>2. StripQuotes(t \o e) = f.text
        BY <3>1, QuotedStrips DEF Symbols
      <3> QED  BY <3>1, <3>2
    <2>5. Piece(f) = t
      BY <1>4 DEF Piece
    <2> HIDE DEF t
    <2> QED  BY <1>2, <1>4, <2>2, <2>3, <2>4, <2>5 DEF OnePiece, LastPiece
  <1> QED  BY <1>3, <1>4

(* Each half of a quoted text has one of the quotes.                       *)
LEMMA QuotesApart ==
  ASSUME NEW S, Quote \in S, Comma \in S, NEW u \in Seq(S), NEW v \in Seq(S)
  PROVE  <<Quote>> \o (u \o <<Comma>> \o v) \o <<Quote>>
           = (<<Quote>> \o u) \o <<Comma>> \o (v \o <<Quote>>)
  <1>1. PICK o \in Seq(S), k \in Seq(S) : o = <<Quote>> /\ k = <<Comma>>
    <2>1. <<Quote>> \in Seq(S) /\ <<Comma>> \in Seq(S)
      OBVIOUS
    <2> QED  BY <2>1, Zenon
  <1>2. /\ u \o k \in Seq(S) /\ o \o u \in Seq(S)
        /\ (u \o k) \o v \in Seq(S) /\ (o \o u) \o k \in Seq(S)
    BY ConcatProperties
  <1>3. o \o ((u \o k) \o v) = (o \o (u \o k)) \o v
    BY <1>2, ConcatAssociative
  <1>4. o \o (u \o k) = (o \o u) \o k
    BY ConcatAssociative
  <1>5. (((o \o u) \o k) \o v) \o o = ((o \o u) \o k) \o (v \o o)
    <2>1. PICK x \in Seq(S) : x = (o \o u) \o k
      BY <1>2
    <2>2. (x \o v) \o o = x \o (v \o o)
      BY ConcatAssociative
    <2> QED  BY <2>1, <2>2
  <1>6. (o \o ((u \o k) \o v)) \o o = ((o \o u) \o k) \o (v \o o)
    BY <1>3, <1>4, <1>5
  <1> QED  BY <1>1, <1>6, Zenon

LEMMA SplitField ==
  ASSUME NEW S, Symbols(S), NEW f, IsField(f), f.text \in Seq(S),
         ~ Free(Comma, f.text)
  PROVE  \E a \in Seq(S), b \in Seq(S) : TwoPieces(f, a, b)
  <1> DEFINE t == f.text
             c == FindFirst(t, Comma, 1)
             u == Until(t, c)
             v == From(t, c + 1)
  <1>1. PICK n \in Nat : n = Len(t)
    OBVIOUS
  <1>2. /\ c \in 0..n
        /\ c = 0 => \A i \in 1..n : t[i] # Comma
        /\ c # 0 => c >= 1 /\ t[c] = Comma
    <2>1. 1 \in 1..(Len(t) + 1)
      BY <1>1
    <2> QED  BY <1>1, <2>1, FindFirstIs
  <1>3. c \in 1..n /\ t[c] = Comma
    BY <1>1, <1>2 DEF Free
  <1>4. \A i \in 1..n : t[i] # Quote /\ (t[i] = Comma => i = c)
    BY <1>1, <1>3 DEF IsField
  <1> HIDE DEF c, t
  <1>5. /\ u \in Seq(S) /\ Len(u) = c - 1
        /\ \A i \in 1..(c - 1) : u[i] = t[i]
    BY <1>1, <1>3 DEF Until, t
  <1>6. /\ v \in Seq(S) /\ Len(v) = n - c
        /\ \A i \in 1..(n - c) : v[i] = t[c + i]
    BY <1>1, <1>3 DEF From, t
  <1>7. t = u \o <<Comma>> \o v
    BY <1>1, <1>3, Cut DEF Until, From, t
  <1> HIDE DEF u, v
  <1>8. Free(Comma, u) /\ Free(Quote, u)
    <2>1. \A i \in 1..(c - 1) : i \in 1..n /\ i # c
      BY <1>3
    <2> QED  BY <1>4, <1>5, <2>1 DEF Free
  <1>9. Free(Comma, v) /\ Free(Quote, v)
    <2>1. \A i \in 1..(n - c) : c + i \in 1..n /\ c + i # c
      BY <1>3
    <2> QED  BY <1>4, <1>6, <2>1 DEF Free
  <1>10. Pieces(f) = <<u, IF f.quote THEN <<>> ELSE v>>
    <2>1. c # 0
      BY <1>3
    <2> QED  BY <2>1 DEF Pieces, npos, c, u, v, t
  <1>11. Occurs(Comma, f.text)
    BY <1>1, <1>3 DEF Occurs, t
  <1>12. CASE ~ f.quote
    <2>1. StripQuotes(u) = u /\ StripQuotes(v) = v
      BY <1>5, <1>6, <1>8, <1>9, StripNone
    <2>2. TwoPieces(f, u, v)
      BY <1>7, <1>8, <1>9, <1>10, <1>11, <1>12, <2>1
         DEF TwoPieces, Piece, LastPiece, t
    <2> QED  BY <1>5, <1>6, <2>2
  <1>13. CASE f.quote
    <2> DEFINE a == <<Quote>> \o u
               b == v \o <<Quote>>
    <2>1. PICK e \in Seq(S), o \in Seq(S), k \in Seq(S) :
            /\ e = <<>> /\ Free(Quote, e) /\ o = <<Quote>> /\ k = <<Comma>>
      <3>1. /\ <<>> \in Seq(S) /\ Free(Quote, <<>>)
            /\ <<Quote>> \in Seq(S) /\ <<Comma>> \in Seq(S)
        BY EmptyText DEF Symbols
      <3> QED  BY <3>1, Zenon
    <2>2. a \in Seq(S) /\ Free(Comma, a) /\ b \in Seq(S) /\ Free(Comma, b) /\ b # <<>>
      BY <1>5, <1>6, <1>8, <1>9, EdgeFree, Symbol DEF Symbols
    <2>3. StripQuotes(a) = u
      <3>1. StripQuotes(e \o <<Quote>> \o u) = u
        BY <1>5, <1>8, <2>1, StripOne DEF Symbols
      <3>2. e \o o = o
        BY <2>1, ConcatEmptySeq
      <3> QED  BY <2>1, <3>1, <3>2
    <2>4. StripQuotes(b) = <<>>
      <3>1. StripQuotes(v \o <<Quote>> \o e) = e
        BY <1>6, <1>9, <2>1, StripOne DEF Symbols
      <3>2. b \o e = b
        <4> HIDE DEF b
        <4> QED  BY <2>1, <2>2, ConcatEmptySeq
      <3> QED  BY <2>1, <3>1, <3>2
    <2>5. Piece(f) = a \o <<Comma>> \o b
      <3>1. Piece(f) = <<Quote>> \o (u \o <<Comma>> \o v) \o <<Quote>>
        BY <1>7, <1>13 DEF Piece, t
      <3>2. u \in Seq(S) /\ v \in Seq(S)
        BY <1>5, <1>6
      <3>3. <<Quote>> \o (u \o <<Comma>> \o v) \o <<Quote>>
              = (<<Quote>> \o u) \o <<Comma>> \o (v \o <<Quote>>)
        BY <3>2, QuotesApart DEF Symbols
      <3> QED  BY <3>1, <3>3
    <2> HIDE DEF a, b
    <2>6. TwoPieces(f, a, b)
      BY <1>10, <1>11, <1>13, <2>2, <2>3, <2>4, <2>5 DEF TwoPieces, LastPiece
    <2> QED  BY <2>2, <2>6
  <1> QED  BY <1>12, <1>13

-----------------------------------------------------------------------------
(* The pieces of a line *)

Stripped(ts) == [i \in 1..Len(ts) |-> StripQuotes(ts[i])]

(* w is the line up to a field f, and F what is to be read of it.          *)
CutLine(S, w, F, f) ==
  /\ w \in Seq(S)
  /\ \E ts \in Seq(Seq(S)) :
       /\ IsCut(w, ts) /\ F = Stripped(ts)
       /\ LastPiece(f, ts[Len(ts)])
       /\ f.quote /\ ~ Occurs(Comma, f.text) =>
            StripQuotes(ts[Len(ts)] \o <<Return>>) = StripQuotes(ts[Len(ts)])

LEMMA StrippedOne ==
  ASSUME NEW t
  PROVE  Stripped(<<t>>) = <<StripQuotes(t)>>
  <1>1. PICK x, y : x = <<t>> /\ y = StripQuotes(t)
    OBVIOUS
  <1>2. Len(x) = 1 /\ x[1] = t
    BY <1>1
  <1>3. \A i \in 1..1 : StripQuotes(x[i]) = y
    BY <1>1, <1>2
  <1>4. Stripped(x) = [i \in 1..1 |-> y]
    BY <1>2, <1>3 DEF Stripped
  <1>5. [i \in 1..1 |-> y] = <<y>>
    OBVIOUS
  <1> QED  BY <1>1, <1>4, <1>5, Zenon

LEMMA StrippedMore ==
  ASSUME NEW U, NEW ts \in Seq(U), NEW t \in U
  PROVE  Stripped(Append(ts, t)) = Stripped(ts) \o <<StripQuotes(t)>>
  <1>1. PICK m \in Nat : m = Len(ts)
    OBVIOUS
  <1>2. PICK us, y : us = Append(ts, t) /\ y = StripQuotes(t)
    OBVIOUS
  <1>3. Len(us) = m + 1 /\ us[m + 1] = t /\ \A i \in 1..m : us[i] = ts[i]
    BY <1>1, <1>2
  <1>4. PICK g : g = [i \in 1..m |-> StripQuotes(ts[i])]
    OBVIOUS
  <1>5. Stripped(ts) = g
    BY <1>1, <1>4 DEF Stripped
  <1>6. Stripped(us) = [i \in 1..(m + 1) |-> IF i = m + 1 THEN y ELSE g[i]]
    <2>1. \A i \in 1..(m + 1) :
            StripQuotes(us[i]) = IF i = m + 1 THEN y ELSE g[i]
      <3> SUFFICES ASSUME NEW i \in 1..(m + 1)
                   PROVE  StripQuotes(us[i]) = IF i = m + 1 THEN y ELSE g[i]
        OBVIOUS
      <3>1. CASE i = m + 1
        BY <1>2, <1>3, <3>1
      <3>2. CASE i # m + 1
        <4>1. i \in 1..m
          BY <3>2
        <4> QED  BY <1>3, <1>4, <3>2, <4>1
      <3> QED  BY <3>1, <3>2
    <2> QED  BY <1>3, <2>1 DEF Stripped
  <1>7. g \o <<y>> = [i \in 1..(m + 1) |-> IF i = m + 1 THEN y ELSE g[i]]
    <2> DEFINE V == {g[i] : i \in 1..m} \cup {y}
    <2>1. g \in Seq(V) /\ Len(g) = m
      <3>1. g \in [1..m -> V]
        BY <1>4
      <3> HIDE DEF V
      <3> QED  BY <3>1
    <2>2. PICK o : o = <<y>> /\ o \in Seq(V) /\ Len(o) = 1 /\ o[1] = y
      <3>1. y \in V
        OBVIOUS
      <3> HIDE DEF V
      <3>2. <<y>> \in Seq(V) /\ Len(<<y>>) = 1 /\ <<y>>[1] = y
        BY <3>1
      <3> QED  BY <3>2, Zenon
    <2> HIDE DEF V
    <2>3. /\ g \o o \in Seq(V) /\ Len(g \o o) = m + 1
          /\ \A i \in 1..(m + 1) : (g \o o)[i] = IF i <= m THEN g[i] ELSE o[i - m]
      BY <2>1, <2>2, ConcatProperties
    <2>4. \A i \in 1..(m + 1) : (g \o o)[i] = IF i = m + 1 THEN y ELSE g[i]
      <3> SUFFICES ASSUME NEW i \in 1..(m + 1)
                   PROVE  (g \o o)[i] = IF i = m + 1 THEN y ELSE g[i]
        OBVIOUS
      <3>1. CASE i = m + 1
        <4>1. ~ (i <= m) /\ i - m = 1
          BY <3>1
        <4> QED  BY <2>2, <2>3, <3>1, <4>1
      <3>2. CASE i # m + 1
        <4>1. i <= m
          BY <3>2
        <4> QED  BY <2>3, <3>2, <4>1
      <3> QED  BY <3>1, <3>2
    <2>5. PICK h : h = [i \in 1..(m + 1) |-> IF i = m + 1 THEN y ELSE g[i]]
      OBVIOUS
    <2>6. h \in Seq(V) /\ Len(h) = m + 1
      <3>1. \A i \in 1..(m + 1) : (IF i = m + 1 THEN y ELSE g[i]) \in V
        <4> SUFFICES ASSUME NEW i \in 1..(m + 1)
                     PROVE  (IF i = m + 1 THEN y ELSE g[i]) \in V
          OBVIOUS
        <4>1. i # m + 1 => i \in 1..m
          OBVIOUS
        <4> QED  BY <4>1 DEF V
      <3>2. h \in [1..(m + 1) -> V] /\ m + 1 \in Nat
        BY <2>5, <3>1
      <3> QED  BY <3>2
    <2>7. \A i \in 1..(m + 1) : h[i] = (g \o o)[i]
      BY <2>4, <2>5
    <2>8. g \o o = h
      BY <2>3, <2>6, <2>7, SeqEqual
    <2> QED  BY <2>2, <2>5, <2>8
  <1> QED  BY <1>2, <1>5, <1>6, <1>7

LEMMA FieldIs ==
  ASSUME NEW S, Symbols(S), NEW f, IsField(f), f.text \in Seq(S)
  PROVE  \/ \E t \in Seq(S) : OnePiece(f, t)
         \/ \E a \in Seq(S), b \in Seq(S) : TwoPieces(f, a, b)
  <1>1. f.quote \in BOOLEAN /\ Free(Quote, f.text)
    BY DEF IsField, Free
  <1>2. CASE Free(Comma, f.text)
    BY <1>1, <1>2, WholeField
  <1>3. CASE ~ Free(Comma, f.text)
    BY <1>3, SplitField
  <1> QED  BY <1>2, <1>3

LEMMA PairIs ==
  ASSUME NEW x, NEW y
  PROVE  <<x>> \o <<y>> = <<x, y>>
  <1>1. x \in {x, y} /\ y \in {x, y}
    OBVIOUS
  <1>2. PICK V : x \in V /\ y \in V
    BY <1>1, Zenon
  <1>3. PICK p, q, r : p = <<x>> /\ q = <<y>> /\ r = <<x, y>>
    OBVIOUS
  <1>4. /\ p \in Seq(V) /\ Len(p) = 1 /\ p[1] = x
        /\ q \in Seq(V) /\ Len(q) = 1 /\ q[1] = y
    BY <1>2, <1>3
  <1>5. r \in Seq(V) /\ Len(r) = 2 /\ r[1] = x /\ r[2] = y
    BY <1>2, <1>3
  <1>a. /\ p \o q \in Seq(V) /\ Len(p \o q) = 2
        /\ \A i \in 1..2 : (p \o q)[i] = IF i <= 1 THEN p[i] ELSE q[i - 1]
    BY <1>4, ConcatProperties
  <1>6. PICK d \in Seq(V) : d = p \o q
    BY <1>a
  <1>7. Len(d) = 2 /\ d[1] = x /\ d[2] = y
    BY <1>4, <1>6, <1>a
  <1>8. \A i \in 1..2 : d[i] = r[i]
    <2>1. \A i \in 1..2 : i = 1 \/ i = 2
      OBVIOUS
    <2> QED  BY <1>5, <1>7, <2>1
  <1>9. d = r
    BY <1>5, <1>7, <1>8, SeqEqual
  <1> QED  BY <1>3, <1>6, <1>9, Zenon

(* A piece at the end, with a comma before it.                             *)
Extended(S, ts, t, u, us) ==
  /\ u \in Seq(S) /\ us \in Seq(Seq(S)) /\ IsCut(u, us)
  /\ Stripped(us) = Stripped(ts) \o <<StripQuotes(t)>>
  /\ us[Len(us)] = t

LEMMA OneMorePiece ==
  ASSUME NEW S, Symbols(S), NEW w \in Seq(S), NEW ts \in Seq(Seq(S)), IsCut(w, ts),
         NEW t \in Seq(S), Free(Comma, t),
         NEW u, u = w \o <<Comma>> \o t, NEW us, us = Append(ts, t)
  PROVE  Extended(S, ts, t, u, us)
  <1>1. u \in Seq(S)
    BY JoinIs DEF Symbols
  <1>2. IsCut(u, us)
    BY CutAppend DEF Symbols
  <1>3. Stripped(us) = Stripped(ts) \o <<StripQuotes(t)>>
    BY StrippedMore
  <1>4. us \in Seq(Seq(S)) /\ us[Len(us)] = t
    <2>1. PICK U : U = Seq(S)
      OBVIOUS
    <2>2. ts \in Seq(U) /\ t \in U
      BY <2>1
    <2>3. us \in Seq(U) /\ us[Len(us)] = t
      BY <2>2
    <2> QED  BY <2>1, <2>3
  <1> QED  BY <1>1, <1>2, <1>3, <1>4 DEF Extended

Cat(a, b) == a \o b

LEMMA CatIs ==
  ASSUME NEW S
  PROVE  \A a, b, c \in Seq(S) :
           Cat(a, b) \in Seq(S) /\ Cat(Cat(a, b), c) = Cat(a, Cat(b, c))
  BY ConcatProperties, ConcatAssociative DEF Cat

Regrouped(w, k, a, b) ==
  w \o (k \o ((a \o k) \o b)) = (((w \o k) \o a) \o k) \o b

LEMMA TwoAppended ==
  ASSUME NEW S, NEW w \in Seq(S), NEW k \in Seq(S), NEW a \in Seq(S), NEW b \in Seq(S)
  PROVE  Regrouped(w, k, a, b)
  <1>1. PICK M : M = Seq(S)
    OBVIOUS
  <1>2. \A x, y, z \in M : Cat(x, y) \in M /\ Cat(Cat(x, y), z) = Cat(x, Cat(y, z))
    BY <1>1, CatIs
  <1>3. w \in M /\ k \in M /\ a \in M /\ b \in M
    BY <1>1
  <1>4. Cat(w, Cat(k, Cat(Cat(a, k), b))) = Cat(Cat(Cat(Cat(w, k), a), k), b)
    BY <1>2, <1>3
  <1> QED  BY <1>4 DEF Cat, Regrouped

LEMMA FirstPiece ==
  ASSUME NEW S, NEW t \in Seq(S), Free(Comma, t)
  PROVE  /\ <<t>> \in Seq(Seq(S)) /\ IsCut(t, <<t>>)
         /\ Stripped(<<t>>) = <<StripQuotes(t)>> /\ <<t>>[Len(<<t>>)] = t
  <1>1. <<t>> \in Seq(Seq(S)) /\ <<t>>[Len(<<t>>)] = t
    OBVIOUS
  <1> QED  BY <1>1, CutOne, StrippedOne

LEMMA FirstField ==
  ASSUME NEW S, Symbols(S), NEW f, IsField(f), f.text \in Seq(S)
  PROVE  CutLine(S, Piece(f), Pieces(f), f)
  <1>1. ASSUME NEW t \in Seq(S), OnePiece(f, t)
        PROVE  CutLine(S, Piece(f), Pieces(f), f)
    <2>1. PICK ts : ts = <<t>>
      OBVIOUS
    <2>2. /\ ts \in Seq(Seq(S)) /\ IsCut(t, ts)
          /\ Stripped(ts) = <<StripQuotes(t)>> /\ ts[Len(ts)] = t
      BY <1>1, <2>1, FirstPiece DEF OnePiece
    <2> QED  BY <1>1, <2>2 DEF OnePiece, CutLine
  <1>2. ASSUME NEW a \in Seq(S), NEW b \in Seq(S), TwoPieces(f, a, b)
        PROVE  CutLine(S, Piece(f), Pieces(f), f)
    <2>1. PICK ts : ts = <<a>>
      OBVIOUS
    <2>2. /\ ts \in Seq(Seq(S)) /\ IsCut(a, ts)
          /\ Stripped(ts) = <<StripQuotes(a)>>
      BY <1>2, <2>1, FirstPiece DEF TwoPieces
    <2>3. PICK us, u : us = Append(ts, b) /\ u = a \o <<Comma>> \o b
      OBVIOUS
    <2>4. /\ u \in Seq(S) /\ us \in Seq(Seq(S)) /\ IsCut(u, us)
          /\ Stripped(us) = Stripped(ts) \o <<StripQuotes(b)>>
          /\ us[Len(us)] = b
      <3>1. Free(Comma, b)
        BY <1>2 DEF TwoPieces
      <3>2. Extended(S, ts, b, u, us)
        BY <2>2, <2>3, <3>1, OneMorePiece
      <3> QED  BY <3>2 DEF Extended
    <2>5. <<StripQuotes(a)>> \o <<StripQuotes(b)>> = <<StripQuotes(a), StripQuotes(b)>>
      BY PairIs
    <2>6. Pieces(f) = Stripped(us) /\ Piece(f) = u
      BY <1>2, <2>2, <2>3, <2>4, <2>5 DEF TwoPieces
    <2> QED  BY <1>2, <2>4, <2>6 DEF TwoPieces, CutLine
  <1> QED  BY <1>1, <1>2, FieldIs

LEMMA NextField ==
  ASSUME NEW S, Symbols(S), NEW f, IsField(f), f.text \in Seq(S),
         NEW w, NEW F, NEW e, CutLine(S, w, F, e)
  PROVE  CutLine(S, w \o (<<Comma>> \o Piece(f)), F \o Pieces(f), f)
  <1>1. w \in Seq(S)
    BY DEF CutLine
  <1>2. PICK ts \in Seq(Seq(S)) : IsCut(w, ts) /\ F = Stripped(ts)
    BY DEF CutLine
  <1>3. PICK k \in Seq(S) : k = <<Comma>>
    <2>1. <<Comma>> \in Seq(S)
      BY DEF Symbols
    <2> QED  BY <2>1, Zenon
  <1>4. ASSUME NEW t \in Seq(S), OnePiece(f, t)
        PROVE  CutLine(S, w \o (<<Comma>> \o Piece(f)), F \o Pieces(f), f)
    <2>1. PICK us, u : us = Append(ts, t) /\ u = w \o <<Comma>> \o t
      OBVIOUS
    <2>2. /\ u \in Seq(S) /\ us \in Seq(Seq(S)) /\ IsCut(u, us)
          /\ Stripped(us) = Stripped(ts) \o <<StripQuotes(t)>>
          /\ us[Len(us)] = t
      <3>1. Free(Comma, t)
        BY <1>4 DEF OnePiece
      <3>2. Extended(S, ts, t, u, us)
        BY <1>1, <1>2, <2>1, <3>1, OneMorePiece
      <3> QED  BY <3>2 DEF Extended
    <2>3. w \o (k \o t) = (w \o k) \o t
      BY <1>1, ConcatAssociative
    <2>4. w \o (<<Comma>> \o Piece(f)) = u
      BY <1>3, <1>4, <2>1, <2>3 DEF OnePiece
    <2>5. F \o Pieces(f) = Stripped(us)
      BY <1>2, <1>4, <2>2 DEF OnePiece
    <2> QED  BY <1>4, <2>2, <2>4, <2>5 DEF OnePiece, CutLine
  <1>5. ASSUME NEW a \in Seq(S), NEW b \in Seq(S), TwoPieces(f, a, b)
        PROVE  CutLine(S, w \o (<<Comma>> \o Piece(f)), F \o Pieces(f), f)
    <2>1. PICK us, u : us = Append(ts, a) /\ u = w \o <<Comma>> \o a
      OBVIOUS
    <2>2. /\ u \in Seq(S) /\ us \in Seq(Seq(S)) /\ IsCut(u, us)
          /\ Stripped(us) = Stripped(ts) \o <<StripQuotes(a)>>
      <3>1. Free(Comma, a)
        BY <1>5 DEF TwoPieces
      <3>2. Extended(S, ts, a, u, us)
        BY <1>1, <1>2, <2>1, <3>1, OneMorePiece
      <3> QED  BY <3>2 DEF Extended
    <2>3. PICK vs, v : vs = Append(us, b) /\ v = u \o <<Comma>> \o b
      OBVIOUS
    <2>4. /\ v \in Seq(S) /\ vs \in Seq(Seq(S)) /\ IsCut(v, vs)
          /\ Stripped(vs) = Stripped(us) \o <<StripQuotes(b)>>
          /\ vs[Len(vs)] = b
      <3>1. Free(Comma, b)
        BY <1>5 DEF TwoPieces
      <3>2. Extended(S, us, b, v, vs)
        BY <2>2, <2>3, <3>1, OneMorePiece
      <3> QED  BY <3>2 DEF Extended
    <2>5. w \o (<<Comma>> \o Piece(f)) = v
      <3>1. w \o (k \o ((a \o k) \o b)) = (((w \o k) \o a) \o k) \o b
        <4>1. w \in Seq(S) /\ k \in Seq(S) /\ a \in Seq(S) /\ b \in Seq(S)
          BY <1>1
        <4>2. Regrouped(w, k, a, b)
          BY <4>1, TwoAppended
        <4> QED  BY <4>2 DEF Regrouped
      <3> QED  BY <1>3, <1>5, <2>1, <2>3, <3>1 DEF TwoPieces
    <2>6. F \o Pieces(f) = Stripped(vs)
      <3> DEFINE x == StripQuotes(a)
                 y == StripQuotes(b)
                 V == {F[i] : i \in DOMAIN F} \cup {x, y}
      <3>1. Pieces(f) = <<x, y>> /\ Stripped(vs) = (F \o <<x>>) \o <<y>>
        BY <1>2, <1>5, <2>2, <2>4 DEF TwoPieces
      <3>2. F \in Seq(V)
        <4>1. PICK m \in Nat : m = Len(ts)
          OBVIOUS
        <4>2. F = [i \in 1..m |-> StripQuotes(ts[i])]
          BY <1>2, <4>1 DEF Stripped
        <4>3. F \in [1..m -> V]
          BY <4>2
        <4> HIDE DEF V
        <4> QED  BY <4>3
      <3>3. x \in V /\ y \in V
        OBVIOUS
      <3> HIDE DEF V, x, y
      <3>4. PICK p \in Seq(V), q \in Seq(V) : p = <<x>> /\ q = <<y>>
        <4>1. <<x>> \in Seq(V) /\ <<y>> \in Seq(V)
          BY <3>3
        <4> QED  BY <4>1, Zenon
      <3>5. (F \o p) \o q = F \o (p \o q)
        BY <3>2, ConcatAssociative
      <3>6. p \o q = <<x, y>>
        BY <3>4, PairIs
      <3> QED  BY <3>1, <3>4, <3>5, <3>6
    <2> QED  BY <1>5, <2>4, <2>5, <2>6 DEF TwoPieces, CutLine
  <1> QED  BY <1>4, <1>5, FieldIs

WrittenPart(l, k) == (IF k = 1 THEN <<>> ELSE <<Comma>>) \o Piece(l[k])

(* The values of the two recursive functions.                              *)
PutTogether(l, n, w, F) ==
  /\ Written(l) = w[n] /\ FoldLine(l) = F[n]
  /\ w[0] = <<>> /\ F[0] = <<>>
  /\ \A k \in 1..n : /\ w[k] = w[k - 1] \o WrittenPart(l, k)
                     /\ F[k] = F[k - 1] \o Pieces(l[k])

LEMMA LineParts ==
  ASSUME NEW l, Len(l) \in Nat
  PROVE  \E w, F : PutTogether(l, Len(l), w, F)
  <1> DEFINE n == Len(l)
             g == [k \in 1..n |-> WrittenPart(l, k)]
             h == [k \in 1..n |-> Pieces(l[k])]
             EqW(w) == w = [k \in 0..n |->
                              IF k = 0 THEN <<>> ELSE w[k - 1] \o WrittenPart(l, k)]
             EqF(F) == F = [k \in 0..n |->
                              IF k = 0 THEN <<>> ELSE F[k - 1] \o Pieces(l[k])]
  <1>1. \A w : EqW(w) <=> Folded(w, n, g)
    <2> SUFFICES ASSUME NEW w  PROVE EqW(w) <=> Folded(w, n, g)
      OBVIOUS
    <2>1. \A k \in 0..n : k # 0 => g[k] = WrittenPart(l, k)
      <3> HIDE DEF n
      <3>1. n \in Nat
        BY DEF n
      <3>2. \A k \in 0..n : k # 0 => k \in 1..n
        BY <3>1
      <3> QED  BY <3>2
    <2> HIDE DEF g
    <2>2. \A k \in 0..n : (IF k = 0 THEN <<>> ELSE w[k - 1] \o WrittenPart(l, k))
                             = IF k = 0 THEN <<>> ELSE w[k - 1] \o g[k]
      BY <2>1, Zenon
    <2>3. [k \in 0..n |-> IF k = 0 THEN <<>> ELSE w[k - 1] \o WrittenPart(l, k)]
            = [k \in 0..n |-> IF k = 0 THEN <<>> ELSE w[k - 1] \o g[k]]
      BY <2>2, Zenon
    <2> QED  BY <2>3 DEF Folded
  <1>2. \A F : EqF(F) <=> Folded(F, n, h)
    <2> SUFFICES ASSUME NEW F  PROVE EqF(F) <=> Folded(F, n, h)
      OBVIOUS
    <2>1. \A k \in 0..n : k # 0 => h[k] = Pieces(l[k])
      <3> HIDE DEF n
      <3>1. n \in Nat
        BY DEF n
      <3>2. \A k \in 0..n : k # 0 => k \in 1..n
        BY <3>1
      <3> QED  BY <3>2
    <2> HIDE DEF h
    <2>2. \A k \in 0..n : (IF k = 0 THEN <<>> ELSE F[k - 1] \o Pieces(l[k]))
                             = IF k = 0 THEN <<>> ELSE F[k - 1] \o h[k]
      BY <2>1, Zenon
    <2>3. [k \in 0..n |-> IF k = 0 THEN <<>> ELSE F[k - 1] \o Pieces(l[k])]
            = [k \in 0..n |-> IF k = 0 THEN <<>> ELSE F[k - 1] \o h[k]]
      BY <2>2, Zenon
    <2> QED  BY <2>3 DEF Folded
  <1>3. \A k \in 1..n : g[k] = WrittenPart(l, k) /\ h[k] = Pieces(l[k])
    OBVIOUS
  <1> HIDE DEF g, h
  <1>4. PICK w, F : w = (CHOOSE x : EqW(x)) /\ F = (CHOOSE x : EqF(x))
    OBVIOUS
  <1>5. (\E x : EqW(x)) /\ (\E x : EqF(x))
    <2> HIDE DEF EqW, EqF
    <2> QED  BY <1>1, <1>2, FoldExists
  <1>6. EqW(w) /\ EqF(F)
    <2> HIDE DEF EqW, EqF
    <2> QED  BY <1>4, <1>5, Zenon
  <1>7. Folded(w, n, g) /\ Folded(F, n, h)
    <2> HIDE DEF EqW, EqF
    <2> QED  BY <1>1, <1>2, <1>6
  <1>8. Written(l) = w[n]
    BY <1>4 DEF Written, WrittenPart, Piece
  <1>9. FoldLine(l) = F[n]
    BY <1>4 DEF FoldLine
  <1> HIDE DEF EqW, EqF, n
  <1>10. n \in Nat
    BY DEF n
  <1>11. /\ w[0] = <<>> /\ F[0] = <<>>
         /\ \A k \in 1..n : w[k] = w[k - 1] \o g[k] /\ F[k] = F[k - 1] \o h[k]
    BY <1>7, <1>10, FoldSteps
  <1>12. PutTogether(l, n, w, F)
    BY <1>3, <1>8, <1>9, <1>11 DEF PutTogether
  <1> QED  BY <1>12 DEF n

(* All symbols of a line.                                                  *)
LEMMA LineSymbols ==
  ASSUME NEW l, IsText(l), \A k \in 1..Len(l) : IsField(l[k])
  PROVE  \E S : Symbols(S) /\ \A k \in 1..Len(l) : l[k].text \in Seq(S)
  <1> DEFINE Own(k) == {l[k].text[i] : i \in DOMAIN l[k].text}
             B == UNION {Own(k) : k \in 1..Len(l)}
             A == {Quote, Comma, Return}
             S == B \cup A
  <1>1. ASSUME NEW k \in 1..Len(l)  PROVE l[k].text \in Seq(S)
    <2>1. l[k].text \in Seq(Own(k))
      BY DEF IsField, IsText
    <2>2. Own(k) \subseteq B
      <3> HIDE DEF Own
      <3> QED  OBVIOUS
    <2> HIDE DEF Own, A, B
    <2>3. Own(k) \subseteq S
      BY <2>2
    <2> HIDE DEF S
    <2> QED  BY <2>1, <2>3, SeqMonotonic
  <1>2. Symbols(S)
    <2>1. Quote \in A /\ Comma \in A /\ Return \in A
      OBVIOUS
    <2> HIDE DEF A, B
    <2> QED  BY <2>1 DEF Symbols
  <1> HIDE DEF S
  <1> QED  BY <1>1, <1>2

LEMMA LineIsCut ==
  ASSUME NEW l, IsText(l), \A k \in 1..Len(l) : IsField(l[k]), l # <<>>
  PROVE  \E S : Symbols(S) /\ CutLine(S, Written(l), FoldLine(l), l[Len(l)])
  <1>1. PICK S : Symbols(S) /\ \A k \in 1..Len(l) : l[k].text \in Seq(S)
    BY LineSymbols
  <1>2. PICK n \in Nat : n = Len(l) /\ n >= 1
    <2>1. Len(l) \in Nat /\ Len(l) # 0
      BY EmptySeq DEF IsText
    <2> QED  BY <2>1
  <1>3. PICK w, F : /\ Written(l) = w[n] /\ FoldLine(l) = F[n]
                    /\ w[0] = <<>> /\ F[0] = <<>>
                    /\ \A k \in 1..n : /\ w[k] = w[k - 1] \o WrittenPart(l, k)
                                       /\ F[k] = F[k - 1] \o Pieces(l[k])
    <2>1. PICK w, F : PutTogether(l, n, w, F)
      BY <1>2, LineParts
    <2> QED  BY <2>1 DEF PutTogether
  <1> DEFINE Good(k) == CutLine(S, w[k], F[k], l[k])
             T == {k \in Nat : k + 1 <= n => Good(k + 1)}
  <1>4. Good(1)
    <2>1. 1 \in 1..n /\ 1 - 1 = 0
      BY <1>2
    <2>2. w[1] = <<>> \o (<<>> \o Piece(l[1])) /\ F[1] = <<>> \o Pieces(l[1])
      <3>1. w[1] = w[1 - 1] \o WrittenPart(l, 1) /\ F[1] = F[1 - 1] \o Pieces(l[1])
        BY <1>3, <2>1
      <3> QED  BY <1>3, <2>1, <3>1, Zenon DEF WrittenPart
    <2>3. CutLine(S, Piece(l[1]), Pieces(l[1]), l[1])
      BY <1>1, <1>2, <2>1, FirstField
    <2>4. <<>> \o Piece(l[1]) = Piece(l[1])
      <3>1. Piece(l[1]) \in Seq(S)
        BY <2>3 DEF CutLine
      <3> QED  BY <3>1, ConcatEmptySeq
    <2>5. <<>> \o Pieces(l[1]) = Pieces(l[1])
      <3>1. PICK ts \in Seq(Seq(S)) : Pieces(l[1]) = Stripped(ts)
        BY <2>3 DEF CutLine
      <3>2. \E V : Stripped(ts) \in Seq(V)
        <4> DEFINE V == {StripQuotes(ts[i]) : i \in 1..Len(ts)}
        <4>1. Stripped(ts) \in [1..Len(ts) -> V]
          BY DEF Stripped
        <4>2. Len(ts) \in Nat
          OBVIOUS
        <4> HIDE DEF V
        <4>3. Stripped(ts) \in Seq(V)
          BY <4>1, <4>2
        <4> QED  BY <4>3
      <3> QED  BY <3>1, <3>2, ConcatEmptySeq
    <2> QED  BY <2>2, <2>3, <2>4, <2>5
  <1>5. ASSUME NEW k \in 2..n, Good(k - 1)  PROVE Good(k)
    <2>1. k \in 1..n /\ k # 1 /\ k - 1 \in 1..n
      OBVIOUS
    <2>2. w[k] = w[k - 1] \o (<<Comma>> \o Piece(l[k]))
            /\ F[k] = F[k - 1] \o Pieces(l[k])
      BY <1>3, <2>1, Zenon DEF WrittenPart
    <2>3. IsField(l[k]) /\ l[k].text \in Seq(S)
      BY <1>1, <1>2, <2>1
    <2>4. PICK v, G, e : v = w[k - 1] /\ G = F[k - 1] /\ e = l[k - 1]
      OBVIOUS
    <2>5. CutLine(S, v, G, e)
      BY <1>5, <2>4
    <2>6. CutLine(S, v \o (<<Comma>> \o Piece(l[k])), G \o Pieces(l[k]), l[k])
      BY <1>1, <2>3, <2>5, NextField
    <2> QED  BY <2>2, <2>4, <2>6
  <1> HIDE DEF Good
  <1>6. 0 \in T
    BY <1>4
  <1>7. ASSUME NEW k \in Nat, k \in T  PROVE k + 1 \in T
    <2> SUFFICES ASSUME (k + 1) + 1 <= n  PROVE Good((k + 1) + 1)
      OBVIOUS
    <2>1. (k + 1) + 1 \in 2..n /\ ((k + 1) + 1) - 1 = k + 1 /\ k + 1 <= n
      OBVIOUS
    <2>2. Good(k + 1)
      BY <1>7, <2>1
    <2> QED  BY <1>5, <2>1, <2>2
  <1> HIDE DEF T
  <1>8. n - 1 \in T
    <2>1. Nat \subseteq T
      BY <1>6, <1>7, Induction
    <2>2. n - 1 \in Nat
      BY <1>2
    <2> QED  BY <2>1, <2>2
  <1>9. Good(n)
    <2>1. (n - 1) + 1 <= n => Good((n - 1) + 1)
      BY <1>8 DEF T
    <2>2. (n - 1) + 1 = n /\ n <= n
      OBVIOUS
    <2> QED  BY <2>1, <2>2
  <1> QED  BY <1>1, <1>2, <1>3, <1>9 DEF Good

-----------------------------------------------------------------------------
(* The fields of a line *)

LEMMA StrippedIs ==
  ASSUME NEW U, NEW ts \in Seq(U)
  PROVE  \E V : /\ Stripped(ts) \in Seq(V) /\ Len(Stripped(ts)) = Len(ts)
                /\ \A i \in 1..Len(ts) : Stripped(ts)[i] = StripQuotes(ts[i])
  <1>1. PICK m \in Nat : m = Len(ts)
    OBVIOUS
  <1>2. PICK g : g = [i \in 1..m |-> StripQuotes(ts[i])]
    OBVIOUS
  <1>3. PICK V : V = {StripQuotes(ts[i]) : i \in 1..m}
    OBVIOUS
  <1>4. g \in [1..m -> V]
    BY <1>2, <1>3
  <1>5. g \in Seq(V) /\ Len(g) = m /\ \A i \in 1..m : g[i] = StripQuotes(ts[i])
    BY <1>2, <1>4
  <1>6. Stripped(ts) = g
    BY <1>1, <1>2 DEF Stripped
  <1> QED  BY <1>1, <1>5, <1>6

LEMMA FieldsAre ==
  ASSUME NEW S, NEW s \in Seq(S), NEW ts \in Seq(Seq(S)), IsCut(s, ts)
  PROVE  Fields(s) = IF ts[Len(ts)] = <<>>
                     THEN SubSeq(Stripped(ts), 1, Len(Stripped(ts)) - 1)
                     ELSE Stripped(ts)
  <1>1. PICK m \in Nat : m = Len(ts) /\ m >= 1
    <2>1. PICK b : CutAt(s, ts, b)
      BY DEF IsCut
    <2> QED  BY <2>1 DEF CutAt
  <1>2. PICK e \in Nat : e = Filled(ts) /\ e <= m
    <2>1. Filled(ts) \in Nat /\ Filled(ts) <= m
      BY <1>1 DEF Filled
    <2> QED  BY <2>1
  <1>3. PICK t : t = Tokens(s) /\ t = SubSeq(ts, 1, e)
    BY <1>2, TokensOfCut
  <1>4. Len(t) = e /\ \A k \in 1..e : t[k] = ts[k]
    <2>1. PICK U : U = Seq(S)
      OBVIOUS
    <2>2. ts \in Seq(U)
      BY <2>1
    <2> QED  BY <1>1, <1>2, <1>3, <2>2
  <1>5. PICK f : f = Fields(s)
    OBVIOUS
  <1>6. f = [k \in 1..e |-> StripQuotes(ts[k])]
    BY <1>3, <1>4, <1>5 DEF Fields
  <1>7. PICK g, V : /\ g = Stripped(ts) /\ g \in Seq(V) /\ Len(g) = m
                    /\ \A i \in 1..m : g[i] = StripQuotes(ts[i])
    BY <1>1, StrippedIs
  <1>8. f \in Seq(V) /\ Len(f) = e /\ \A k \in 1..e : f[k] = g[k]
    <2>1. \A k \in 1..e : StripQuotes(ts[k]) = g[k] /\ g[k] \in V
      BY <1>1, <1>2, <1>7
    <2>2. f \in [1..e -> V]
      BY <1>6, <2>1
    <2> QED  BY <1>6, <2>1, <2>2
  <1>9. CASE ts[m] # <<>>
    <2>1. e = m
      BY <1>1, <1>2, <1>9 DEF Filled
    <2>2. f = g
      BY <1>7, <1>8, <2>1, SeqEqual
    <2> QED  BY <1>1, <1>5, <1>7, <1>9, <2>2
  <1>10. CASE ts[m] = <<>>
    <2>1. e = m - 1
      BY <1>1, <1>2, <1>10 DEF Filled
    <2>2. PICK h \in Seq(V) : h = SubSeq(g, 1, e)
      <3>1. \A i \in 1..e : g[i] \in V
        BY <1>2, <1>7
      <3>2. SubSeq(g, 1, e) \in Seq(V)
        <4>1. 1 \in Int /\ e \in Int
          BY <1>2
        <4> QED  BY <3>1, <4>1, SubSeqProperties
      <3> QED  BY <3>2
    <2>3. Len(h) = e /\ \A k \in 1..e : h[k] = g[k]
      BY <1>2, <1>7, <2>2
    <2>4. f = h
      BY <1>8, <2>3, SeqEqual
    <2> QED  BY <1>1, <1>5, <1>7, <1>10, <2>1, <2>2, <2>4
  <1> QED  BY <1>9, <1>10

(* A carriage return behind the last piece changes no field, if none is    *)
(* lost and it is not read as part of one.                                 *)
LEMMA ReturnBehind ==
  ASSUME NEW S, Symbols(S), NEW s \in Seq(S), NEW ts \in Seq(Seq(S)), IsCut(s, ts),
         ts[Len(ts)] # <<>>,
         StripQuotes(ts[Len(ts)] \o <<Return>>) = StripQuotes(ts[Len(ts)])
  PROVE  Fields(s \o <<Return>>) = Fields(s)
  <1>1. PICK m \in Nat : m = Len(ts) /\ m >= 1
    <2>1. PICK b : CutAt(s, ts, b)
      BY DEF IsCut
    <2> QED  BY <2>1 DEF CutAt
  <1>2. PICK u, t, us : /\ u = s \o <<Return>> /\ t = ts[m] \o <<Return>>
                        /\ us = [ts EXCEPT ![m] = t]
    OBVIOUS
  <1>3. u \in Seq(S) /\ t \in Seq(S) /\ t # <<>>
    <2>1. PICK a \in Seq(S), r \in Seq(S) : a = ts[m] /\ r = <<Return>> /\ Len(r) = 1
      <3>1. ts[m] \in Seq(S) /\ <<Return>> \in Seq(S) /\ Len(<<Return>>) = 1
        BY <1>1 DEF Symbols
      <3> QED  BY <3>1, Zenon
    <2>2. a \o r \in Seq(S) /\ Len(a \o r) = Len(a) + 1 /\ s \o r \in Seq(S)
      BY <2>1, ConcatProperties
    <2>3. Len(a) + 1 # 0 /\ Len(<<>>) = 0
      OBVIOUS
    <2> QED  BY <1>2, <2>1, <2>2, <2>3
  <1>4. /\ us \in Seq(Seq(S)) /\ Len(us) = m /\ us[m] = t
        /\ \A i \in 1..m : i # m => us[i] = ts[i]
    <2>1. PICK U : U = Seq(S)
      OBVIOUS
    <2>2. ts \in Seq(U) /\ t \in U /\ m \in 1..Len(ts)
      BY <1>1, <1>3, <2>1
    <2>3. us \in Seq(U) /\ Len(us) = m /\ us[m] = t
          /\ \A i \in 1..m : i # m => us[i] = ts[i]
      BY <1>1, <1>2, <2>2
    <2> QED  BY <2>1, <2>3
  <1>5. IsCut(u, us)
    <2>1. Return \in S /\ Return # Comma
      BY Symbol DEF Symbols
    <2>2. IsCut(s \o <<Return>>, [ts EXCEPT ![Len(ts)] = @ \o <<Return>>])
      BY <2>1, CutExtend
    <2>3. [ts EXCEPT ![Len(ts)] = @ \o <<Return>>] = us
      BY <1>1, <1>2
    <2> QED  BY <1>2, <2>2, <2>3
  <1>6. Stripped(us) = Stripped(ts)
    <2>1. \A i \in 1..m : StripQuotes(us[i]) = StripQuotes(ts[i])
      <3> SUFFICES ASSUME NEW i \in 1..m
                   PROVE  StripQuotes(us[i]) = StripQuotes(ts[i])
        OBVIOUS
      <3>1. CASE i = m
        BY <1>1, <1>2, <1>4, <3>1
      <3>2. CASE i # m
        BY <1>4, <3>2
      <3> QED  BY <3>1, <3>2
    <2> QED  BY <1>1, <1>4, <2>1 DEF Stripped
  <1>7. Fields(s) = Stripped(ts)
    BY FieldsAre
  <1>8. Fields(u) = Stripped(us)
    BY <1>3, <1>4, <1>5, FieldsAre
  <1> QED  BY <1>2, <1>6, <1>7, <1>8

(* What LineReadsBack says of a line, and what is read of it.              *)
ReadsBack(l, unix, dos) ==
  LET all  == FoldLine(l)
      n    == Len(all)
      cut  == n > 0 /\ all[n] = <<>> /\ ~ l[Len(l)].quote
      last == l[Len(l)]
  IN  /\ unix = IF cut THEN SubSeq(all, 1, n - 1) ELSE all
      /\ l # <<>> /\ last.quote /\ ~ Occurs(Comma, last.text) => dos = unix

LEMMA EmptyLine ==
  ReadsBack(<<>>, Fields(Written(<<>>)), Fields(Written(<<>>) \o <<Return>>))
  <1>1. PICK l : l = <<>> /\ Len(l) = 0
    OBVIOUS
  <1>2. PICK w, F : PutTogether(l, 0, w, F)
    BY <1>1, LineParts
  <1>3. Written(l) = <<>> /\ FoldLine(l) = <<>>
    BY <1>2 DEF PutTogether
  <1>4. PICK s, S, ts : /\ s = <<>> /\ S = {0} /\ s \in Seq(S) /\ ts = <<s>>
                        /\ ts \in Seq(Seq(S)) /\ Len(ts) = 1 /\ ts[1] = s
    <2>1. <<>> \in Seq({0})
      OBVIOUS
    <2>2. PICK s, S : s = <<>> /\ S = {0} /\ s \in Seq(S)
      BY <2>1, Zenon
    <2>3. <<s>> \in Seq(Seq(S)) /\ Len(<<s>>) = 1 /\ <<s>>[1] = s
      BY <2>2
    <2> QED  BY <2>2, <2>3, Zenon
  <1>5. IsCut(s, ts)
    BY <1>4, EmptyText, CutOne
  <1>6. Fields(s) = SubSeq(Stripped(ts), 1, Len(Stripped(ts)) - 1)
    BY <1>4, <1>5, FieldsAre
  <1>7. Len(Stripped(ts)) = 1
    BY <1>4, StrippedIs
  <1>8. Fields(s) = <<>>
    <2>1. SubSeq(Stripped(ts), 1, 1 - 1) = <<>>
      BY SubSeqEmpty
    <2> QED  BY <1>6, <1>7, <2>1
  <1>9. Len(<<>>) = 0 /\ ~ (0 > 0)
    OBVIOUS
  <1> QED  BY <1>1, <1>3, <1>4, <1>8, <1>9 DEF ReadsBack

LEMMA LineBack ==
  ASSUME NEW l, IsText(l), \A k \in 1..Len(l) : IsField(l[k])
  PROVE  ReadsBack(l, Fields(Written(l)), Fields(Written(l) \o <<Return>>))
  <1>1. CASE l = <<>>
    BY <1>1, EmptyLine
  <1>2. CASE l # <<>>
    <2>1. PICK S, f, s : /\ f = l[Len(l)] /\ s = Written(l)
                         /\ Symbols(S) /\ CutLine(S, s, FoldLine(l), f)
      BY <1>2, LineIsCut
    <2>2. PICK ts \in Seq(Seq(S)) :
            /\ s \in Seq(S) /\ IsCut(s, ts) /\ FoldLine(l) = Stripped(ts)
            /\ LastPiece(f, ts[Len(ts)])
            /\ f.quote /\ ~ Occurs(Comma, f.text) =>
                 StripQuotes(ts[Len(ts)] \o <<Return>>) = StripQuotes(ts[Len(ts)])
      BY <2>1 DEF CutLine
    <2>3. PICK m \in Nat : m = Len(ts) /\ m >= 1
      <3>1. PICK b : CutAt(s, ts, b)
        BY <2>2 DEF IsCut
      <3> QED  BY <3>1 DEF CutAt
    <2>4. PICK all : all = FoldLine(l) /\ Len(all) = m /\ all[m] = StripQuotes(ts[m])
      <3>1. Len(Stripped(ts)) = m /\ Stripped(ts)[m] = StripQuotes(ts[m])
        BY <2>3, StrippedIs
      <3> QED  BY <2>2, <3>1
    <2>5. m > 0 /\ (ts[m] = <<>> <=> all[m] = <<>> /\ ~ f.quote)
      BY <2>2, <2>3, <2>4 DEF LastPiece
    <2>6. Fields(s) = IF ts[m] = <<>> THEN SubSeq(all, 1, m - 1) ELSE all
      <3>1. Fields(s) = IF ts[Len(ts)] = <<>>
                        THEN SubSeq(Stripped(ts), 1, Len(Stripped(ts)) - 1)
                        ELSE Stripped(ts)
        BY <2>2, FieldsAre
      <3> QED  BY <2>2, <2>3, <2>4, <3>1
    <2>7. ASSUME f.quote, ~ Occurs(Comma, f.text)
          PROVE  Fields(s \o <<Return>>) = Fields(s)
      <3>1. ts[Len(ts)] # <<>>
        BY <2>3, <2>5, <2>7
      <3> QED  BY <2>1, <2>2, <2>7, <3>1, ReturnBehind
    <2> QED  BY <2>1, <2>4, <2>5, <2>6, <2>7 DEF ReadsBack
  <1> QED  BY <1>1, <1>2

-----------------------------------------------------------------------------
(* The calls *)

(* An answer is what the function makes of an argument it may be given.    *)
Inv ==
  /\ pc \in {"call", "done"}
  /\ fn = "_strdiv" => arg \in Lists
  /\ fn = "open_mid" => arg \in Lines
  /\ fn = "parse_path" => arg \in Names
  /\ Answered("_strdiv") => res = StrDiv(arg, Bar)
  /\ Answered("open_mid") =>
       res = [unix |-> Fields(Written(arg)),
              dos  |-> Fields(Written(arg) \o <<Return>>)]
  /\ Answered("parse_path") =>
       res = [parts |-> ParsePath(arg), out |-> OutPath(arg, "db")]

LEMMA InvInit == Init => Inv
  BY DEF Init, Inv, Answered

LEMMA InvStep == Inv /\ [Next]_vars => Inv'
  <1> SUFFICES ASSUME Inv, [Next]_vars  PROVE Inv'
    OBVIOUS
  <1>1. CASE DivideList
    BY <1>1 DEF Inv, DivideList, Call, Answered
  <1>2. CASE ReadLine
    BY <1>2 DEF Inv, ReadLine, Call, Answered
  <1>3. CASE TakePath
    BY <1>3 DEF Inv, TakePath, Call, Answered
  <1>4. CASE UNCHANGED vars
    BY <1>4 DEF Inv, Answered, vars
  <1> QED  BY <1>1, <1>2, <1>3, <1>4 DEF Next

LEMMA AlwaysInv == Spec => []Inv
  BY InvInit, InvStep, PTL DEF Spec

LEMMA ListDivided ==
  ASSUME Inv, Answered("_strdiv")
  PROVE  AreRuns(arg, Bar, Begins(arg, Bar), res)
  <1>1. arg \in Lists /\ res = StrDiv(arg, Bar)
    BY DEF Inv, Answered
  <1>2. PICK S : arg \in Seq(S)
    BY <1>1, TextsAssumption DEF IsText
  <1> QED  BY <1>1, <1>2, DivRuns

(* Results have their types, for every text: no token of _strdiv is empty  *)
(* or longer than the list it was taken from.                              *)
THEOREM TypeCorrect == Spec => []TypeOK
  <1>1. Inv => TypeOK
    <2> SUFFICES ASSUME Inv  PROVE TypeOK
      OBVIOUS
    <2>1. Answered("_strdiv") => \A k \in 1..Len(res) : Len(res[k]) \in 1..Len(arg)
      BY ListDivided DEF AreRuns
    <2> QED  BY <2>1 DEF TypeOK, Inv
  <1> QED  BY <1>1, AlwaysInv, PTL

(* For every list, _strdiv returns the longest pieces without a delimiter, *)
(* all of them and in their order.                                         *)
THEOREM DividesIntoRuns == Spec => []DivIsRuns
  <1>1. Inv => DivIsRuns
    <2> SUFFICES ASSUME Inv, Answered("_strdiv")  PROVE DivIsRuns
      BY DEF DivIsRuns
    <2>1. /\ Len(res) = Cardinality(Begins(arg, Bar))
          /\ \A p \in Begins(arg, Bar) :
               res[Cardinality(Upto(Begins(arg, Bar), p))] = RunAt(arg, Bar, p)
      BY ListDivided DEF AreRuns
    <2> QED  BY <2>1, Zenon DEF DivIsRuns, Begins, Upto, RunAt
  <1> QED  BY <1>1, AlwaysInv, PTL

(* For every path, its parts are those at the last slash and the last dot  *)
(* behind it, and the output path made of them is beside the input, has    *)
(* its base name, and is the input only if it has its extension.           *)
THEOREM PathsAreKept == Spec => []PathKept
  <1>1. Inv => PathKept
    <2> SUFFICES ASSUME Inv, Answered("parse_path")  PROVE PathKept
      BY DEF PathKept
    <2>1. arg \in Names /\ res = [parts |-> ParsePath(arg), out |-> OutPath(arg, "db")]
      BY DEF Inv, Answered
    <2>2. Kept(arg, ParsePath(arg), OutPath(arg, "db"))
      BY <2>1, TextsAssumption, PathIsKept
    <2>3. Kept(arg, res.parts, res.out)
      BY <2>1, <2>2
    <2> QED  BY <2>3 DEF PathKept, Kept
  <1> QED  BY <1>1, AlwaysInv, PTL

(* For every line of fields, what open_mid reads is the fields as they     *)
(* were written.                                                           *)
THEOREM LinesReadBack == Spec => []LineReadsBack
  <1>1. Inv => LineReadsBack
    <2> SUFFICES ASSUME Inv, Answered("open_mid")  PROVE LineReadsBack
      BY DEF LineReadsBack
    <2>1. arg \in Lines /\ res = [unix |-> Fields(Written(arg)),
                                  dos  |-> Fields(Written(arg) \o <<Return>>)]
      BY DEF Inv, Answered
    <2>2. ReadsBack(arg, Fields(Written(arg)), Fields(Written(arg) \o <<Return>>))
      BY <2>1, LinesAssumption, LineBack
    <2>3. ReadsBack(arg, res.unix, res.dos)
      BY <2>1, <2>2
    <2> QED  BY <2>3 DEF LineReadsBack, ReadsBack
  <1> QED  BY <1>1, AlwaysInv, PTL
=============================================================================
