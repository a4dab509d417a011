------------------------------ MODULE TextUtil -------------------------------
(***************************************************************************)
(* The string functions of addon/src/cm_db.cpp that are called: _strdiv,   *)
(* _strip_quotes, parse_path, the output paths built from its results, and *)
(* the tokens of a line as open_mid takes them.                            *)
(*                                                                         *)
(* A text is a sequence of symbols.  A symbol is a character, or stands    *)
(* for a word the functions never look into, as "mid".  A position counts  *)
(* from 1, npos is 0.                                                      *)
(***************************************************************************)
EXTENDS Integers, Sequences, FiniteSets

CONSTANTS
  Lists,    \* texts split by _strdiv
  Lines,    \* lines of a .mid file: sequences of [text, quote]
  Names     \* paths

Quote == "'"    \* stands for the double quote
Comma == ","
Bar   == "|"
Slash == "/"
Dot   == "."
Return == "\\r"

npos == 0

(* A sequence of any symbols. *)
IsText(s) == s \in Seq({s[i] : i \in DOMAIN s})

(* A field of a line: no quotes inside, and one comma at most. *)
IsField(f) ==
  LET t == f.text IN
  /\ IsText(t) /\ f.quote \in BOOLEAN
  /\ \A i \in 1..Len(t) : t[i] # Quote
  /\ \A i, j \in 1..Len(t) : t[i] = Comma /\ t[j] = Comma => i = j

ASSUME TextsAssumption ==
  \A s \in Lists \cup Names : IsText(s)
ASSUME LinesAssumption ==
  \A l \in Lines :
    /\ IsText(l)
    /\ \A k \in 1..Len(l) : IsField(l[k])

VARIABLES
  fn,   \* the function called
  arg,  \* its argument
  res,  \* its result
  pc    \* "call" or "done"

vars == <<fn, arg, res, pc>>

-----------------------------------------------------------------------------
(* std::string *)

Least(S)    == IF S = {} THEN npos ELSE CHOOSE x \in S : \A y \in S : x <= y
Greatest(S) == IF S = {} THEN npos ELSE CHOOSE x \in S : \A y \in S : x >= y

FindFirst(s, c, from) == Least({p \in from..Len(s) : s[p] = c})
FindLast(s, c)        == Greatest({p \in 1..Len(s) : s[p] = c})
From(s, p)            == SubSeq(s, p, Len(s))
Until(s, p)           == SubSeq(s, 1, p - 1)

-----------------------------------------------------------------------------
(* Fault: an empty token counts. *)
TokenKept(t) == <<t>>

(* _strdiv: empty tokens are left out. *)
Token(t) == IF t = <<>> THEN <<>> ELSE <<t>>

(* Fault: the last token is forgotten when no delimiter ends it. *)
StrDivEnded(s, delim) ==
  LET v[p \in 1..(Len(s) + 1)] ==
        LET q == FindFirst(s, delim, p) IN
          IF q = npos THEN <<>>
          ELSE Token(SubSeq(s, p, q - 1)) \o v[q + 1]
  IN  v[1]

StrDiv(s, delim) ==
  LET v[p \in 1..(Len(s) + 1)] ==
        LET q == FindFirst(s, delim, p) IN
          IF q = npos THEN Token(From(s, p))
          ELSE Token(SubSeq(s, p, q - 1)) \o v[q + 1]
  IN  v[1]

(* Fault: the first quote stays. *)
StripQuotesLate(s) ==
  LET first == FindFirst(s, Quote, 1)
      t     == IF first = npos THEN s ELSE From(s, first)
      last  == FindLast(t, Quote)
  IN  IF last = npos THEN t ELSE Until(t, last)

(* _strip_quotes: up to the first quote, then from the last one on. *)
StripQuotes(s) ==
  LET first == FindFirst(s, Quote, 1)
      t     == IF first = npos THEN s ELSE From(s, first + 1)
      last  == FindLast(t, Quote)
  IN  IF last = npos THEN t ELSE Until(t, last)

(* std::getline(is, token, ',') until the stream is exhausted. *)
Tokens(s) ==
  LET v[p \in 1..(Len(s) + 1)] ==
        LET q == FindFirst(s, Comma, p) IN
          IF p > Len(s) THEN <<>>
          ELSE IF q = npos THEN <<From(s, p)>>
          ELSE <<SubSeq(s, p, q - 1)>> \o v[q + 1]
  IN  v[1]

(* The fields of a line, as open_mid binds them. *)
Fields(s) == [k \in 1..Len(Tokens(s)) |-> StripQuotes(Tokens(s)[k])]

-----------------------------------------------------------------------------
(* parse_path *)

(* Fault: the extension starts at the first dot. *)
ParsePathFirstDot(path) ==
  LET pos  == FindLast(path, Slash)
      file == From(path, pos + 1)
      dot  == FindFirst(file, Dot, 1)
  IN  [dir  |-> IF pos = npos THEN <<>> ELSE Until(path, pos),
       base |-> IF dot = npos THEN file ELSE Until(file, dot),
       ext  |-> IF dot = npos THEN <<>> ELSE From(file, dot + 1)]

ParsePath(path) ==
  LET pos  == FindLast(path, Slash)
      file == From(path, pos + 1)
      dot  == FindLast(file, Dot)
  IN  [dir  |-> IF pos = npos THEN <<>> ELSE Until(path, pos),
       base |-> IF dot = npos THEN file ELSE Until(file, dot),
       ext  |-> IF dot = npos THEN <<>> ELSE From(file, dot + 1)]

(* The path that import_mid and parse_db write to. *)
OutPath(path, ext) ==
  LET p    == ParsePath(path)
      file == p.base \o <<Dot, ext>>
  IN  IF p.dir = <<>> THEN file ELSE p.dir \o <<Slash>> \o file

-----------------------------------------------------------------------------
(* One call of one function on one argument. *)

(* A line as the file has it. *)
Written(l) ==
  LET piece(f) == IF f.quote THEN <<Quote>> \o f.text \o <<Quote>> ELSE f.text
      w[k \in 0..Len(l)] ==
        IF k = 0 THEN <<>>
        ELSE w[k - 1] \o ((IF k = 1 THEN <<>> ELSE <<Comma>>) \o piece(l[k]))
  IN  w[Len(l)]

Init ==
  /\ \/ fn = "_strdiv" /\ arg \in Lists
     \/ fn = "open_mid" /\ arg \in Lines
     \/ fn = "parse_path" /\ arg \in Names
  /\ res = <<>>
  /\ pc = "call"

Call(f, r) == fn = f /\ pc = "call" /\ pc' = "done" /\ res' = r
                /\ UNCHANGED <<fn, arg>>

DivideList == Call("_strdiv", StrDiv(arg, Bar))

ReadLine == Call("open_mid", [unix |-> Fields(Written(arg)),
                              dos  |-> Fields(Written(arg) \o <<Return>>)])

TakePath == Call("parse_path", [parts |-> ParsePath(arg), out |-> OutPath(arg, "db")])

Next == DivideList \/ ReadLine \/ TakePath \/ (pc = "done" /\ UNCHANGED vars)

Spec == Init /\ [][Next]_vars

-----------------------------------------------------------------------------
(* Properties *)

Answered(f) == fn = f /\ pc = "done"
Occurs(c, s) == \E i \in 1..Len(s) : s[i] = c

(* Results have their types, and no token of _strdiv (305-333) is empty or *)
(* longer than the text.                                                   *)
TypeOK ==
  /\ pc \in {"call", "done"}
  /\ Answered("_strdiv") => \A k \in 1..Len(res) : Len(res[k]) \in 1..Len(arg)

(* _strdiv (305-333) returns the longest pieces without a delimiter, all   *)
(* of them and in their order, whatever delimiters stand at the ends or    *)
(* next to each other.  Lanes and the services of a junction are counted   *)
(* by it.                                                                  *)
DivIsRuns ==
  Answered("_strdiv") =>
    LET starts == {p \in 1..Len(arg) :
                     arg[p] # Bar /\ (p = 1 \/ arg[p - 1] = Bar)}
        Run(p) == LET q == FindFirst(arg, Bar, p)
                  IN  IF q = npos THEN From(arg, p) ELSE SubSeq(arg, p, q - 1)
        Rank(p) == Cardinality({q \in starts : q <= p})
    IN  /\ Len(res) = Cardinality(starts)
        /\ \A p \in starts : res[Rank(p)] = Run(p)

(* What is left of one field of a line: a comma splits it, and then of a   *)
(* quoted one the second piece is lost.                                    *)
Pieces(f) ==
  LET c == FindFirst(f.text, Comma, 1) IN
    IF c = npos THEN <<f.text>>
    ELSE <<Until(f.text, c), IF f.quote THEN <<>> ELSE From(f.text, c + 1)>>

FoldLine(l) ==
  LET w[k \in 0..Len(l)] == IF k = 0 THEN <<>> ELSE w[k - 1] \o Pieces(l[k])
  IN  w[Len(l)]

(* Fields go through a line and back: what open_mid (920-934) binds is     *)
(* what was between the commas of the line, without the quotes; only an    *)
(* empty last field without quotes is no field at all.  A quoted last      *)
(* field is the same in a file with DOS line ends.  (The pieces of a       *)
(* quoted text with a comma are the forms that MidImport starts from.)     *)
LineReadsBack ==
  Answered("open_mid") =>
    LET all == FoldLine(arg)
        n   == Len(all)
        cut == n > 0 /\ all[n] = <<>> /\ ~arg[Len(arg)].quote
        last == arg[Len(arg)]
    IN  /\ res.unix = IF cut THEN SubSeq(all, 1, n - 1) ELSE all
        /\ arg # <<>> /\ last.quote /\ ~Occurs(Comma, last.text)
             => res.dos = res.unix

(* A path is taken apart at its last slash and the last dot after it, and  *)
(* the path that import_mid and parse_db write to (879-884, 1184-1191)     *)
(* reads back as the same directory and base name.  It is beside the       *)
(* input, except for a file in the root directory, and it is the input     *)
(* only if that had its extension already.                                 *)
PathKept ==
  Answered("parse_path") =>
    LET p    == res.parts
        at   == FindLast(arg, Slash)
        file == From(arg, at + 1)
    IN  /\ file = p.base \o (IF Occurs(Dot, file) THEN <<Dot>> ELSE <<>>) \o p.ext
        /\ ~Occurs(Dot, p.ext) /\ ~Occurs(Slash, file)
        /\ ParsePath(res.out) = [p EXCEPT !.ext = <<"db">>]
        /\ at # 1 => /\ FindLast(res.out, Slash) = at
                     /\ res.out = arg => p.ext = <<"db">>
=============================================================================
