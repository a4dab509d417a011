---------------------------- MODULE MCMidImport ----------------------------
(***************************************************************************)
(* Two tables: Toll_Pattern (three columns, keyed) and CR (five columns,   *)
(* not keyed).  A file is any sequence of up to MaxLines lines of a small  *)
(* set that holds one line of every shape the importer can meet.           *)
(***************************************************************************)
EXTENDS MidImport

CONSTANT MaxLines

MCText  == {"a", "b", "k"}
MCKinds == {"Toll_Pattern", "CR"}

Val(t)   == [quote |-> "none",  text |-> t]
Quo(t)   == [quote |-> "both",  text |-> t]
Opens(t) == [quote |-> "open",  text |-> t]
Closes   == [quote |-> "close", text |-> "b"]

PatternLines ==
  { <<Quo("a"), Val("a"), Quo("b")>>,                   \* complete
    <<Quo("a"), Val("b"), Val("k")>>,                   \* the same key
    <<Quo("b"), Quo("k"), Val("k")>>,                   \* another key
    <<Val("k"), Val("a")>>,                             \* a column short
    <<Quo("k"), Val("b"), Val("")>>,                    \* last one empty
    <<Val("b"), Val("a"), Quo("")>>,                    \* and quoted
    <<Quo("k"), Opens("a"), Closes, Val("b")>>,         \* comma in quotes
    <<Val("")>> }                                       \* an empty line

CRLines ==
  { <<Val("k"), Quo("a"), Val("a"), Val("b"), Val("a")>>,
    <<Val("k"), Quo("b"), Val(""), Val("a"), Val("b"), Val("k")>>,
    <<Val("a"), Val(""), Val("b")>>,
    <<Val("")>> }

UpTo(n, S) == UNION {[1..m -> S] : m \in 0..n}

MCFiles == [k \in MCKinds |->
              UpTo(MaxLines, IF k = "CR" THEN CRLines ELSE PatternLines)]
=============================================================================
