------------------------------ MODULE MCTextUtil -----------------------------
(***************************************************************************)
(* All short texts over the symbols that matter to each function.          *)
(***************************************************************************)
EXTENDS TextUtil

CONSTANT MaxLen

Texts(S, n) == UNION {[1..k -> S] : k \in 0..n}

MCLists == Texts({"x", "y", Bar}, MaxLen)

(* Fields without quotes inside, with at most one comma. *)
FieldTexts == {<<>>, <<"x">>, <<"x", " ">>, <<Comma>>, <<"x", Comma, "y">>}
MCLines    == Texts([text : FieldTexts, quote : BOOLEAN], 3)

MCNames == Texts({"a", Slash, Dot, "mid", "db"}, MaxLen)
=============================================================================
