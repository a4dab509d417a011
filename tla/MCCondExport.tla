---------------------------- MODULE MCCondExport -----------------------------
(***************************************************************************)
(* Databases for TLC: tables C of up to MaxRows or three rows over two     *)
(* IDs, with the combinations of joined tables below.                      *)
(***************************************************************************)
EXTENDS CondRefine

CONSTANT MaxRows

MCIds == {"x", "y"}

Row(cond, crid) == [cond |-> cond, crid |-> crid, bad |-> FALSE]
Join(key)       == [key |-> key, bad |-> FALSE]
Eta(key, m, n)  == [key |-> key, bad |-> FALSE, mode |-> m, card |-> n]
Bad(r)          == [r EXCEPT !.bad = TRUE]

MCRows == {Row("x", "x"), Row("x", "y"), Row("y", "x"), Row("", "y"),
           Row("y", ""), Row("", ""), Bad(Row("x", ""))}

(* Short tables, and longer ones that come back to the IDs of a row.       *)
Comebacks == {<<r, s, r>> : r, s \in MCRows}
Cs == UNION {[1..n -> MCRows] : n \in 0..MaxRows} \cup Comebacks

(* More CRs than a record has room for, with another ID in between.        *)
ManyCRs == [k \in 1..17 |-> Join(IF k = 3 THEN "y" ELSE "x")]
FewCRs  == <<Join("x"), Join("y"), Join("x")>>

Etas == {<<Eta("x", 9, 0), Eta("y", 0, 8)>>,  \* too many; just fits
         <<Eta("x", 1, 0), Eta("x", 2, 0)>>,  \* twice the same condition
         <<Eta("x", 3, 0), Eta("y", 5, 4)>>,
         <<Eta("y", 0, 0), Eta("x", 2, 1)>>}  \* no lane; both columns
Ptns == {<<Join("y"), Join("x")>>, <<Join("x"), Join("x")>>}

(* Complete databases; ones with a number that does not convert; ones      *)
(* without some of the tables.                                             *)
Whole(crs, etas) ==
  {<<cr, eta, ptn>> : cr \in crs, eta \in etas, ptn \in Ptns}

Broken ==
  { <<<<Join("x"), Bad(Join("x"))>>, <<Eta("x", 3, 0)>>, <<Join("x")>>>>,
    <<<<Join("x")>>, <<Bad(Eta("x", 3, 0))>>, <<Join("x")>>>>,
    <<<<Join("x")>>, <<Eta("y", 3, 0)>>, <<Bad(Join("y"))>>>> }

Full(cs, w) ==
  [C |-> cs, CR |-> w[1], Toll_ETA |-> w[2], Toll_Pattern |-> w[3]]

Sample == <<FewCRs, <<Eta("x", 3, 0)>>, <<Join("x")>>>>

Missing(cs) ==
  {[t \in Tables \ T |-> Full(cs, Sample)[t]] :
     T \in {{t} : t \in Tables} \cup {Joined}}

MCDatabases ==
  UNION {Missing(cs) : cs \in Cs}
    \cup {Full(cs, w) :
            cs \in Cs, w \in Whole({FewCRs, ManyCRs}, Etas) \cup Broken}

(* The databases whose steps may fail: tables C that come back to the IDs  *)
(* of a row, of which the joined tables have a row each, or one of them    *)
(* several and the other none.                                             *)
Faultable ==
  {<<FewCRs, <<Eta("x", 9, 0), Eta("y", 0, 8)>>, <<Join("y"), Join("x")>>>>,
   <<FewCRs, <<Eta("x", 1, 0), Eta("x", 2, 0)>>, <<Join("x"), Join("x")>>>>}

MCFaulty == {Full(cs, w) : cs \in Comebacks, w \in Faultable}

MCNoneFaulty == {}

MCLeftover == {0, 15}
MCOldBin   == <<[unit |-> "old"]>>
=============================================================================
