------------------------------ MODULE CondRefine ------------------------------
(***************************************************************************)
(* The export (CondExport) implements its promise (CondStream), also for a *)
(* database on which the steps of statements fail.                         *)
(***************************************************************************)
EXTENDS CondExport

(* The C row in hand is not done before its record is written.             *)
InHand == pc \in {"select", "scan", "write", "abort"}

Todo == {i \in Selected(db) : IF InHand THEN i >= c.pos ELSE i > c.pos}

Stage ==
  IF ok THEN "saved" ELSE IF pc \in {"open", "end"} THEN "closed" ELSE "open"

Promise == INSTANCE CondStream WITH todo <- Todo, stream <- os, stage <- Stage

(***************************************************************************)
(* The stream is built record by record, in the order of table C, each     *)
(* record with exactly the CRs, the Toll ETA and the Toll Pattern of its   *)
(* own row, whatever statements were reset, created late or missing for    *)
(* the rows before; only where a step fails the first of those rows stand  *)
(* for all.  The file is truncated first and then holds a prefix of the    *)
(* complete stream with the header that counts it                          *)
(* (parse_db_C_CR_Toll, cm_db.cpp:1532-1837).                              *)
(***************************************************************************)
ImplementsPromise == Promise!Spec
=============================================================================
