------------------------------ MODULE MCSession ------------------------------
(***************************************************************************)
(* Databases for TLC: two of one table, of which parse_db_CR confuses the  *)
(* statements, a second one of a kind, a combined one, and a name that     *)
(* parse_db does not know.                                                 *)
(***************************************************************************)
EXTENDS Session

MCPaths == {"a/CR", "b/CR", "a/Toll_ETA", "a/C_CR_Toll", "a/N"}

MCKindOf ==
  [p \in MCPaths |-> CASE p \in {"a/CR", "b/CR"} -> "CR"
                       [] p = "a/Toll_ETA"       -> "Toll_ETA"
                       [] p = "a/C_CR_Toll"      -> "C_CR_Toll"
                       [] p = "a/N"              -> "none"]
=============================================================================
