------------------------------ MODULE SaveRefine ------------------------------
(***************************************************************************)
(* The save with journal, failures and crashes (SaveAs) implements the     *)
(* replacement in one step (AtomicSave).                                   *)
(***************************************************************************)
EXTENDS SaveAs

Now == View(files.db, files.jrnl)

(* The databases a power loss may bring back; the refinement holds only    *)
(* when there is one at the most besides the present one.                  *)
Before == {View(e.db, e.jrnl) : e \in undo} \ {Now}

Earlier == IF Before = {} THEN Now ELSE CHOOSE d \in Before : TRUE

Saved == {Image(v, n) : v \in 0..MaxSaves,
                        n \in OldSizes \cup NewSizes \cup {0}}

Replaced ==
  INSTANCE AtomicSave WITH
    Databases <- Saved, content <- Now, prev <- Earlier, src <- src

(* Whenever the program is killed, the power fails or a step of the save   *)
(* fails, a process that opens the file finds the whole database of one    *)
(* save, the last that was finished or, after a power loss only, the one   *)
(* before it, and never a mixture of two; what it does to the files        *)
(* changes nothing of this, however often it is interrupted                *)
(* (CCmSqlite::backup, cm_sqlite.cpp:116-148, over the journal of          *)
(* sqlite3.c).                                                             *)
OldOrNew == Replaced!Spec
==============================================================================
