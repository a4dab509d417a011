------------------------------ MODULE AtomicSave ------------------------------
(***************************************************************************)
(* What save_as promises of the .db file it writes: it is replaced in one  *)
(* step, and a power loss takes back the last replacement or nothing.      *)
(***************************************************************************)
CONSTANT Databases

VARIABLES
  content,  \* the database a process finds in the file
  prev,     \* the one a power loss may bring back; content when there is none
  src       \* the database being saved

Init ==
  /\ content \in Databases
  /\ prev = content
  /\ src \in Databases

Begin   == src' \in Databases /\ UNCHANGED <<content, prev>>

Replace == content' = src /\ prev' = content /\ UNCHANGED src

Settle  == prev' = content /\ UNCHANGED <<content, src>>

TakeBack == content' = prev /\ UNCHANGED <<prev, src>>

Next == Begin \/ Replace \/ Settle \/ TakeBack

Spec == Init /\ [][Next]_<<content, prev, src>>
=============================================================================
