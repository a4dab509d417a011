------------------------------- MODULE MCSaveAs -------------------------------
(* Two saves over a file that is not there or has up to three pages.       *)
EXTENDS SaveRefine

Sizes03 == 0..3
Sizes13 == 1..3
=============================================================================
