----------------------------- MODULE MCSkipList -----------------------------
(* An instance of SkipList for TLC: three bins, two sizes, three levels.  *)
EXTENDS SkipList

MCBin == 1 .. 3
MCSize == 1 .. 2

=============================================================================
