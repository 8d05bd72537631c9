----------------------------- MODULE MCSkipList -----------------------------
(***************************************************************************)
(* An instance of SkipList for TLC: four members make a node with two on   *)
(* either side and a gap on the levels above, two scores make ties, and    *)
(* three levels show a level that goes out of use and comes back.          *)
(***************************************************************************)
EXTENDS SkipList

Scores2 == {1, 4}
=============================================================================
