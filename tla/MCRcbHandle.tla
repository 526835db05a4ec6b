---------------------------- MODULE MCRcbHandle ----------------------------
(* A mirror of two attributes, with refreshes and sets in flight together. *)
(* Calls of a kind are interchangeable; only safety is checked.            *)
EXTENDS RcbHandle, TLC

CallSymmetry == Permutations(Refreshes) \cup Permutations(Sets)
BothFields == {Fields}
=============================================================================
