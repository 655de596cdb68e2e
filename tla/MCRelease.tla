----------------------------- MODULE MCRelease -----------------------------
(* One candidate, one final attempt, two shells.                           *)
EXTENDS Release, TLC

CONSTANTS p1, p2

MCProcs == {p1, p2}
Shells == Permutations(MCProcs)
=============================================================================
