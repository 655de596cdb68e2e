---------------------------- MODULE MCActivation ----------------------------
(* Two commands, two runtime processes, two generations.          *)
EXTENDS Activation, TLC

CONSTANTS g1, g2, u1, u2, p1, p2

MCNames == {g1, g2}
MCUsers == {u1, u2}
MCActivators == {u1}
MCManagers == {u2}
MCProcs == {p1, p2}
MCSymmetry == Permutations(MCNames) \cup Permutations(MCProcs)
=============================================================================
