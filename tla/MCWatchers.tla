----------------------------- MODULE MCWatchers -----------------------------
(* Two processes of one subscription, and one converger.                   *)
EXTENDS Watchers

CONSTANTS w1, w2, k1, c1

MCCouple == {w1, w2}
MCKeys == {k1}
MCConverger == {c1}
=============================================================================
