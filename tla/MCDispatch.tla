----------------------------- MODULE MCDispatch -----------------------------
(***************************************************************************)
(* Two processes that may fire or converge, one watcher, one agent.  The    *)
(* exclusion between agents is proved in DispatchProofs; one agent keeps    *)
(* the graph small enough for the liveness properties.                      *)
(***************************************************************************)
EXTENDS Dispatch

CONSTANTS p1, p2, w1, a1

MCPids == {p1, p2, w1}
MCWatchers == {w1}
MCAgents == {a1}
=============================================================================
