--------------------------- MODULE MCMaintenance ---------------------------
(* A user's process and one maintainer, on one agent whose definition has   *)
(* one version, is broken or is missing.                                    *)
EXTENDS Maintenance

CONSTANTS m1, u1, a1, v1

MCOneMaintainer == {m1}
MCUsers == {u1}
MCAgents == {a1}
MCVersions == {v1}

(* The epoch only grows and every maintenance adds to it, so behaviours in  *)
(* which maintenance goes on for ever are infinite.  Nothing depends on the *)
(* numbers, only on their order, equality and parity: when every number in  *)
(* use is two or more, all of them come down by two.                        *)

PlanInUse(m) == pc[m] # "idle"

Renumber ==
    /\ epoch >= 2
    /\ \A m \in Maintainers : PlanInUse(m) => plan[m].epoch >= 2
    /\ epoch' = epoch - 2
    /\ plan' = [m \in Maintainers |->
           IF PlanInUse(m) THEN [plan[m] EXCEPT !.epoch = @ - 2] ELSE plan[m]]
    /\ UNCHANGED <<gate, started, triggers, world, pc, todo, request, events, calm>>

MCSpec == Init /\ [][Next \/ Renumber]_vars /\ Fairness /\ WF_vars(Renumber)
=============================================================================
