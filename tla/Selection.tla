----------------------------- MODULE Selection -----------------------------
(***************************************************************************)
(* What deployment promises (deploy/generation.py, deploy/pointer.py,       *)
(* docs/decisions/deployment-generations.md): immutable generations stand   *)
(* beside each other, a stable selection names a complete one or nothing,   *)
(* and a generation is taken away only when it is neither selected nor      *)
(* executed by a process.                                                   *)
(***************************************************************************)
CONSTANTS
    Names,      \* names of generations
    Processes,  \* processes of this host that may execute from a generation
    NoName      \* no generation

VARIABLES
    sealed,    \* generations with a validation record
    selected,  \* the generation that current leads to
    executing  \* process -> the generation whose files it executes

selectionVars == <<sealed, selected, executing>>

Init ==
    /\ sealed \subseteq Names
    /\ selected \in sealed \cup {NoName}
    /\ executing \in [Processes -> {NoName}]

InUse(n) == \E p \in Processes : executing[p] = n

Seal(n) == n \notin sealed /\ sealed' = sealed \cup {n} /\ UNCHANGED <<selected, executing>>

Select(n) == n \in sealed /\ selected' = n /\ UNCHANGED <<sealed, executing>>

Clear == selected' = NoName /\ UNCHANGED <<sealed, executing>>

Remove(n) ==
    /\ n \in sealed /\ n # selected /\ ~InUse(n)
    /\ sealed' = sealed \ {n}
    /\ UNCHANGED <<selected, executing>>

\* A process starts from a complete generation, and ends.
Launch(p, n) ==
    /\ executing[p] = NoName /\ n \in sealed
    /\ executing' = [executing EXCEPT ![p] = n]
    /\ UNCHANGED <<sealed, selected>>

\* Processes end; several may be ended together.
Exit ==
    /\ \A p \in Processes : executing'[p] \in {executing[p], NoName}
    /\ executing' \in [Processes -> Names \cup {NoName}]
    /\ UNCHANGED <<sealed, selected>>

Next ==
    \/ Exit \/ Clear
    \/ \E n \in Names : Seal(n) \/ Select(n) \/ Remove(n)
    \/ \E p \in Processes, n \in Names : Launch(p, n)

Spec == Init /\ [][Next]_selectionVars
=============================================================================
