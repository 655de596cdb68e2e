---------------------------- MODULE Generations ----------------------------
(***************************************************************************)
(* Generations on disk (deploy/generation.py, plan.py, layout.py,           *)
(* pointer.py): building one in place, removing and collecting others, all  *)
(* under one deployment lock that is tried once and dies with its holder.   *)
(*                                                                          *)
(* A command is a process of its own.  It executes the generation that      *)
(* current led to when it was started, or none of ours (the bootstrap).     *)
(* Holding a generation is read from the process table, not from a lock.    *)
(***************************************************************************)
EXTENDS Naturals, FiniteSets

CONSTANTS
    Names,      \* generation names
    Users,      \* commands that may run at a time
    Installed,  \* the commands that may be started through current
    Bootstraps, \* the commands that may be started from elsewhere
    Procs,      \* runtime processes: runs, maintenance and watchers
    Retain,     \* the values of --retain
    MaxStamp,   \* bound on the builds that are sealed
    MaxEvents,  \* bound on crashes and failures
    NoName, Nobody

ASSUME GenerationAssumption ==
    /\ IsFiniteSet(Names)
    /\ Retain \subseteq Nat /\ MaxStamp \in Nat /\ MaxEvents \in Nat
    /\ NoName \notin Names /\ Nobody \notin Users \cup Procs
    /\ Users \cap Procs = {} /\ Installed \subseteq Users /\ Bootstraps \subseteq Users

VARIABLES
    dir,      \* name -> "absent", "partial" (no validation record) or "sealed"
    stamp,    \* name -> when it was validated; 0 when it is not sealed
    clock,    \* the last stamp given
    relics,   \* a half removed directory still holds a validation record
    current,  \* where the current link leads; NoName when there is no link
    deployer, \* holder of the deployment lock
    proc,     \* process -> what it is and the generation it executes
    home,     \* command -> the generation it executes
    pc, name, \* command -> its next step, and the generation it works on
    todo,     \* command -> the generations it still has to remove
    events    \* crashes and failures so far

diskVars == <<dir, stamp, clock, relics>>
generationVars == <<dir, stamp, clock, relics, current, deployer, proc, home, pc, name, todo, events>>

\* What a runtime process is.  A watcher is idle or has an active run.
Kinds == {"none", "run", "maintain", "idle", "busy"}
Gone == [kind |-> "none", gen |-> NoName]
Watching == {"idle", "busy"}

Executing == [x \in Procs \cup Users |-> IF x \in Procs THEN proc[x].gen ELSE home[x]]
Sealed == {n \in Names : dir[n] = "sealed"}

\* generation.load: the stamp stands for the whole validation record.
NoGeneration == [name |-> NoName, stamp |-> 0]
Generation(n) == [name |-> n, stamp |-> stamp[n]]
Loads(g) == g.name \in Sealed /\ stamp[g.name] = g.stamp

\* pointer.status: the link is missing or leads to a directory of versions.
PointerIsUsable == current \in {NoName} \cup {n \in Names : dir[n] # "absent"}

\* _process_holders
Held(n) == \E x \in Procs \cup Users : Executing[x] = n

\* plan.collectable; the order is that of validation.
Superseded == Sealed \ {current}
Kept(retain) == {n \in Superseded :
    Cardinality({m \in Superseded : stamp[m] > stamp[n]}) < retain}
Collectable(retain) == {n \in Superseded \ Kept(retain) : ~Held(n)}

GenerationsInit ==
    /\ dir \in [Names -> {"absent", "sealed"}]
    /\ clock = Cardinality(Names)
    /\ stamp \in [Names -> 0 .. clock]
    /\ \A n \in Names : stamp[n] = 0 <=> dir[n] = "absent"
    /\ \A n, m \in Sealed : stamp[n] = stamp[m] => n = m
    /\ relics = FALSE
    /\ current \in Sealed \cup {NoName}
    /\ deployer = Nobody
    /\ proc = [p \in Procs |-> Gone]
    /\ home = [u \in Users |-> NoName]
    /\ pc = [u \in Users |-> "idle"]
    /\ name = [u \in Users |-> NoName]
    /\ todo = [u \in Users |-> {}]
    /\ events = 0

Goto(u, stage) == pc' = [pc EXCEPT ![u] = stage]
Event == events < MaxEvents /\ events' = events + 1
Lock(u) == deployer = Nobody /\ deployer' = u
Unlock(u) == deployer' = IF deployer = u THEN Nobody ELSE deployer
Ends(u) == Goto(u, "end") /\ Unlock(u)

---------------------------------------------------------------------------
(* Commands begin and end *)

Open(u) ==
    /\ pc[u] = "idle"
    /\ Goto(u, "ready")
    /\ \/ u \in Installed /\ current # NoName /\ home' = [home EXCEPT ![u] = current]
       \/ u \in Bootstraps /\ UNCHANGED home
    /\ UNCHANGED <<diskVars, current, deployer, proc, name, todo, events>>

Quit(u) ==
    /\ pc[u] = "end"
    /\ Goto(u, "idle")
    /\ home' = [home EXCEPT ![u] = NoName]
    /\ name' = [name EXCEPT ![u] = NoName]
    /\ todo' = [todo EXCEPT ![u] = {}]
    /\ UNCHANGED <<diskVars, current, deployer, proc, events>>

---------------------------------------------------------------------------
(* build: discard what an interrupted build left, populate, validate, seal *)

Build(u) == \E n \in Names :
    /\ pc[u] = "ready" /\ Lock(u)
    /\ dir[n] # "sealed" /\ clock < MaxStamp
    /\ dir' = [dir EXCEPT ![n] = "partial"]
    /\ Goto(u, "populate") /\ name' = [name EXCEPT ![u] = n]
    /\ UNCHANGED <<stamp, clock, relics, current, proc, home, todo, events>>

\* The record is written last.
Seal(u) ==
    /\ pc[u] = "populate"
    /\ clock' = clock + 1
    /\ dir' = [dir EXCEPT ![name[u]] = "sealed"]
    /\ stamp' = [stamp EXCEPT ![name[u]] = clock']
    /\ Ends(u)
    /\ UNCHANGED <<relics, current, proc, home, name, todo, events>>

\* populate or validate raises.
BuildFails(u) ==
    /\ pc[u] = "populate"
    /\ Event /\ Ends(u)
    /\ UNCHANGED <<diskVars, current, proc, home, name, todo>>

---------------------------------------------------------------------------
(* remove and collect *)

\* The names are listed and loaded; a relic's name does not load.
Collect(u) ==
    /\ pc[u] = "ready" /\ Lock(u)
    /\ PointerIsUsable /\ ~relics
    /\ \E retain \in Retain : todo' = [todo EXCEPT ![u] = Collectable(retain)]
    /\ Goto(u, "remove")
    /\ UNCHANGED <<diskVars, current, proc, home, name, events>>

Remove(u) == \E n \in Sealed \ {current} :
    /\ pc[u] = "ready" /\ Lock(u)
    /\ PointerIsUsable
    /\ todo' = [todo EXCEPT ![u] = {n}]
    /\ Goto(u, "remove")
    /\ UNCHANGED <<diskVars, current, proc, home, name, events>>

\* Faulty variant: the process table is not read again.
CheckNoHolders(u) == \E n \in todo[u] :
    /\ pc[u] = "remove"
    /\ Goto(u, "rename")
    /\ name' = [name EXCEPT ![u] = n]
    /\ UNCHANGED <<diskVars, current, deployer, proc, home, todo, events>>

\* _remove_locked loads the generation and takes the inventory again.
CheckHolders(u) == \E n \in todo[u] :
    /\ pc[u] = "remove"
    /\ IF dir[n] # "sealed" \/ Held(n) THEN Ends(u) /\ UNCHANGED name
       ELSE /\ Goto(u, "rename") /\ UNCHANGED deployer
            /\ name' = [name EXCEPT ![u] = n]
    /\ UNCHANGED <<diskVars, current, proc, home, todo, events>>

\* The directory gets a hidden name.
Rename(u) ==
    /\ pc[u] = "rename"
    /\ dir' = [dir EXCEPT ![name[u]] = "absent"]
    /\ stamp' = [stamp EXCEPT ![name[u]] = 0]
    /\ Goto(u, "delete")
    /\ UNCHANGED <<clock, relics, current, deployer, proc, home, name, todo, events>>

\* rmtree
Delete(u) ==
    /\ pc[u] = "delete"
    /\ todo' = [todo EXCEPT ![u] = @ \ {name[u]}]
    /\ Goto(u, "remove")
    /\ UNCHANGED <<diskVars, current, deployer, proc, home, name, events>>

\* rmtree stops at a file; the record may or may not be gone by then.
DeleteFails(u) ==
    /\ pc[u] = "delete"
    /\ relics' \in {relics, TRUE}
    /\ Event /\ Ends(u)
    /\ UNCHANGED <<dir, stamp, clock, current, proc, home, name, todo>>

Removed(u) ==
    /\ pc[u] = "remove" /\ todo[u] = {}
    /\ Ends(u)
    /\ UNCHANGED <<diskVars, current, proc, home, name, todo, events>>

\* The command dies: its lock is free, the disk stays as it is.
Die(u) ==
    /\ pc[u] # "idle"
    /\ Event /\ Unlock(u)
    /\ relics' \in {relics, relics \/ pc[u] = "delete"}
    /\ Goto(u, "idle")
    /\ home' = [home EXCEPT ![u] = NoName]
    /\ name' = [name EXCEPT ![u] = NoName]
    /\ todo' = [todo EXCEPT ![u] = {}]
    /\ UNCHANGED <<dir, stamp, clock, current, proc>>

Manage(u) ==
    \/ Build(u) \/ Seal(u) \/ BuildFails(u)
    \/ Collect(u) \/ Remove(u) \/ CheckHolders(u) \/ Rename(u)
    \/ Delete(u) \/ DeleteFails(u) \/ Removed(u)
=============================================================================
