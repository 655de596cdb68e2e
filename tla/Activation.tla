----------------------------- MODULE Activation -----------------------------
(***************************************************************************)
(* Activation of a generation (cli/commands/install_generation.py), with    *)
(* the commands that build and remove generations beside it: quiesce the    *)
(* runtime under the gate, move current, release the gate, converge through *)
(* the selected generation; and when a step fails, go through the same      *)
(* steps back to the generation that was selected before.                   *)
(*                                                                          *)
(* The host may have no registered repository; then there is nothing to     *)
(* stop or converge.  Triggers are the runtime's triggers as one: withdrawn *)
(* or as intent asks (Maintenance follows them one by one).                 *)
(***************************************************************************)
EXTENDS Generations

CONSTANTS
    Activators, \* the commands that may activate a generation
    Managers,   \* the commands that may build and remove generations
    Junctions   \* TRUE on Windows: current is removed, then made again

ASSUME ActivationAssumption ==
    Activators \subseteq Users /\ Managers \subseteq Users /\ Junctions \in BOOLEAN

VARIABLES
    registered, \* repositories are registered
    triggers,   \* the runtime's triggers are installed
    operation,  \* holder of the activation operation lock
    gate,       \* holder of the launch gate
    pausing,    \* the command that pauses watchers
    target,     \* command -> the generation it activates, as loaded
    prev,       \* command -> the generation that was selected before
    phase,      \* command -> "forward" or "back"
    child,      \* command -> its `internal maintain` process
    outcome     \* command -> what it reports

activationVars == <<registered, triggers, operation, gate, pausing, target, prev,
                    phase, child, outcome>>
vars == <<generationVars, activationVars>>

Stages == {"idle", "ready", "end", "populate", "remove", "rename", "delete",
           "operation", "gate", "check", "stop", "drain", "select", "link", "leave",
           "converge", "await", "report"}
\* A command reports success, or that it has gone back, whether its maintenance
\* has converged or was deferred: the model keeps apart what the program does not.
Success == {"ok", "ok, deferred"}
Return == {"restored", "restored, deferred"}
Outcomes == {"none", "refused", "unrestored"} \cup Success \cup Return
GenerationType == [name : Names \cup {NoName}, stamp : Nat]

TypeOK ==
    /\ dir \in [Names -> {"absent", "partial", "sealed"}]
    /\ stamp \in [Names -> Nat] /\ clock \in Nat /\ relics \in BOOLEAN
    /\ current \in Names \cup {NoName} /\ deployer \in Users \cup {Nobody}
    /\ proc \in [Procs -> [kind : Kinds, gen : Names \cup {NoName}]]
    /\ home \in [Users -> Names \cup {NoName}] /\ name \in [Users -> Names \cup {NoName}]
    /\ pc \in [Users -> Stages] /\ todo \in [Users -> SUBSET Names] /\ events \in Nat
    /\ registered \in BOOLEAN /\ triggers \in BOOLEAN
    /\ operation \in Users \cup {Nobody} /\ gate \in Users \cup Procs \cup {Nobody}
    /\ pausing \in Users \cup {Nobody}
    /\ target \in [Users -> GenerationType] /\ prev \in [Users -> GenerationType]
    /\ phase \in [Users -> {"forward", "back"}]
    /\ child \in [Users -> Procs \cup {Nobody}] /\ outcome \in [Users -> Outcomes]
    /\ \A u \in Users : deployer = u <=> pc[u] \in {"populate", "remove", "rename", "delete", "link"}
    /\ \A u \in Users : gate = u <=> pc[u] \in {"check", "stop", "drain", "select", "link", "leave"}

Init ==
    /\ GenerationsInit
    /\ registered \in BOOLEAN
    /\ triggers = (registered /\ current # NoName)
    /\ operation = Nobody /\ gate = Nobody /\ pausing = Nobody
    /\ target = [u \in Users |-> NoGeneration]
    /\ prev = [u \in Users |-> NoGeneration]
    /\ phase = [u \in Users |-> "forward"]
    /\ child = [u \in Users |-> Nobody]
    /\ outcome = [u \in Users |-> "none"]

Goal(u) == IF phase[u] = "forward" THEN target[u] ELSE prev[u]
Maintaining == \E p \in Procs : proc[p].kind = "maintain"
Idle == {p \in Procs : proc[p].kind = "idle"}
Free(lock, x) == IF lock = x THEN Nobody ELSE lock

Reports(u, what) == outcome' = [outcome EXCEPT ![u] = what] /\ Goto(u, "report")
Completed(u) == IF phase[u] = "forward" THEN "ok" ELSE "restored"
PutOff(u) == IF phase[u] = "forward" THEN "ok, deferred" ELSE "restored, deferred"

\* Where an activation goes on when a step raises.  What was not disturbed
\* needs no recovery; the way back is tried once.
Recovers(u) ==
    IF phase[u] = "forward" /\ pc[u] \notin {"operation", "gate", "check"}
      THEN /\ phase' = [phase EXCEPT ![u] = "back"]
           /\ Goto(u, "gate") /\ UNCHANGED outcome
      ELSE /\ Reports(u, IF phase[u] = "forward" THEN "refused" ELSE "unrestored")
           /\ UNCHANGED phase

\* A step raises; the locks it was taken under are released.
Raises(u) ==
    /\ Recovers(u)
    /\ gate' = Free(gate, u) /\ pausing' = Free(pausing, u)
    /\ deployer' = Free(deployer, u)

---------------------------------------------------------------------------
(* The activating command *)

\* The command has loaded the generation, or has just built it.
Activate(u) == \E n \in Sealed :
    /\ u \in Activators /\ pc[u] = "ready"
    /\ target' = [target EXCEPT ![u] = Generation(n)]
    /\ Goto(u, "operation")
    /\ UNCHANGED <<diskVars, current, deployer, proc, home, name, todo, events,
                   registered, triggers, operation, gate, pausing, prev, phase, child, outcome>>

TakeOperation(u) ==
    /\ pc[u] = "operation"
    /\ IF operation = Nobody THEN operation' = u /\ Goto(u, "gate")
       ELSE Goto(u, "end") /\ UNCHANGED operation
    /\ UNCHANGED <<diskVars, current, deployer, proc, home, name, todo, events,
                   registered, triggers, gate, pausing, target, prev, phase, child, outcome>>

\* The gate is tried once.
EnterGate(u) ==
    /\ pc[u] = "gate"
    /\ IF gate = Nobody
         THEN /\ gate' = u /\ Goto(u, "check")
              /\ pausing' = IF phase[u] = "back" THEN u ELSE pausing
              /\ UNCHANGED <<phase, outcome, deployer>>
         ELSE Raises(u)
    /\ UNCHANGED <<diskVars, current, proc, home, name, todo, events,
                   registered, triggers, operation, target, prev, child>>

\* Load both generations, look for maintenance, and collect intent; a
\* repository that cannot be read refuses the activation.
CheckForward(u) ==
    /\ pc[u] = "check" /\ phase[u] = "forward"
    /\ \/ Raises(u) /\ UNCHANGED <<prev, pausing>>
       \/ /\ Loads(target[u]) /\ PointerIsUsable /\ ~Maintaining
          /\ current # NoName => current \in Sealed
          /\ registered \/ Idle = {}
          /\ prev' = [prev EXCEPT ![u] = IF current = NoName THEN NoGeneration
                                         ELSE Generation(current)]
          /\ Goto(u, IF registered THEN "stop" ELSE "select")
          /\ pausing' = IF registered THEN u ELSE pausing
          /\ UNCHANGED <<phase, outcome, gate, deployer>>
    /\ UNCHANGED <<diskVars, current, proc, home, name, todo, events,
                   registered, triggers, operation, target, child>>

\* On the way back the runtime is stopped again when the selection had moved.
CheckBack(u) ==
    LET moved == registered /\ current \notin {NoName, prev[u].name}
    IN /\ pc[u] = "check" /\ phase[u] = "back"
       /\ IF moved /\ Maintaining THEN Raises(u)
          ELSE /\ Goto(u, IF moved THEN "stop" ELSE "select")
               /\ UNCHANGED <<phase, outcome, gate, pausing, deployer>>
       /\ UNCHANGED <<diskVars, current, proc, home, name, todo, events,
                      registered, triggers, operation, target, prev, child>>

\* _stop_runtime: triggers first, so that nothing new is launched.
Withdraw(u) ==
    /\ pc[u] = "stop"
    /\ triggers' = FALSE
    /\ IF Maintaining THEN Raises(u)
       ELSE Goto(u, "drain") /\ UNCHANGED <<phase, outcome, gate, pausing, deployer>>
    /\ UNCHANGED <<diskVars, current, proc, home, name, todo, events,
                   registered, operation, target, prev, child>>

\* Faulty variant: what the host refuses to withdraw is not looked at.
WithdrawFailsUnseen(u) ==
    /\ pc[u] = "stop"
    /\ Event /\ Goto(u, "drain")
    /\ triggers' \in {triggers, FALSE}
    /\ UNCHANGED <<diskVars, current, deployer, proc, home, name, todo, registered, operation,
                   gate, pausing, target, prev, phase, child, outcome>>

WithdrawFails(u) ==
    /\ pc[u] = "stop"
    /\ Event /\ Raises(u)
    /\ triggers' \in {triggers, FALSE}
    /\ UNCHANGED <<diskVars, current, proc, home, name, todo,
                   registered, operation, target, prev, child>>

\* Idle watchers are ended after a grace; running ones are drained later.
Drain(u) ==
    /\ pc[u] = "drain"
    /\ proc' = [p \in Procs |-> IF p \in Idle THEN Gone ELSE proc[p]]
    /\ IF Maintaining THEN Raises(u)
       ELSE Goto(u, "select") /\ UNCHANGED <<phase, outcome, gate, pausing, deployer>>
    /\ UNCHANGED <<diskVars, current, home, name, todo, events,
                   registered, triggers, operation, target, prev, child>>

\* generation.activate under the deployment lock, tried once: load again,
\* compare, and replace the link.
Select(u) ==
    /\ pc[u] = "select" /\ Goal(u) # NoGeneration
    /\ IF deployer = Nobody /\ Loads(Goal(u)) /\ PointerIsUsable
         THEN /\ IF Junctions THEN deployer' = u /\ Goto(u, "link") /\ current' = NoName
                 ELSE Goto(u, "leave") /\ current' = Goal(u).name /\ UNCHANGED deployer
              /\ UNCHANGED <<phase, outcome, gate, pausing>>
         ELSE Raises(u) /\ UNCHANGED current
    /\ UNCHANGED <<diskVars, proc, home, name, todo, events,
                   registered, triggers, operation, target, prev, child>>

Link(u) ==
    /\ pc[u] = "link"
    /\ current' = Goal(u).name
    /\ deployer' = Nobody /\ Goto(u, "leave")
    /\ UNCHANGED <<diskVars, proc, home, name, todo, events,
                   registered, triggers, operation, gate, pausing, target, prev, phase, child, outcome>>

\* The junction cannot be made; the one before is put back if that works.
LinkFails(u) ==
    /\ pc[u] = "link"
    /\ Event /\ Raises(u)
    /\ current' \in {prev[u].name, NoName}
    /\ UNCHANGED <<diskVars, proc, home, name, todo,
                   registered, triggers, operation, target, prev, child>>

\* clear_activation: nothing was selected before.
Clear(u) ==
    /\ pc[u] = "select" /\ Goal(u) = NoGeneration
    /\ current' = NoName
    /\ Goto(u, "leave")
    /\ UNCHANGED <<diskVars, deployer, proc, home, name, todo, events,
                   registered, triggers, operation, gate, pausing, target, prev, phase, child, outcome>>

LeaveGate(u) ==
    /\ pc[u] = "leave"
    /\ gate' = Free(gate, u) /\ pausing' = Free(pausing, u)
    /\ Goto(u, "converge")
    /\ UNCHANGED <<diskVars, current, deployer, proc, home, name, todo, events,
                   registered, triggers, operation, target, prev, phase, child, outcome>>

\* _maintain: `internal maintain` of the generation, through its own path.
Maintain(u) == \E p \in Procs :
    /\ pc[u] = "converge" /\ Goal(u) # NoGeneration
    /\ proc[p] = Gone
    /\ proc' = [proc EXCEPT ![p] = [kind |-> "maintain", gen |-> Goal(u).name]]
    /\ child' = [child EXCEPT ![u] = p]
    /\ Goto(u, "await")
    /\ UNCHANGED <<diskVars, current, deployer, home, name, todo, events,
                   registered, triggers, operation, gate, pausing, target, prev, phase, outcome>>

\* Nothing to go back to: the command converges by itself.
ConvergeSelf(u) ==
    /\ pc[u] = "converge" /\ Goal(u) = NoGeneration
    /\ \/ /\ registered => gate = Nobody
          /\ triggers' = (registered \/ triggers)
          /\ Reports(u, "restored") /\ UNCHANGED <<phase, gate, pausing, deployer>>
       \/ registered /\ Raises(u) /\ UNCHANGED triggers
    /\ UNCHANGED <<diskVars, current, proc, home, name, todo, events,
                   registered, operation, target, prev, child>>

Report(u) ==
    /\ pc[u] = "report"
    /\ Goto(u, "end")
    /\ operation' = Free(operation, u)
    /\ target' = [target EXCEPT ![u] = NoGeneration]
    /\ prev' = [prev EXCEPT ![u] = NoGeneration]
    /\ phase' = [phase EXCEPT ![u] = "forward"]
    /\ child' = [child EXCEPT ![u] = Nobody]
    /\ outcome' = [outcome EXCEPT ![u] = "none"]
    /\ UNCHANGED <<diskVars, current, deployer, proc, home, name, todo, events,
                   registered, triggers, gate, pausing>>

\* A command that dies leaves the selection and the triggers as they are.
Crash(u) ==
    /\ Die(u)
    /\ operation' = Free(operation, u)
    /\ gate' = Free(gate, u) /\ pausing' = Free(pausing, u)
    /\ target' = [target EXCEPT ![u] = NoGeneration]
    /\ prev' = [prev EXCEPT ![u] = NoGeneration]
    /\ phase' = [phase EXCEPT ![u] = "forward"]
    /\ child' = [child EXCEPT ![u] = Nobody]
    /\ outcome' = [outcome EXCEPT ![u] = "none"]
    /\ UNCHANGED <<registered, triggers>>

---------------------------------------------------------------------------
(* The runtime's processes *)

Become(p, new) == proc' = [proc EXCEPT ![p] = new]

\* A trigger launches through current.
Launch(p) ==
    /\ proc[p] = Gone /\ triggers /\ current # NoName
    /\ \E kind \in {"run", "maintain"} : Become(p, [kind |-> kind, gen |-> current])
    /\ UNCHANGED <<diskVars, current, deployer, home, pc, name, todo, events, activationVars>>

RunEnds(p) ==
    /\ proc[p].kind = "run"
    /\ Become(p, Gone)
    /\ UNCHANGED <<diskVars, current, deployer, home, pc, name, todo, events, activationVars>>

\* A watch fires: the run is admitted under the gate.
Fire(p) ==
    /\ proc[p].kind = "idle" /\ gate = Nobody
    /\ Become(p, [proc[p] EXCEPT !.kind = "busy"])
    /\ UNCHANGED <<diskVars, current, deployer, home, pc, name, todo, events, activationVars>>

Retires(p) == pausing # Nobody \/ proc[p].gen # current

\* Faulty variant: a watcher goes on after its run.
FireEndsResident(p) ==
    /\ proc[p].kind = "busy"
    /\ Become(p, [proc[p] EXCEPT !.kind = "idle"])
    /\ UNCHANGED <<diskVars, current, deployer, home, pc, name, todo, events, activationVars>>

\* After the run the watcher asks whether it should go on.
FireEnds(p) ==
    /\ proc[p].kind = "busy"
    /\ Become(p, IF Retires(p) THEN Gone ELSE [proc[p] EXCEPT !.kind = "idle"])
    /\ UNCHANGED <<diskVars, current, deployer, home, pc, name, todo, events, activationVars>>

Retire(p) ==
    /\ proc[p].kind = "idle" /\ Retires(p)
    /\ Become(p, Gone)
    /\ UNCHANGED <<diskVars, current, deployer, home, pc, name, todo, events, activationVars>>

\* internal maintain takes the gate, installs triggers and ends watchers of
\* another generation.
Converge(p) ==
    /\ proc[p].kind = "maintain" /\ gate = Nobody
    /\ gate' = p
    /\ triggers' = registered
    /\ proc' = [q \in Procs |-> IF q \in Idle /\ proc[q].gen # current THEN Gone ELSE proc[q]]
    /\ UNCHANGED <<diskVars, current, deployer, home, pc, name, todo, events,
                   registered, operation, pausing, target, prev, phase, child, outcome>>

\* A watch without a watcher gets one, through current.
StartWatcher(p) == \E q \in Procs :
    /\ gate = p /\ registered /\ current # NoName
    /\ proc[q] = Gone /\ \A r \in Procs : proc[r].kind \notin Watching
    /\ Become(q, [kind |-> "idle", gen |-> current])
    /\ UNCHANGED <<diskVars, current, deployer, home, pc, name, todo, events, activationVars>>

\* The process ends, and the activation that waits for it goes on.
MaintainEnds(p) ==
    /\ proc[p].kind = "maintain" /\ gate = p
    /\ Become(p, Gone)
    /\ gate' = Nobody
    /\ IF \E u \in Users : child[u] = p
         THEN LET u == CHOOSE u \in Users : child[u] = p
              IN /\ Reports(u, Completed(u))
                 /\ child' = [child EXCEPT ![u] = Nobody]
         ELSE UNCHANGED <<outcome, pc, child>>
    /\ UNCHANGED <<diskVars, current, deployer, home, name, todo, events,
                   registered, triggers, operation, pausing, target, prev, phase>>

\* Faulty variant: the exit code is not looked at.
MaintainFailsUnseen(p) ==
    /\ proc[p].kind = "maintain"
    /\ Become(p, Gone)
    /\ gate' = Free(gate, p)
    /\ IF \E u \in Users : child[u] = p
         THEN LET u == CHOOSE u \in Users : child[u] = p
              IN /\ Reports(u, Completed(u))
                 /\ child' = [child EXCEPT ![u] = Nobody]
         ELSE UNCHANGED <<outcome, pc, child>>
    /\ UNCHANGED <<diskVars, current, deployer, home, name, todo, events,
                   registered, triggers, operation, pausing, target, prev, phase>>

\* The gate was busy in both attempts, or other commits made three plans void:
\* maintenance is deferred and exits with 0, which is all that _run looks at.
MaintainDefers(p) ==
    /\ proc[p].kind = "maintain" /\ gate # p
    /\ Become(p, Gone)
    /\ IF \E u \in Users : child[u] = p
         THEN LET u == CHOOSE u \in Users : child[u] = p
              IN /\ Reports(u, PutOff(u))
                 /\ child' = [child EXCEPT ![u] = Nobody]
         ELSE UNCHANGED <<outcome, pc, child>>
    /\ UNCHANGED <<diskVars, current, deployer, home, name, todo, events,
                   registered, triggers, operation, gate, pausing, target, prev, phase>>

\* Collection, an operation or retention fails, or the process dies.
MaintainFails(p) ==
    /\ proc[p].kind = "maintain"
    /\ Become(p, Gone)
    /\ gate' = Free(gate, p)
    /\ IF \E u \in Users : child[u] = p
         THEN LET u == CHOOSE u \in Users : child[u] = p
              IN Recovers(u) /\ child' = [child EXCEPT ![u] = Nobody]
         ELSE UNCHANGED <<outcome, pc, child, phase>>
    /\ UNCHANGED <<diskVars, current, deployer, home, name, todo, events,
                   registered, triggers, operation, pausing, target, prev>>

Command(u) ==
    \/ (Open(u) \/ Quit(u) \/ (u \in Managers /\ Manage(u))) /\ UNCHANGED activationVars
    \/ Activate(u) \/ TakeOperation(u) \/ EnterGate(u) \/ CheckForward(u) \/ CheckBack(u)
    \/ Withdraw(u) \/ WithdrawFails(u) \/ Drain(u)
    \/ Select(u) \/ Link(u) \/ LinkFails(u) \/ Clear(u) \/ LeaveGate(u)
    \/ Maintain(u) \/ ConvergeSelf(u) \/ Report(u) \/ Crash(u)

Runtime(p) ==
    \/ Launch(p) \/ RunEnds(p) \/ Fire(p) \/ FireEnds(p) \/ Retire(p)
    \/ Converge(p) \/ StartWatcher(p) \/ MaintainEnds(p) \/ MaintainDefers(p)
    \/ MaintainFails(p)

Next == (\E u \in Users : Command(u)) \/ (\E p \in Procs : Runtime(p))

Spec == Init /\ [][Next]_vars

---------------------------------------------------------------------------
(* What the deployment can rely on *)

Promise == INSTANCE Selection WITH
    Processes <- Procs \cup Users, sealed <- Sealed, selected <- current, executing <- Executing

\* Whatever commands build, remove, activate and crash, current names a
\* complete generation or nothing, and no generation goes while a process
\* executes it, although what is held is read from the process table and
\* nobody locks it (docs/decisions/deployment-generations.md).
SelectionIsKept == Promise!Spec

\* An activation that reports success has selected its target, one that reports
\* a failure after it had disturbed the runtime has put the previous selection
\* back; and either has the triggers converged, unless its maintenance was
\* deferred, which it does not notice (activate_generation, _maintain, _run).
OutcomeIsTrue == \A u \in Users :
    /\ outcome[u] \in Success => current = target[u].name
    /\ outcome[u] \in Return => current = prev[u].name
    /\ outcome[u] \in {"ok", "restored"} /\ registered => triggers

\* When an activation reports success, a watcher of another generation is one
\* whose run was going on and is drained, never one that could fire again, also
\* when its maintenance was deferred: _stop_runtime, the pause, and the question
\* asked after each run.
NoOldLoop == \A u \in Users : \A p \in Idle :
    outcome[u] \in Success => proc[p].gen = current

\* The selection moves only while the runtime is quiet: no trigger launches
\* it, no maintenance converges it, and no idle watcher is left that could
\* fire, whatever was launched, ended or failed since _stop_runtime looked.
\* Putting back what is still selected, or was lost on the way, needs no quiet.
Quiet == ~triggers /\ ~Maintaining /\ Idle = {}
Moves(u) == phase[u] = "forward" \/ current \notin {NoName, prev[u].name}
MovesAreQuiet == \A u \in Users :
    pc[u] \in {"select", "link"} /\ Moves(u) => Quiet

\* "Complete generations on disk ... unsealed directories excluded", and
\* "collection is resumable": whenever nobody holds the deployment lock, a
\* listing names no directory that an interrupted removal left half deleted.
\* Such a name does not load, and every later collection reports that.
ListingLoads == deployer = Nobody => ~relics
=============================================================================
