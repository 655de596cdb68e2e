-------------------------- MODULE ActivationProofs --------------------------
(***************************************************************************)
(* What Activation promises, for any commands, processes and generations.   *)
(*                                                                          *)
(* The argument has three locks.  The operation lock makes activations      *)
(* exclusive, so that what one has found selected stays selected until it   *)
(* reports.  The deployment lock keeps every generation as its holder has   *)
(* found it.  The gate keeps the runtime stopped while current moves, and   *)
(* converged while a maintenance runs.  What no lock protects is who        *)
(* executes a generation; there the argument is that a process only ever    *)
(* starts from the selected one, which is never the one to be removed.      *)
(***************************************************************************)
EXTENDS Activation, FiniteSetTheorems, TLAPS

\* The stages in which a command holds the operation lock.
Operating == {"gate", "check", "stop", "drain", "select", "link", "leave",
              "converge", "await", "report"}

\* The deployment lock and the gate are held in these stages, and no others.
LockStages ==
    /\ \A u \in Users : deployer = u <=> pc[u] \in {"populate", "remove", "rename", "delete", "link"}
    /\ \A u \in Users : gate = u <=> pc[u] \in {"check", "stop", "drain", "select", "link", "leave"}

Types ==
    /\ dir \in [Names -> {"absent", "partial", "sealed"}]
    /\ stamp \in [Names -> Nat] /\ clock \in Nat /\ relics \in BOOLEAN
    /\ current \in Names \cup {NoName} /\ deployer \in Users \cup {Nobody}
    /\ proc \in [Procs -> [kind : Kinds, gen : Names \cup {NoName}]]
    /\ home \in [Users -> Names \cup {NoName}] /\ name \in [Users -> Names \cup {NoName}]
    /\ pc \in [Users -> Stages] /\ todo \in [Users -> SUBSET Names] /\ events \in Nat
    /\ registered \in BOOLEAN /\ triggers \in BOOLEAN
    /\ operation \in Users \cup {Nobody} /\ gate \in Users \cup Procs \cup {Nobody}
    /\ pausing \in Users \cup {Nobody}
    /\ target \in [Users -> GenerationType] /\ prev \in [Users -> GenerationType]
    /\ phase \in [Users -> {"forward", "back"}]
    /\ child \in [Users -> Procs \cup {Nobody}] /\ outcome \in [Users -> Outcomes]

\* One activation at a time; what a command remembers of it, stage by stage.
Remembers(u) ==
    /\ operation = u <=> pc[u] \in Operating
    /\ pc[u] \notin Operating => phase[u] = "forward" /\ prev[u] = NoGeneration
    /\ pc[u] \in Operating \cup {"operation"} => target[u].name \in Names
    /\ phase[u] = "forward" /\ pc[u] \in {"gate", "check"} => prev[u] = NoGeneration
    /\ prev[u] = NoGeneration \/ prev[u].name \in Names
    /\ pc[u] = "link" => Goal(u) # NoGeneration
    /\ child[u] # Nobody => pc[u] = "await"
    /\ outcome[u] # "none" => pc[u] = "report"
    /\ outcome[u] \in Success => phase[u] = "forward"
    /\ pc[u] = "idle" => home[u] = NoName

Discipline == \A u \in Users : Remembers(u)

\* Current names a complete generation or nothing.
Complete == current \in Sealed \cup {NoName}

\* What the holder of the deployment lock has found out stays true.
FoundOut(u) ==
    /\ pc[u] = "populate" => name[u] \in Names /\ dir[name[u]] = "partial"
    /\ pc[u] \in {"remove", "rename", "delete"} => current \notin todo[u]
    /\ pc[u] = "rename" => name[u] \in Sealed \ {current} /\ ~Held(name[u])
    /\ pc[u] = "link" => Goal(u).name \in Sealed /\ prev[u].name \in Sealed \cup {NoName}

Locked == \A u \in Users : FoundOut(u)

\* What the activation has found selected, or has selected, is selected.
FoundSelected(u) ==
    /\ phase[u] = "forward" /\ pc[u] \in {"stop", "drain", "select"} => current = prev[u].name
    /\ pc[u] \in {"leave", "converge", "await"} => current = Goal(u).name
    /\ outcome[u] \in Success => current = target[u].name
    /\ outcome[u] \in Return => current = prev[u].name

Selected == \A u \in Users : FoundSelected(u)

\* What a maintenance that holds the gate has converged stays so until the
\* activation that waits for it has reported.
Converged ==
    /\ gate \in Procs => proc[gate].kind = "maintain" /\ triggers = registered
    /\ \A u \in Users : outcome[u] \in {"ok", "restored"} => (registered => triggers)

\* What the activation has found of the runtime when it stops it and moves
\* current, and the pause that keeps it so.  Where nothing is registered, only
\* the activation itself starts a maintenance.
Apart(u) == \A p \in Procs : proc[p].kind = "maintain" => p = child[u]
FoundQuiet(u) ==
    /\ pc[u] = "check" /\ phase[u] = "back" => pausing = u
    /\ pc[u] \in {"stop", "drain"} => registered /\ pausing = u
    /\ pc[u] = "drain" => ~triggers /\ ~Maintaining
    /\ pc[u] \in {"select", "link"} /\ Moves(u) => Quiet /\ (registered => pausing = u)
    /\ /\ ~registered
       /\ \/ pc[u] \in {"select", "link", "leave", "converge", "await"}
          \/ phase[u] = "back" /\ pc[u] # "report"
       => Apart(u)

Quieted ==
    /\ \A u \in Users : FoundQuiet(u)
    /\ ~registered => ~triggers /\ \A p \in Procs : proc[p].kind \notin Watching

\* A watcher that is idle after the move forward is of what was selected: the
\* idle ones were stopped before, and one that ends its run asks.
Succeeds(u) ==
    \/ phase[u] = "forward" /\ pc[u] \in {"leave", "converge", "await"}
    \/ outcome[u] \in Success
Renewed == \A u \in Users : Succeeds(u) => \A p \in Idle : proc[p].gen = current

Inv == /\ Types /\ LockStages /\ Discipline
       /\ Complete /\ Locked /\ Selected /\ Converged /\ Quieted /\ Renewed

---------------------------------------------------------------------------
(* Types and locks *)

\* What only a command that activates does, and how one ends.
Activating(u) ==
    \/ Activate(u) \/ TakeOperation(u) \/ EnterGate(u) \/ CheckForward(u) \/ CheckBack(u)
    \/ Withdraw(u) \/ WithdrawFails(u) \/ Drain(u)
    \/ Select(u) \/ Link(u) \/ LinkFails(u) \/ Clear(u) \/ LeaveGate(u)
    \/ Maintain(u) \/ ConvergeSelf(u) \/ Report(u) \/ Crash(u)

LEMMA FreeType ==
    ASSUME NEW S, NEW lock \in S \cup {Nobody}, NEW x
    PROVE  Free(lock, x) \in S \cup {Nobody}
  BY DEF Free

\* Where an activation goes on after a failure.
LEMMA RecoversDoes ==
    ASSUME Types, NEW u \in Users, Recovers(u)
    PROVE  /\ phase' \in [Users -> {"forward", "back"}] /\ outcome' \in [Users -> Outcomes]
           /\ pc' \in [Users -> Stages] /\ pc'[u] \in {"gate", "report"}
           /\ \A v \in Users \ {u} : pc'[v] = pc[v] /\ phase'[v] = phase[v] /\ outcome'[v] = outcome[v]
           /\ pc'[u] = "gate" => /\ phase'[u] = "back" /\ outcome'[u] = outcome[u]
           /\ pc'[u] = "report" => /\ phase'[u] = phase[u] /\ outcome'[u] \in {"refused", "unrestored"}
                                   /\ phase[u] = "forward" => pc[u] \in {"operation", "gate", "check"}
                                   /\ outcome'[u] = "refused" => phase[u] = "forward"
  <1>1. CASE phase[u] = "forward" /\ pc[u] \notin {"operation", "gate", "check"}
    <2>1. /\ phase' = [phase EXCEPT ![u] = "back"] /\ pc' = [pc EXCEPT ![u] = "gate"]
          /\ outcome' = outcome
      BY <1>1 DEF Recovers, Goto
    <2>2. QED BY <2>1 DEF Types, Stages
  <1>2. CASE ~(phase[u] = "forward" /\ pc[u] \notin {"operation", "gate", "check"})
    <2>1. /\ pc' = [pc EXCEPT ![u] = "report"] /\ phase' = phase
          /\ outcome' = [outcome EXCEPT ![u] = IF phase[u] = "forward" THEN "refused" ELSE "unrestored"]
      BY <1>2 DEF Recovers, Reports, Goto
    <2>2. QED BY <1>2, <2>1 DEF Types, Stages, Outcomes
  <1>3. QED BY <1>1, <1>2

LEMMA RaisesType ==
    ASSUME Types, LockStages, NEW u \in Users, Raises(u)
    PROVE  /\ phase' \in [Users -> {"forward", "back"}] /\ outcome' \in [Users -> Outcomes]
           /\ pc' \in [Users -> Stages] /\ LockStages'
           /\ gate' \in Users \cup Procs \cup {Nobody} /\ pausing' \in Users \cup {Nobody}
           /\ deployer' \in Users \cup {Nobody}
  <1>1. Nobody \notin Users
    BY GenerationAssumption
  <1>2. /\ gate' \in Users \cup Procs \cup {Nobody} /\ pausing' \in Users \cup {Nobody}
        /\ deployer' \in Users \cup {Nobody}
    BY DEF Raises, Free, Types
  <1>3. /\ pc' \in [Users -> Stages] /\ pc'[u] \in {"gate", "report"}
        /\ \A v \in Users \ {u} : pc'[v] = pc[v]
        /\ gate' = Free(gate, u) /\ deployer' = Free(deployer, u)
    BY RecoversDoes DEF Raises
  <1>4. LockStages'
    <2>1. ASSUME NEW v \in Users
          PROVE  /\ deployer' = v <=> pc'[v] \in {"populate", "remove", "rename", "delete", "link"}
                 /\ gate' = v <=> pc'[v] \in {"check", "stop", "drain", "select", "link", "leave"}
      <3>1. CASE v = u
        BY <1>1, <1>3, <3>1 DEF Free
      <3>2. CASE v # u
        <4>1. (deployer' = v <=> deployer = v) /\ (gate' = v <=> gate = v) /\ pc'[v] = pc[v]
          BY <1>1, <1>3, <3>2 DEF Free
        <4>2. QED BY <4>1 DEF LockStages
      <3>3. QED BY <3>1, <3>2
    <2>2. QED BY <2>1 DEF LockStages
  <1>5. QED BY <1>2, <1>3, <1>4, RecoversDoes DEF Raises

\* What building, removing and collecting generations does to the types and
\* the locks, and then what activating one does.
LEMMA ManageType ==
    ASSUME Types, NEW u \in Users, Open(u) \/ Quit(u) \/ Manage(u), UNCHANGED activationVars
    PROVE  Types'
  <1> USE DEF activationVars, Goto, Ends, Unlock, Lock, Stages, diskVars, Event
  <1>1. CASE Open(u) BY <1>1 DEF Open, Types
  <1>2. CASE Quit(u) BY <1>2 DEF Quit, Types
  <1>3. CASE Build(u) BY <1>3 DEF Build, Types
  <1>4. CASE Seal(u)
    <2>1. clock' = clock + 1 /\ clock' \in Nat
      BY <1>4 DEF Seal, Types
    <2>2. stamp' = [stamp EXCEPT ![name[u]] = clock'] /\ dir' = [dir EXCEPT ![name[u]] = "sealed"]
      BY <1>4 DEF Seal
    <2>3. stamp' \in [Names -> Nat] /\ dir' \in [Names -> {"absent", "partial", "sealed"}]
      BY <2>1, <2>2 DEF Types
    <2>4. QED BY <1>4, <2>1, <2>3 DEF Seal, Types
  <1>5. CASE BuildFails(u) BY <1>5 DEF BuildFails, Types
  <1>6. CASE Collect(u)
    <2>1. \A retain \in Retain : Collectable(retain) \in SUBSET Names
      BY DEF Collectable, Superseded, Sealed
    <2>2. QED BY <1>6, <2>1 DEF Collect, Types
  <1>7. CASE Remove(u) BY <1>7 DEF Remove, Sealed, Types
  <1>8. CASE CheckHolders(u) BY <1>8 DEF CheckHolders, Types
  <1>9. CASE Rename(u) BY <1>9 DEF Rename, Types
  <1>10. CASE Delete(u) BY <1>10 DEF Delete, Types
  <1>11. CASE DeleteFails(u)
    <2>1. relics' \in {relics, TRUE} /\ relics \in BOOLEAN
      BY <1>11 DEF DeleteFails, Types
    <2>2. relics' \in BOOLEAN
      BY <2>1
    <2>3. events' \in Nat
      BY <1>11 DEF DeleteFails, Types
    <2>4. QED BY <1>11, <2>2, <2>3 DEF DeleteFails, Types
  <1>12. CASE Removed(u) BY <1>12 DEF Removed, Types
  <1>13. QED BY <1>1, <1>2, <1>3, <1>4, <1>5, <1>6, <1>7, <1>8, <1>9, <1>10, <1>11, <1>12 DEF Manage

LEMMA ManageLocks ==
    ASSUME Types, LockStages, NEW u \in Users, Open(u) \/ Quit(u) \/ Manage(u), UNCHANGED activationVars
    PROVE  LockStages'
  <1> USE GenerationAssumption DEF activationVars, Goto, Ends, Unlock, Lock, LockStages, Types
  <1>1. CASE Open(u) BY <1>1 DEF Open
  <1>2. CASE Quit(u) BY <1>2 DEF Quit
  <1>3. CASE Build(u) BY <1>3 DEF Build
  <1>4. CASE Seal(u) BY <1>4 DEF Seal
  <1>5. CASE BuildFails(u) BY <1>5 DEF BuildFails
  <1>6. CASE Collect(u) BY <1>6 DEF Collect
  <1>7. CASE Remove(u) BY <1>7 DEF Remove
  <1>8. CASE CheckHolders(u) BY <1>8 DEF CheckHolders
  <1>9. CASE Rename(u) BY <1>9 DEF Rename
  <1>10. CASE Delete(u) BY <1>10 DEF Delete
  <1>11. CASE DeleteFails(u) BY <1>11 DEF DeleteFails
  <1>12. CASE Removed(u) BY <1>12 DEF Removed
  <1>13. QED BY <1>1, <1>2, <1>3, <1>4, <1>5, <1>6, <1>7, <1>8, <1>9, <1>10, <1>11, <1>12 DEF Manage

LEMMA ActivationType ==
    ASSUME Types, LockStages, NEW u \in Users, Activating(u)
    PROVE  Types'
  <1> USE DEF Goto, Unlock, Stages, diskVars, Event
  <1>1. CASE Activate(u) BY <1>1 DEF Activate, Generation, GenerationType, Sealed, Types
  <1>2. CASE TakeOperation(u) BY <1>2 DEF TakeOperation, Types
  <1>3. CASE EnterGate(u) BY <1>3, RaisesType DEF EnterGate, Types
  <1>4. CASE CheckForward(u)
    <2>1. CASE Raises(u) /\ UNCHANGED <<prev, pausing>>
      BY <1>4, <2>1, RaisesType DEF CheckForward, Types
    <2>2. CASE ~(Raises(u) /\ UNCHANGED <<prev, pausing>>)
      <3>1. prev' = [prev EXCEPT ![u] = IF current = NoName THEN NoGeneration ELSE Generation(current)]
        BY <1>4, <2>2 DEF CheckForward
      <3> HIDE DEF Goto, Unlock, Stages, diskVars, Event
      <3>2. current # NoName => Generation(current) \in GenerationType
        BY DEF Generation, GenerationType, Types
      <3>3. NoGeneration \in GenerationType
        BY DEF NoGeneration, GenerationType
      <3>4. prev' \in [Users -> GenerationType]
        BY <3>1, <3>2, <3>3 DEF Types
      <3>5. QED BY <1>4, <2>2, <3>4 DEF CheckForward, Goto, Stages, diskVars, Types
    <2>3. QED BY <2>1, <2>2
  <1>5. CASE CheckBack(u) BY <1>5, RaisesType DEF CheckBack, Types
  <1>6. CASE Withdraw(u) BY <1>6, RaisesType DEF Withdraw, Types
  <1>7. CASE WithdrawFails(u)
    <2>1. triggers' \in {triggers, FALSE} /\ triggers \in BOOLEAN
      BY <1>7 DEF WithdrawFails, Types
    <2>2. triggers' \in BOOLEAN
      BY <2>1
    <2>3. events' \in Nat
      BY <1>7 DEF WithdrawFails, Types
    <2>4. QED BY <1>7, <2>2, <2>3, RaisesType DEF WithdrawFails, Types
  <1>8. CASE Drain(u) BY <1>8, RaisesType DEF Drain, Gone, Kinds, Types
  <1>9. CASE Select(u)
    <2>1. Goal(u) \in GenerationType
      BY DEF Goal, Types
    <2>2. current' \in Names \cup {NoName}
      BY <1>9, <2>1 DEF Select, GenerationType, Types
    <2>3. CASE Raises(u)
      BY <1>9, <2>2, <2>3, RaisesType DEF Select, Types
    <2>4. CASE ~Raises(u)
      BY <1>9, <2>2, <2>4 DEF Select, Types
    <2>5. QED BY <2>3, <2>4
  <1>10. CASE Link(u) BY <1>10 DEF Link, Goal, GenerationType, Types
  <1>11. CASE LinkFails(u)
    <2>1. current' \in Names \cup {NoName} /\ events' \in Nat
      BY <1>11 DEF LinkFails, GenerationType, Types
    <2>2. QED BY <1>11, <2>1, RaisesType DEF LinkFails, Types
  <1>12. CASE Clear(u) BY <1>12 DEF Clear, Types
  <1>13. CASE LeaveGate(u) BY <1>13 DEF LeaveGate, Free, Types
  <1>14. CASE Maintain(u) BY <1>14 DEF Maintain, Goal, GenerationType, Kinds, Types
  <1>15. CASE ConvergeSelf(u)
    <2>1. CASE Reports(u, "restored") /\ UNCHANGED <<phase, gate, pausing, deployer>>
      <3>1. triggers' \in BOOLEAN
        BY <1>15 DEF ConvergeSelf, Types
      <3>2. QED BY <1>15, <2>1, <3>1 DEF ConvergeSelf, Reports, Outcomes, Return, Types
    <2>2. CASE Raises(u) /\ UNCHANGED triggers
      BY <1>15, <2>2, RaisesType DEF ConvergeSelf, Types
    <2>3. QED BY <1>15, <2>1, <2>2 DEF ConvergeSelf
  <1>16. CASE Report(u) BY <1>16 DEF Report, Free, NoGeneration, GenerationType, Outcomes, Types
  <1>17. CASE Crash(u)
    <2>1. relics' \in {relics, relics \/ pc[u] = "delete"} /\ relics \in BOOLEAN
      BY <1>17 DEF Crash, Die, Types
    <2>2. relics' \in BOOLEAN
      BY <2>1
    <2>3. events' \in Nat
      BY <1>17 DEF Crash, Die, Types
    <2>4. /\ operation' \in Users \cup {Nobody} /\ pausing' \in Users \cup {Nobody}
          /\ gate' \in Users \cup Procs \cup {Nobody} /\ deployer' \in Users \cup {Nobody}
      BY <1>17 DEF Crash, Die, Free, Types
    <2>5. /\ target' \in [Users -> GenerationType] /\ prev' \in [Users -> GenerationType]
          /\ outcome' \in [Users -> Outcomes]
      BY <1>17 DEF Crash, NoGeneration, GenerationType, Outcomes, Types
    <2>6. QED BY <1>17, <2>4, <2>5, <2>2, <2>3 DEF Crash, Die, Types
  <1>18. QED BY <1>1, <1>2, <1>3, <1>4, <1>5, <1>6, <1>7, <1>8, <1>9, <1>10, <1>11, <1>12,
               <1>13, <1>14, <1>15, <1>16, <1>17 DEF Activating

LEMMA ActivationLocks ==
    ASSUME Types, LockStages, NEW u \in Users, Activating(u)
    PROVE  LockStages'
  <1>1. CASE Raises(u) BY <1>1, RaisesType
  <1> SUFFICES ASSUME ~Raises(u) PROVE LockStages'
    BY <1>1
  <1> USE GenerationAssumption DEF Goto, Unlock, LockStages, Types, Free
  <1>2. CASE Activate(u) BY <1>2 DEF Activate
  <1>3. CASE TakeOperation(u) BY <1>3 DEF TakeOperation
  <1>4. CASE EnterGate(u) BY <1>4 DEF EnterGate
  <1>5. CASE CheckForward(u) BY <1>5 DEF CheckForward
  <1>6. CASE CheckBack(u) BY <1>6 DEF CheckBack
  <1>7. CASE Withdraw(u) \/ Drain(u) \/ Clear(u) BY <1>7 DEF Withdraw, Drain, Clear
  <1>8. CASE WithdrawFails(u) \/ LinkFails(u) BY <1>8 DEF WithdrawFails, LinkFails
  <1>9. CASE Select(u) BY <1>9 DEF Select
  <1>10. CASE Link(u) BY <1>10 DEF Link
  <1>11. CASE LeaveGate(u) BY <1>11 DEF LeaveGate
  <1>12. CASE Maintain(u) BY <1>12 DEF Maintain
  <1>13. CASE ConvergeSelf(u) BY <1>13 DEF ConvergeSelf, Reports
  <1>14. CASE Report(u) BY <1>14 DEF Report
  <1>15. CASE Crash(u) BY <1>15 DEF Crash, Die
  <1>16. QED BY <1>2, <1>3, <1>4, <1>5, <1>6, <1>7, <1>8, <1>9, <1>10, <1>11, <1>12,
               <1>13, <1>14, <1>15 DEF Activating

\* The end of an `internal maintain`, as the activation that waits for it
\* sees it.
Told(u) == UNCHANGED phase /\ (Reports(u, Completed(u)) \/ Reports(u, PutOff(u)))
Ending(p) == MaintainEnds(p) \/ MaintainDefers(p) \/ MaintainFails(p)

LEMMA MaintenanceEnds ==
    ASSUME Types, LockStages, Discipline, NEW p \in Procs, Ending(p)
    PROVE  /\ gate' = Free(gate, p) /\ proc' = [proc EXCEPT ![p] = Gone]
           /\ \/ UNCHANGED <<outcome, pc, child, phase>>
              \/ \E u \in Users :
                    /\ child[u] = p /\ pc[u] = "await" /\ child' = [child EXCEPT ![u] = Nobody]
                    /\ Told(u) \/ Recovers(u)
                    /\ outcome'[u] \in {"ok", "restored"} => gate = p
  <1>1. gate' = Free(gate, p) /\ proc' = [proc EXCEPT ![p] = Gone]
    BY DEF Ending, MaintainEnds, MaintainDefers, MaintainFails, Become, Free
  <1>2. CASE \E u \in Users : child[u] = p
    <2>1. PICK u \in Users : child[u] = p /\ u = CHOOSE v \in Users : child[v] = p
      BY <1>2
    <2>2. pc[u] = "await" /\ outcome[u] = "none"
      BY <2>1, GenerationAssumption DEF Discipline, Remembers
    <2>3. CASE MaintainEnds(p)
      BY <1>1, <1>2, <2>1, <2>2, <2>3 DEF MaintainEnds, Told
    <2>4. CASE MaintainDefers(p)
      <3>1. Told(u) /\ Reports(u, PutOff(u)) /\ child' = [child EXCEPT ![u] = Nobody]
        BY <1>2, <2>1, <2>4 DEF MaintainDefers, Told
      <3>2. outcome'[u] \notin {"ok", "restored"}
        BY <3>1 DEF Reports, PutOff, Types
      <3>3. QED BY <1>1, <2>1, <2>2, <3>1, <3>2
    <2>5. CASE MaintainFails(p)
      <3>1. Recovers(u) /\ child' = [child EXCEPT ![u] = Nobody]
        BY <1>2, <2>1, <2>5 DEF MaintainFails
      <3>2. outcome'[u] \notin {"ok", "restored"}
        BY <2>2, <3>1, RecoversDoes
      <3>3. QED BY <1>1, <2>1, <2>2, <3>1, <3>2
    <2>6. QED BY <2>3, <2>4, <2>5 DEF Ending
  <1>3. CASE ~\E u \in Users : child[u] = p
    BY <1>1, <1>3 DEF Ending, MaintainEnds, MaintainDefers, MaintainFails
  <1>4. QED BY <1>1, <1>2, <1>3

LEMMA ToldDoes ==
    ASSUME Types, NEW u \in Users, Told(u)
    PROVE  /\ phase' = phase /\ pc' = [pc EXCEPT ![u] = "report"]
           /\ outcome' \in [Users -> Outcomes] /\ pc' \in [Users -> Stages]
           /\ phase' \in [Users -> {"forward", "back"}]
           /\ outcome'[u] \in IF phase[u] = "forward" THEN Success ELSE Return
           /\ \A v \in Users \ {u} : outcome'[v] = outcome[v]
  <1>1. PICK what \in IF phase[u] = "forward" THEN Success ELSE Return :
           outcome' = [outcome EXCEPT ![u] = what]
    BY DEF Told, Reports, Completed, PutOff, Success, Return
  <1>2. phase' = phase /\ pc' = [pc EXCEPT ![u] = "report"]
    BY DEF Told, Reports, Goto
  <1>3. outcome' \in [Users -> Outcomes] /\ outcome'[u] = what
    BY <1>1 DEF Types, Outcomes
  <1>4. pc' \in [Users -> Stages] /\ phase' \in [Users -> {"forward", "back"}]
    BY <1>2 DEF Types, Stages
  <1>5. \A v \in Users \ {u} : outcome'[v] = outcome[v]
    BY <1>1 DEF Types
  <1>6. QED BY <1>1, <1>2, <1>3, <1>4, <1>5

LEMMA RuntimeType ==
    ASSUME Types, LockStages, Discipline, NEW p \in Procs, Runtime(p)
    PROVE  Types' /\ LockStages'
  <1> USE GenerationAssumption DEF activationVars, Goto, Stages, diskVars, Become, Gone, Kinds
  <1>1. CASE Launch(p) BY <1>1 DEF Launch, Types, LockStages
  <1>2. CASE RunEnds(p) BY <1>2 DEF RunEnds, Types, LockStages
  <1>3. CASE Fire(p) BY <1>3 DEF Fire, Types, LockStages
  <1>4. CASE FireEnds(p) BY <1>4 DEF FireEnds, Types, LockStages
  <1>5. CASE Retire(p) BY <1>5 DEF Retire, Types, LockStages
  <1>6. CASE Converge(p) BY <1>6 DEF Converge, Idle, Types, LockStages
  <1>7. CASE StartWatcher(p) BY <1>7 DEF StartWatcher, Types, LockStages
  <1>8. CASE Ending(p)
    <2>1. UNCHANGED <<diskVars, current, deployer, home, name, todo, events,
                      registered, triggers, operation, pausing, target, prev>>
      BY <1>8 DEF Ending, MaintainEnds, MaintainDefers, MaintainFails
    <2>2. /\ proc' \in [Procs -> [kind : Kinds, gen : Names \cup {NoName}]]
          /\ gate' \in Users \cup Procs \cup {Nobody}
          /\ \A u \in Users : gate' = u <=> gate = u
      BY <1>8, MaintenanceEnds DEF Free, Types
    <2>3. CASE UNCHANGED <<outcome, pc, child, phase>>
      BY <2>1, <2>2, <2>3 DEF Types, LockStages
    <2>4. ASSUME NEW u \in Users, pc[u] = "await", child' = [child EXCEPT ![u] = Nobody],
                 Told(u) \/ Recovers(u)
          PROVE  Types' /\ LockStages'
      <3>1. /\ pc' \in [Users -> Stages] /\ outcome' \in [Users -> Outcomes]
            /\ phase' \in [Users -> {"forward", "back"}]
            /\ pc'[u] \in {"gate", "report"} /\ \A v \in Users \ {u} : pc'[v] = pc[v]
        <4>1. CASE Recovers(u)
          BY <4>1, RecoversDoes
        <4>2. CASE Told(u)
          BY <4>2, ToldDoes
        <4>3. QED BY <2>4, <4>1, <4>2
      <3>2. Types'
        BY <2>1, <2>2, <2>4, <3>1 DEF Types
      <3>3. LockStages'
        BY <2>1, <2>2, <2>4, <3>1 DEF LockStages
      <3>4. QED BY <3>2, <3>3
    <2>5. QED BY <1>8, <2>3, <2>4, MaintenanceEnds
  <1>9. QED BY <1>1, <1>2, <1>3, <1>4, <1>5, <1>6, <1>7, <1>8 DEF Runtime, Ending

LEMMA NextType ==
    ASSUME Types, LockStages, Discipline, Next
    PROVE  Types' /\ LockStages'
  <1>1. ASSUME NEW u \in Users, Command(u) PROVE Types' /\ LockStages'
    <2>1. CASE UNCHANGED activationVars /\ (Open(u) \/ Quit(u) \/ Manage(u))
      BY <2>1, ManageType, ManageLocks
    <2>2. CASE Activating(u)
      BY <2>2, ActivationType, ActivationLocks
    <2>3. QED BY <1>1, <2>1, <2>2 DEF Command, Activating
  <1>2. QED BY <1>1, RuntimeType DEF Next

---------------------------------------------------------------------------
(* One activation at a time *)

\* A command leaves what another remembers alone.
LEMMA OthersUntouched ==
    ASSUME Types, NEW u \in Users, Command(u), NEW v \in Users \ {u}
    PROVE  /\ pc'[v] = pc[v] /\ home'[v] = home[v] /\ name'[v] = name[v] /\ todo'[v] = todo[v]
           /\ target'[v] = target[v] /\ prev'[v] = prev[v] /\ phase'[v] = phase[v]
           /\ child'[v] = child[v] /\ outcome'[v] = outcome[v]
  <1>1. CASE (Open(u) \/ Quit(u) \/ (u \in Managers /\ Manage(u))) /\ UNCHANGED activationVars
    <2>1. pc'[v] = pc[v]
      <3>1. pc \in [Users -> Stages]
        BY DEF Types
      <3>2. CASE Open(u) \/ Quit(u)
        BY <3>1, <3>2 DEF Open, Quit, Goto
      <3>3. CASE Manage(u)
        <4>1. \E stage : pc' = [pc EXCEPT ![u] = stage]
          BY <3>3 DEF Manage, Build, Seal, BuildFails, Collect, Remove, CheckHolders, Rename, Delete,
                      DeleteFails, Removed, Ends, Goto
        <4>2. QED BY <3>1, <4>1
      <3>4. QED BY <1>1, <3>2, <3>3
    <2>2. home'[v] = home[v] /\ name'[v] = name[v] /\ todo'[v] = todo[v]
      BY <1>1 DEF Open, Quit, Manage, Build, Seal, BuildFails, Collect, Remove,
                  CheckHolders, Rename, Delete, DeleteFails, Removed, Types
    <2>3. QED BY <1>1, <2>1, <2>2 DEF activationVars
  <1>2. CASE Activating(u)
    <2>1. home'[v] = home[v] /\ name'[v] = name[v] /\ todo'[v] = todo[v] /\ child'[v] = child[v]
      BY <1>2 DEF Activating, Activate, TakeOperation, EnterGate, CheckForward, CheckBack, Withdraw,
                  WithdrawFails, Drain, Select, Link, LinkFails, Clear, LeaveGate, Maintain,
                  ConvergeSelf, Report, Crash, Die, Types
    <2>2. target'[v] = target[v] /\ prev'[v] = prev[v]
      BY <1>2 DEF Activating, Activate, TakeOperation, EnterGate, CheckForward, CheckBack, Withdraw,
                  WithdrawFails, Drain, Select, Link, LinkFails, Clear, LeaveGate, Maintain,
                  ConvergeSelf, Report, Crash, Types
    <2>3. CASE Raises(u)
      BY <2>1, <2>2, <2>3, RecoversDoes DEF Raises
    <2>4. CASE ~Raises(u)
      <3>1. pc'[v] = pc[v]
        BY <1>2, <2>4
           DEF Activating, Activate, TakeOperation, EnterGate, CheckForward, CheckBack, Withdraw,
               WithdrawFails, Drain, Select, Link, LinkFails, Clear, LeaveGate, Maintain,
               ConvergeSelf, Report, Reports, Crash, Die, Goto, Types
      <3>2. phase'[v] = phase[v] /\ outcome'[v] = outcome[v]
        BY <1>2, <2>4
           DEF Activating, Activate, TakeOperation, EnterGate, CheckForward, CheckBack, Withdraw,
               WithdrawFails, Drain, Select, Link, LinkFails, Clear, LeaveGate, Maintain,
               ConvergeSelf, Report, Reports, Crash, Types
      <3>3. QED BY <2>1, <2>2, <3>1, <3>2
    <2>5. QED BY <2>3, <2>4
  <1>3. QED BY <1>1, <1>2 DEF Command, Activating

\* The commands that may be in an activation: the one that holds the lock.
LEMMA OneActivation ==
    ASSUME Discipline, NEW u \in Users, NEW v \in Users, pc[u] \in Operating, pc[v] \in Operating
    PROVE  u = v
  BY DEF Discipline, Remembers

\* What the activating command remembers through a failure, and through each
\* of its steps.
LEMMA RaisesRemembers ==
    ASSUME Types, NEW u \in Users, Remembers(u), Raises(u), UNCHANGED <<target, operation>>,
           prev'[u] = prev[u], child'[u] = Nobody, home'[u] = home[u], pc[u] \in Operating \ {"report"}
    PROVE  Remembers(u)'
  BY RecoversDoes DEF Raises, Remembers, Operating, Goal, Success, Types

\* The stages of a command that does not activate.
Managing == {"idle", "ready", "end", "populate", "remove", "rename", "delete"}

LEMMA ManageStages ==
    ASSUME Types, NEW u \in Users, Open(u) \/ Quit(u) \/ Manage(u)
    PROVE  pc[u] \in Managing /\ pc'[u] \in Managing /\ (pc'[u] = "idle" => home'[u] = NoName)
  <1>1. pc \in [Users -> Stages]
    BY DEF Types
  <1>2. CASE Open(u) BY <1>1, <1>2 DEF Open, Goto, Managing
  <1>3. CASE Quit(u) BY <1>1, <1>3 DEF Quit, Goto, Types, Managing
  <1>4. CASE Build(u) \/ Seal(u) \/ BuildFails(u) \/ Removed(u)
    BY <1>1, <1>4 DEF Build, Seal, BuildFails, Removed, Ends, Goto, Managing
  <1>5. CASE Collect(u) \/ Remove(u) \/ CheckHolders(u)
    BY <1>1, <1>5 DEF Collect, Remove, CheckHolders, Ends, Goto, Managing
  <1>6. CASE Rename(u) \/ Delete(u) \/ DeleteFails(u)
    BY <1>1, <1>6 DEF Rename, Delete, DeleteFails, Ends, Goto, Managing
  <1>7. QED BY <1>2, <1>3, <1>4, <1>5, <1>6 DEF Manage

LEMMA ManageRemembers ==
    ASSUME Types, NEW u \in Users, Remembers(u), Open(u) \/ Quit(u) \/ Manage(u), UNCHANGED activationVars
    PROVE  Remembers(u)'
  <1>1. pc[u] \in Managing /\ pc'[u] \in Managing /\ (pc'[u] = "idle" => home'[u] = NoName)
    BY ManageStages
  <1>2. QED BY <1>1 DEF activationVars, Remembers, Operating, Managing, Goal

LEMMA ActivatingRemembers ==
    ASSUME Types, NEW u \in Users, Remembers(u), Activating(u)
    PROVE  Remembers(u)'
  <1>1. CASE /\ Raises(u) /\ UNCHANGED prev
             /\ \/ EnterGate(u) \/ CheckForward(u) \/ CheckBack(u) \/ Withdraw(u) \/ WithdrawFails(u)
                \/ Drain(u) \/ Select(u) \/ LinkFails(u) \/ ConvergeSelf(u)
    <2>1. /\ UNCHANGED <<target, operation, home, child>> /\ child[u] = Nobody
          /\ pc[u] \in Operating \ {"report"}
      BY <1>1 DEF EnterGate, CheckForward, CheckBack, Withdraw, WithdrawFails, Drain, Select, LinkFails,
                  ConvergeSelf, Operating, Remembers
    <2>2. QED BY <1>1, <2>1, RaisesRemembers
  <1> USE GenerationAssumption DEF Goto, Types, Remembers, Operating, Goal, Stages
  <1>2. CASE Activate(u) BY <1>2 DEF Activate, Generation, Sealed
  <1>3. CASE TakeOperation(u) BY <1>3 DEF TakeOperation
  <1>4. CASE EnterGate(u) /\ ~Raises(u) BY <1>4 DEF EnterGate
  <1>5. CASE CheckForward(u) /\ ~(Raises(u) /\ UNCHANGED prev)
    BY <1>5 DEF CheckForward, Generation, NoGeneration
  <1>6. CASE CheckBack(u) /\ ~Raises(u) BY <1>6 DEF CheckBack
  <1>7. CASE (Withdraw(u) \/ Drain(u)) /\ ~Raises(u) BY <1>7 DEF Withdraw, Drain
  <1>8. CASE Select(u) /\ ~Raises(u) BY <1>8 DEF Select
  <1>9. CASE Link(u) BY <1>9 DEF Link
  <1>10. CASE Clear(u) BY <1>10 DEF Clear
  <1>11. CASE LeaveGate(u) BY <1>11 DEF LeaveGate
  <1>12. CASE Maintain(u) BY <1>12 DEF Maintain
  <1>13. CASE ConvergeSelf(u) /\ ~Raises(u)
    <2>1. /\ pc[u] = "converge" /\ pc' = [pc EXCEPT ![u] = "report"]
          /\ outcome' = [outcome EXCEPT ![u] = "restored"]
          /\ UNCHANGED <<phase, home, operation, target, prev, child>>
      BY <1>13 DEF ConvergeSelf, Reports
    <2>2. pc'[u] = "report" /\ outcome'[u] \notin Success
      BY <2>1 DEF Success
    <2>3. QED BY <2>1, <2>2
  <1>14. CASE Report(u) BY <1>14 DEF Report, Free
  <1>15. CASE Crash(u) BY <1>15 DEF Crash, Die, Free
  <1>16. QED BY <1>1, <1>2, <1>3, <1>4, <1>5, <1>6, <1>7, <1>8, <1>9, <1>10, <1>11, <1>12,
               <1>13, <1>14, <1>15
           DEF Activating, EnterGate, CheckBack, Withdraw, WithdrawFails, Drain, Select, LinkFails, ConvergeSelf

\* A process of the runtime leaves the disk, the selection and the locks of
\* the commands alone, and the command of an activation goes on when the
\* maintenance it waits for ends.
LEMMA RuntimeFrame ==
    ASSUME Types, LockStages, Discipline, NEW p \in Procs, Runtime(p)
    PROVE  /\ UNCHANGED <<diskVars, current, deployer, home, name, todo, events,
                          registered, operation, pausing, target, prev>>
           /\ \/ UNCHANGED <<outcome, pc, child, phase>>
              \/ \E u \in Users :
                    /\ child[u] = p /\ pc[u] = "await" /\ child' = [child EXCEPT ![u] = Nobody]
                    /\ Told(u) \/ Recovers(u)
                    /\ outcome'[u] \in {"ok", "restored"} => gate = p
  <1>1. CASE Ending(p)
    BY <1>1, MaintenanceEnds DEF Ending, MaintainEnds, MaintainDefers, MaintainFails
  <1>2. CASE ~Ending(p)
    BY <1>2 DEF Ending, Runtime, Launch, RunEnds, Fire, FireEnds, Retire, Converge, StartWatcher, activationVars
  <1>3. QED BY <1>1, <1>2

LEMMA RuntimeRemembers ==
    ASSUME Types, LockStages, Discipline, NEW p \in Procs, Runtime(p), NEW v \in Users
    PROVE  Remembers(v)'
  <1>1. /\ UNCHANGED <<home, operation, target, prev>> /\ Remembers(v)
    BY RuntimeFrame DEF Discipline
  <1>2. CASE UNCHANGED <<outcome, pc, child, phase>>
    BY <1>1, <1>2 DEF Remembers, Goal
  <1>3. ASSUME NEW u \in Users, pc[u] = "await", child' = [child EXCEPT ![u] = Nobody],
               Told(u) \/ Recovers(u)
        PROVE  Remembers(v)'
    <2>1. CASE v = u
      <3>1. CASE Recovers(u)
        <4>1. operation = u /\ outcome[u] = "none" /\ target[u].name \in Names
              /\ (prev[u] = NoGeneration \/ prev[u].name \in Names)
          BY <1>1, <1>3, <2>1 DEF Remembers, Operating
        <4>2. /\ pc'[u] \in {"gate", "report"} /\ (pc'[u] = "gate" => phase'[u] = "back")
              /\ (pc'[u] = "gate" => outcome'[u] = "none") /\ outcome'[u] \notin Success
          BY <3>1, <4>1, RecoversDoes DEF Success
        <4>3. child'[u] = Nobody
          BY <1>3 DEF Types
        <4>4. QED BY <1>1, <2>1, <4>1, <4>2, <4>3 DEF Remembers, Operating
      <3>2. CASE Told(u)
        <4>1. operation = u /\ target[u].name \in Names
              /\ (prev[u] = NoGeneration \/ prev[u].name \in Names)
          BY <1>1, <1>3, <2>1 DEF Remembers, Operating
        <4>2. /\ pc'[u] = "report" /\ phase'[u] = phase[u]
              /\ (outcome'[u] \in Success => phase[u] = "forward")
          <5>1. outcome'[u] \in IF phase[u] = "forward" THEN Success ELSE Return
            BY <3>2, ToldDoes
          <5>2. pc' = [pc EXCEPT ![u] = "report"] /\ phase' = phase
            BY <3>2, ToldDoes
          <5>3. QED BY <5>1, <5>2 DEF Success, Return, Types
        <4>3. child'[u] = Nobody
          BY <1>3 DEF Types
        <4>4. QED BY <1>1, <2>1, <4>1, <4>2, <4>3 DEF Remembers, Operating
      <3>3. QED BY <1>3, <3>1, <3>2
    <2>2. CASE v # u
      <3>1. pc'[v] = pc[v] /\ phase'[v] = phase[v] /\ outcome'[v] = outcome[v] /\ child'[v] = child[v]
        BY <1>3, <2>2, RecoversDoes, ToldDoes DEF Types
      <3>2. QED BY <1>1, <3>1 DEF Remembers, Goal
    <2>3. QED BY <2>1, <2>2
  <1>4. QED BY <1>2, <1>3, RuntimeFrame

LEMMA DisciplineHolds ==
    ASSUME Types, LockStages, Discipline, Next
    PROVE  Discipline'
  <1>1. ASSUME NEW u \in Users, Command(u), NEW v \in Users
        PROVE  Remembers(v)'
    <2>1. CASE v = u
      <3>1. Remembers(u)
        BY DEF Discipline
      <3>2. CASE UNCHANGED activationVars /\ (Open(u) \/ Quit(u) \/ Manage(u))
        BY <2>1, <3>1, <3>2, ManageRemembers
      <3>3. CASE Activating(u)
        BY <2>1, <3>1, <3>3, ActivatingRemembers
      <3>4. QED BY <1>1, <3>2, <3>3 DEF Command, Activating
    <2>2. CASE v # u
      <3>1. Remembers(v)
        BY DEF Discipline
      <3>2. operation' = v <=> operation = v
        BY <1>1, <2>2, GenerationAssumption
           DEF Command, Activating, activationVars, Activate, TakeOperation, EnterGate, CheckForward, CheckBack,
               Withdraw, WithdrawFails, Drain, Select, Link, LinkFails, Clear, LeaveGate, Maintain,
               ConvergeSelf, Report, Crash, Free
      <3>3. QED BY <1>1, <2>2, <3>1, <3>2, OthersUntouched DEF Remembers, Goal
    <2>3. QED BY <2>1, <2>2
  <1>2. QED BY <1>1, RuntimeRemembers DEF Next, Discipline

---------------------------------------------------------------------------
(* The selection and the disk *)

\* Only the activation that holds the operation lock moves current.
LEMMA CurrentMoves ==
    ASSUME NEW u \in Users, Command(u)
    PROVE  UNCHANGED current \/ pc[u] \in {"select", "link"}
  BY DEF Command, activationVars, Open, Quit, Manage, Build, Seal, BuildFails, Collect, Remove, CheckHolders,
         Rename, Delete, DeleteFails, Removed, Activate, TakeOperation, EnterGate, CheckForward,
         CheckBack, Withdraw, WithdrawFails, Drain, Select, Link, LinkFails, Clear, LeaveGate, Maintain,
         ConvergeSelf, Report, Crash, Die

\* While a command holds the deployment lock, another neither changes a
\* generation nor selects one.
LEMMA LockKeeps ==
    ASSUME Types, LockStages, NEW u \in Users, Command(u), NEW v \in Users \ {u}, deployer = v
    PROVE  UNCHANGED dir /\ current' \in {current, NoName}
  <1>1. deployer # u /\ deployer # Nobody
    BY GenerationAssumption
  <1>2. pc[u] \notin {"populate", "remove", "rename", "delete", "link"}
    BY <1>1 DEF LockStages
  <1>3. QED
    BY <1>1, <1>2
       DEF Command, activationVars, diskVars, Lock, Open, Quit, Manage, Build, Seal, BuildFails, Collect, Remove,
           CheckHolders, Rename, Delete, DeleteFails, Removed, Activate, TakeOperation, EnterGate, CheckForward,
           CheckBack, Withdraw, WithdrawFails, Drain, Select, Link, LinkFails, Clear, LeaveGate, Maintain,
           ConvergeSelf, Report, Crash, Die

\* A generation changes only under the lock, and what an activation does
\* changes none.
LEMMA ActivatingKeepsDisk ==
    ASSUME NEW u \in Users, Activating(u)
    PROVE  UNCHANGED dir
  BY DEF Activating, diskVars, Activate, TakeOperation, EnterGate, CheckForward,
           CheckBack, Withdraw, WithdrawFails, Drain, Select, Link, LinkFails, Clear, LeaveGate, Maintain,
           ConvergeSelf, Report, Crash, Die

\* Current is moved to what has just been loaded or put back to what was
\* loaded before, and what is renamed away is not selected.
LEMMA CompleteHolds ==
    ASSUME Types, LockStages, Discipline, Complete, Locked, Selected, Next
    PROVE  Complete'
  <1>1. ASSUME NEW u \in Users, Open(u) \/ Quit(u) \/ Manage(u)
        PROVE  Complete'
    <2>1. UNCHANGED current
      BY <1>1 DEF Open, Quit, Manage, Build, Seal, BuildFails, Collect, Remove, CheckHolders,
                  Rename, Delete, DeleteFails, Removed
    <2>2. CASE Build(u)
      BY <2>1, <2>2 DEF Build, Complete, Sealed, Types
    <2>3. CASE Seal(u)
      BY <2>1, <2>3 DEF Seal, Complete, Sealed, Types
    <2>4. CASE Rename(u)
      <3>1. name[u] # current
        BY <2>4 DEF Rename, Locked, FoundOut
      <3>2. QED BY <2>1, <2>4, <3>1 DEF Rename, Complete, Sealed, Types
    <2>5. CASE ~(Build(u) \/ Seal(u) \/ Rename(u))
      BY <1>1, <2>1, <2>5 DEF Open, Quit, Manage, BuildFails, Collect, Remove, CheckHolders,
                  Delete, DeleteFails, Removed, diskVars, Complete, Sealed
    <2>6. QED BY <2>2, <2>3, <2>4, <2>5
  <1>2. ASSUME NEW u \in Users, Activating(u)
        PROVE  Complete'
    <2>1. Sealed' = Sealed
      BY <1>2, ActivatingKeepsDisk DEF Sealed
    <2>2. CASE UNCHANGED current
      BY <2>1, <2>2 DEF Complete
    <2>3. CASE Select(u)
      BY <2>1, <2>2, <2>3 DEF Select, Loads, Complete
    <2>4. CASE Link(u) \/ LinkFails(u)
      BY <2>1, <2>4 DEF Link, LinkFails, Locked, FoundOut, Complete
    <2>5. CASE Clear(u)
      BY <2>1, <2>5 DEF Clear, Complete
    <2>6. QED
      BY <1>2, <2>2, <2>3, <2>4, <2>5
         DEF Activating, Activate, TakeOperation, EnterGate, CheckForward, CheckBack, Withdraw,
             WithdrawFails, Drain, LeaveGate, Maintain, ConvergeSelf, Report, Crash, Die
  <1>3. ASSUME NEW p \in Procs, Runtime(p)
        PROVE  Complete'
    BY <1>3, RuntimeFrame DEF diskVars, Complete, Sealed
  <1>4. QED BY <1>1, <1>2, <1>3 DEF Next, Command, Activating

\* A process executes what it executed, nothing, or what is selected.
LEMMA ExecutingMoves ==
    ASSUME Types, LockStages, Discipline, Selected, Next, NEW x \in Procs \cup Users
    PROVE  Executing'[x] \in {Executing[x], NoName, current}
  <1>1. /\ Executing[x] = IF x \in Procs THEN proc[x].gen ELSE home[x]
        /\ Executing'[x] = IF x \in Procs THEN proc'[x].gen ELSE home'[x]
    BY DEF Executing
  <1>2. ASSUME NEW u \in Users, Open(u) \/ Quit(u) \/ Manage(u)
        PROVE  Executing'[x] \in {Executing[x], NoName, current}
    BY <1>1, <1>2 DEF Open, Quit, Manage, Build, Seal, BuildFails, Collect, Remove, CheckHolders,
                Rename, Delete, DeleteFails, Removed, Types
  <1>3. ASSUME NEW u \in Users, Activating(u)
        PROVE  Executing'[x] \in {Executing[x], NoName, current}
    <2>1. CASE Drain(u)
      BY <1>1, <2>1 DEF Drain, Gone, Types
    <2>2. CASE Maintain(u)
      <3>1. Goal(u).name = current
        BY <2>2 DEF Maintain, Selected, FoundSelected
      <3>2. QED BY <1>1, <2>2, <3>1 DEF Maintain, Types
    <2>3. CASE Crash(u)
      BY <1>1, <2>3 DEF Crash, Die, Types
    <2>4. CASE ~(Drain(u) \/ Maintain(u) \/ Crash(u))
      BY <1>1, <1>3, <2>4
         DEF Activating, Activate, TakeOperation, EnterGate, CheckForward, CheckBack, Withdraw,
             WithdrawFails, Select, Link, LinkFails, Clear, LeaveGate, ConvergeSelf, Report
    <2>5. QED BY <2>1, <2>2, <2>3, <2>4
  <1>4. ASSUME NEW p \in Procs, Runtime(p)
        PROVE  Executing'[x] \in {Executing[x], NoName, current}
    <2>1. UNCHANGED home
      BY <1>4, RuntimeFrame
    <2>2. CASE Ending(p)
      BY <1>1, <2>1, <2>2, MaintenanceEnds DEF Gone, Types
    <2>3. CASE ~Ending(p)
      BY <1>1, <1>4, <2>1, <2>3
         DEF Ending, Runtime, Launch, RunEnds, Fire, FireEnds, Retire, Converge, StartWatcher, Become, Gone, Types
    <2>4. QED BY <2>2, <2>3
  <1>5. QED BY <1>2, <1>3, <1>4 DEF Next, Command, Activating

\* A generation that nothing executes, and that is not selected, stays so.
LEMMA UnheldStays ==
    ASSUME Types, LockStages, Discipline, Selected, Next, NEW n \in Names \ {current}, ~Held(n)
    PROVE  ~Held(n)'
  <1>1. \A x \in Procs \cup Users : Executing[x] # n
    BY DEF Held
  <1>2. \A x \in Procs \cup Users : Executing'[x] # n
    BY <1>1, ExecutingMoves, GenerationAssumption
  <1>3. QED BY <1>2 DEF Held

\* What a command finds out under the deployment lock is so when it acts.
LEMMA ManageFindsOut ==
    ASSUME Types, LockStages, Discipline, Complete, Selected, Next, NEW u \in Users, FoundOut(u),
           Open(u) \/ Quit(u) \/ Manage(u), UNCHANGED activationVars
    PROVE  FoundOut(u)'
  <1> USE DEF Goto, Ends, Types, Stages
  <1>1. CASE Build(u)
    BY <1>1 DEF Build, FoundOut
  <1>2. CASE Collect(u)
    <2>1. \A retain \in Retain : current \notin Collectable(retain)
      BY DEF Collectable, Superseded
    <2>2. pc'[u] = "remove" /\ current' = current /\ current \notin todo'[u]
      BY <1>2, <2>1 DEF Collect
    <2>3. QED BY <2>2 DEF FoundOut
  <1>3. CASE Remove(u)
    BY <1>3 DEF Remove, FoundOut
  <1>4. CASE CheckHolders(u)
    <2>1. CASE pc'[u] = "rename"
      <3>1. PICK n \in todo[u] : dir[n] = "sealed" /\ ~Held(n) /\ name' = [name EXCEPT ![u] = n]
        BY <1>4, <2>1 DEF CheckHolders
      <3>2. n \in Names \ {current} /\ name'[u] = n
        BY <1>4, <3>1 DEF CheckHolders, FoundOut
      <3>3. ~Held(n)'
        BY <3>1, <3>2, UnheldStays
      <3>4. UNCHANGED <<dir, current, todo>> /\ current \notin todo[u]
        BY <1>4 DEF CheckHolders, FoundOut, diskVars
      <3>5. QED BY <2>1, <3>1, <3>2, <3>3, <3>4 DEF FoundOut, Sealed, Held
    <2>2. CASE pc'[u] # "rename"
      BY <1>4, <2>2 DEF CheckHolders, FoundOut
    <2>3. QED BY <2>1, <2>2
  <1>5. CASE Rename(u)
    BY <1>5 DEF Rename, FoundOut
  <1>6. CASE Delete(u)
    BY <1>6 DEF Delete, FoundOut
  <1>7. CASE Open(u) \/ Quit(u) \/ Seal(u) \/ BuildFails(u) \/ DeleteFails(u) \/ Removed(u)
    <2>1. pc'[u] \in {"idle", "ready", "end"}
      BY <1>7 DEF Open, Quit, Seal, BuildFails, DeleteFails, Removed
    <2>2. QED BY <2>1 DEF FoundOut
  <1>8. QED BY <1>1, <1>2, <1>3, <1>4, <1>5, <1>6, <1>7 DEF Manage

LEMMA ActivatingFindsOut ==
    ASSUME Types, Discipline, Complete, Selected, NEW u \in Users, Activating(u)
    PROVE  FoundOut(u)'
  <1>1. CASE Select(u) /\ pc'[u] = "link"
    <2>1. /\ Goal(u).name \in Sealed /\ UNCHANGED <<phase, target, prev, dir>>
      BY <1>1, RecoversDoes DEF Select, Loads, Raises, diskVars
    <2>2. prev[u].name \in Sealed \cup {NoName}
      <3>1. CASE phase[u] = "forward"
        BY <1>1, <3>1 DEF Select, Complete, Selected, FoundSelected
      <3>2. CASE phase[u] # "forward"
        BY <2>1, <3>2 DEF Goal
      <3>3. QED BY <3>1, <3>2
    <2>3. QED BY <1>1, <2>1, <2>2 DEF FoundOut, Goal, Sealed
  <1>2. CASE ~(Select(u) /\ pc'[u] = "link")
    <2>1. pc'[u] \notin {"populate", "remove", "rename", "delete", "link"}
      <3>1. CASE Recovers(u)
        BY <3>1, RecoversDoes
      <3>2. CASE ~Recovers(u)
        <4> USE DEF Goto
        <4>1. pc \in [Users -> Stages]
          BY DEF Types
        <4>2. CASE Activate(u) \/ TakeOperation(u) \/ EnterGate(u) \/ LeaveGate(u) \/ Maintain(u) \/ Clear(u)
          BY <3>2, <4>1, <4>2 DEF Activate, TakeOperation, EnterGate, LeaveGate, Maintain, Clear, Raises
        <4>3. CASE CheckForward(u) \/ CheckBack(u)
          BY <3>2, <4>1, <4>3 DEF CheckForward, CheckBack, Raises
        <4>4. CASE Withdraw(u) \/ WithdrawFails(u) \/ Drain(u)
          BY <3>2, <4>1, <4>4 DEF Withdraw, WithdrawFails, Drain, Raises
        <4>5. CASE Select(u)
          BY <1>2, <3>2, <4>1, <4>5 DEF Select, Raises
        <4>6. CASE Link(u) \/ LinkFails(u)
          BY <3>2, <4>1, <4>6 DEF Link, LinkFails, Raises
        <4>7. CASE ConvergeSelf(u) \/ Report(u) \/ Crash(u)
          BY <3>2, <4>1, <4>7 DEF ConvergeSelf, Report, Reports, Crash, Die, Raises
        <4>8. QED BY <4>2, <4>3, <4>4, <4>5, <4>6, <4>7 DEF Activating
      <3>3. QED BY <3>1, <3>2
    <2>2. QED BY <2>1 DEF FoundOut
  <1>3. QED BY <1>1, <1>2

LEMMA LockedHolds ==
    ASSUME Types, LockStages, Discipline, Complete, Locked, Selected, Next
    PROVE  Locked'
  <1>1. ASSUME NEW u \in Users, Command(u), NEW v \in Users
        PROVE  FoundOut(v)'
    <2>1. CASE v = u
      <3>1. CASE UNCHANGED activationVars /\ (Open(u) \/ Quit(u) \/ Manage(u))
        BY <2>1, <3>1, ManageFindsOut DEF Locked
      <3>2. CASE Activating(u)
        BY <2>1, <3>2, ActivatingFindsOut
      <3>3. QED BY <1>1, <3>1, <3>2 DEF Command, Activating
    <2>2. CASE v # u /\ pc[v] \in {"populate", "remove", "rename", "delete", "link"}
      <3>1. deployer = v
        BY <2>2 DEF LockStages
      <3>2. UNCHANGED dir /\ current' \in {current, NoName}
        BY <1>1, <2>2, <3>1, LockKeeps
      <3>3. /\ pc'[v] = pc[v] /\ name'[v] = name[v] /\ todo'[v] = todo[v]
            /\ prev'[v] = prev[v] /\ Goal(v)' = Goal(v)
        BY <1>1, <2>2, OthersUntouched DEF Goal
      <3>4. FoundOut(v)
        BY DEF Locked
      <3>5. ASSUME pc[v] = "rename" PROVE ~Held(name[v])'
        <4>1. PICK n \in Names \ {current} : n = name[v] /\ ~Held(n)
          BY <3>5, <3>4 DEF FoundOut, Sealed
        <4>2. ~Held(n)' /\ name'[v] = n
          BY <1>1, <3>3, <4>1, UnheldStays DEF Next
        <4>3. QED BY <4>2 DEF Held
      <3>6. NoName \notin todo[v] /\ NoName \notin Names
        BY GenerationAssumption DEF Types
      <3>7. QED BY <3>2, <3>3, <3>5, <3>4, <3>6 DEF FoundOut, Sealed
    <2>3. CASE v # u /\ pc[v] \notin {"populate", "remove", "rename", "delete", "link"}
      BY <1>1, <2>3, OthersUntouched DEF FoundOut
    <2>4. QED BY <2>1, <2>2, <2>3
  <1>2. ASSUME NEW p \in Procs, Runtime(p), NEW v \in Users
        PROVE  FoundOut(v)'
    <2>1. UNCHANGED <<dir, current, name, todo, target, prev>>
      BY <1>2, RuntimeFrame DEF diskVars
    <2>2. CASE pc'[v] = pc[v]
      <3>1. pc[v] = "link" => phase'[v] = phase[v]
        BY <1>2, RuntimeFrame, RecoversDoes, ToldDoes DEF Types
      <3>2. FoundOut(v)
        BY DEF Locked
      <3>3. ASSUME pc[v] = "rename" PROVE ~Held(name[v])'
        <4>1. PICK n \in Names \ {current} : n = name[v] /\ ~Held(n)
          BY <3>3, <3>2 DEF FoundOut, Sealed
        <4>2. ~Held(n)' /\ name'[v] = n
          BY <1>2, <2>1, <4>1, UnheldStays DEF Next
        <4>3. QED BY <4>2 DEF Held
      <3>4. QED BY <2>1, <2>2, <3>1, <3>3, <3>2 DEF FoundOut, Goal, Sealed
    <2>3. CASE pc'[v] # pc[v]
      <3>1. pc'[v] \in {"gate", "report"}
        BY <1>2, <2>3, RuntimeFrame, RecoversDoes, ToldDoes DEF Types
      <3>2. QED BY <3>1 DEF FoundOut
    <2>4. QED BY <2>2, <2>3
  <1>3. QED BY <1>1, <1>2 DEF Next, Locked

\* An activation knows what is selected from its check to its report.
LEMMA ActivatingSelects ==
    ASSUME Types, Discipline, Complete, Locked, Selected, NEW u \in Users, Activating(u)
    PROVE  FoundSelected(u)'
  <1>1. Remembers(u) /\ FoundSelected(u) /\ FoundOut(u)
    BY DEF Discipline, Selected, Locked
  <1>2. CASE /\ Raises(u) /\ UNCHANGED prev
             /\ \/ EnterGate(u) \/ CheckForward(u) \/ CheckBack(u) \/ Withdraw(u) \/ WithdrawFails(u)
                \/ Drain(u) \/ Select(u) \/ LinkFails(u) \/ ConvergeSelf(u)
    <2>1. pc[u] \in Operating \ {"report"}
      BY <1>2 DEF EnterGate, CheckForward, CheckBack, Withdraw, WithdrawFails, Drain, Select, LinkFails,
                  ConvergeSelf, Operating
    <2>2. /\ pc'[u] \in {"gate", "report"} /\ outcome'[u] \notin Success \cup Return
          /\ pc'[u] = "gate" => phase'[u] = "back"
      BY <1>1, <1>2, <2>1, RecoversDoes DEF Raises, Remembers, Operating, Success, Return, Types
    <2>3. QED BY <1>2, <2>2 DEF FoundSelected
  <1>a. pc[u] # "report" => outcome[u] \notin Success \cup Return
    BY <1>1 DEF Remembers, Success, Return
  <1>b. pc[u] \in {"select", "converge"} /\ Goal(u) = NoGeneration =>
          phase[u] = "back" /\ prev[u] = NoGeneration
    BY <1>1, GenerationAssumption DEF Remembers, Operating, Goal, NoGeneration, Types
  <1> USE DEF Goto, Types, FoundSelected, Goal, Stages
  <1>3. CASE Activate(u) \/ TakeOperation(u) BY <1>1, <1>a, <1>3 DEF Activate, TakeOperation
  <1>4. CASE EnterGate(u) /\ ~Raises(u) BY <1>1, <1>a, <1>4 DEF EnterGate
  <1>5. CASE CheckForward(u) /\ ~(Raises(u) /\ UNCHANGED prev)
    <2>1. /\ UNCHANGED <<current, phase, outcome>> /\ pc[u] = "check" /\ phase[u] = "forward"
          /\ pc' = [pc EXCEPT ![u] = IF registered THEN "stop" ELSE "select"]
          /\ prev' = [prev EXCEPT ![u] = IF current = NoName THEN NoGeneration ELSE Generation(current)]
      BY <1>5 DEF CheckForward
    <2>2. prev'[u].name = current /\ pc'[u] \in {"stop", "select"}
      BY <2>1 DEF Generation, NoGeneration
    <2>3. QED BY <1>a, <2>1, <2>2
  <1>6. CASE CheckBack(u) /\ ~Raises(u) BY <1>1, <1>a, <1>6 DEF CheckBack
  <1>7. CASE (Withdraw(u) \/ Drain(u)) /\ ~Raises(u) BY <1>1, <1>a, <1>7 DEF Withdraw, Drain
  <1>8. CASE Select(u) /\ ~Raises(u) BY <1>1, <1>a, <1>8 DEF Select
  <1>9. CASE Link(u) BY <1>1, <1>a, <1>9 DEF Link
  <1>10. CASE Clear(u)
    <2>1. /\ phase'[u] = "back" /\ prev'[u] = NoGeneration /\ current' = NoName
          /\ pc'[u] = "leave" /\ outcome'[u] = outcome[u] /\ pc[u] = "select"
      BY <1>b, <1>10 DEF Clear
    <2>2. QED BY <1>a, <2>1 DEF NoGeneration
  <1>11. CASE LeaveGate(u) BY <1>1, <1>a, <1>11 DEF LeaveGate
  <1>12. CASE Maintain(u) BY <1>1, <1>a, <1>12 DEF Maintain
  <1>13. CASE ConvergeSelf(u) /\ ~Raises(u)
    <2>1. /\ phase[u] = "back" /\ prev[u] = NoGeneration /\ pc[u] = "converge"
          /\ pc'[u] = "report" /\ outcome'[u] = "restored" /\ UNCHANGED <<current, prev, target>>
      BY <1>b, <1>13 DEF ConvergeSelf, Reports
    <2>2. current = NoName
      BY <1>1, <2>1 DEF NoGeneration
    <2>3. QED BY <2>1, <2>2 DEF NoGeneration, Success, Return
  <1>14. CASE Report(u) BY <1>14 DEF Report, Success, Return
  <1>15. CASE Crash(u) BY <1>15 DEF Crash, Die, Success, Return
  <1>16. QED BY <1>2, <1>3, <1>4, <1>5, <1>6, <1>7, <1>8, <1>9, <1>10, <1>11, <1>12,
               <1>13, <1>14, <1>15
           DEF Activating, EnterGate, CheckBack, Withdraw, WithdrawFails, Drain, Select, LinkFails, ConvergeSelf

LEMMA SelectedHolds ==
    ASSUME Types, LockStages, Discipline, Complete, Locked, Selected, Next
    PROVE  Selected'
  <1>1. ASSUME NEW u \in Users, Command(u), NEW v \in Users
        PROVE  FoundSelected(v)'
    <2>1. FoundSelected(v) /\ Remembers(v)
      BY DEF Selected, Discipline
    <2>2. CASE v = u /\ Activating(u)
      BY <2>2, ActivatingSelects
    <2>3. CASE v = u /\ UNCHANGED activationVars /\ (Open(u) \/ Quit(u) \/ Manage(u))
      <3>1. pc[u] \notin Operating /\ pc'[u] \notin Operating
        BY <2>3, ManageStages DEF Managing, Operating
      <3>2. outcome[u] \notin Success \cup Return
        BY <2>1, <2>3, <3>1 DEF Remembers, Operating, Success, Return
      <3>3. QED BY <2>3, <3>1, <3>2 DEF activationVars, FoundSelected, Operating
    <2>4. CASE v # u /\ UNCHANGED current
      BY <1>1, <2>1, <2>4, OthersUntouched DEF FoundSelected, Goal
    <2>5. CASE v # u /\ ~UNCHANGED current
      <3>1. pc[u] \in Operating
        BY <1>1, <2>5, CurrentMoves DEF Operating
      <3>2. pc[v] \notin Operating
        BY <2>5, <3>1, OneActivation
      <3>3. outcome[v] \notin Success \cup Return
        BY <2>1, <3>2 DEF Remembers, Operating, Success, Return
      <3>4. QED BY <1>1, <2>5, <3>2, <3>3, OthersUntouched DEF FoundSelected, Operating
    <2>6. QED BY <1>1, <2>2, <2>3, <2>4, <2>5 DEF Command, Activating
  <1>2. ASSUME NEW p \in Procs, Runtime(p), NEW v \in Users
        PROVE  FoundSelected(v)'
    <2>1. UNCHANGED <<current, target, prev>>
      BY <1>2, RuntimeFrame
    <2>2. FoundSelected(v) /\ Remembers(v)
      BY DEF Selected, Discipline
    <2>3. CASE pc'[v] = pc[v] /\ phase'[v] = phase[v] /\ outcome'[v] = outcome[v]
      BY <2>1, <2>2, <2>3 DEF FoundSelected, Goal
    <2>4. CASE pc[v] = "await" /\ Told(v)
      BY <2>1, <2>2, <2>4, ToldDoes DEF FoundSelected, Goal, Success, Return, Types
    <2>5. CASE pc[v] = "await" /\ Recovers(v)
      BY <2>1, <2>2, <2>5, RecoversDoes DEF FoundSelected, Goal, Remembers, Success, Return
    <2>6. QED BY <1>2, <2>3, <2>4, <2>5, RuntimeFrame, RecoversDoes, ToldDoes DEF Types
  <1>3. QED BY <1>1, <1>2 DEF Next, Selected

---------------------------------------------------------------------------
(* What a maintenance has converged *)

\* No command touches what a maintenance under the gate relies on: whoever
\* stops the runtime or moves current holds the gate.
LEMMA CommandConverges ==
    ASSUME Types, LockStages, Discipline, Converged, NEW u \in Users, Command(u)
    PROVE  Converged'
  <1> DEFINE stopping == pc[u] \in {"stop", "drain", "select", "link"}
  <1>1. UNCHANGED registered
    BY DEF Command, activationVars, Activate, TakeOperation, EnterGate, CheckForward, CheckBack, Withdraw,
           WithdrawFails, Drain, Select, Link, LinkFails, Clear, LeaveGate, Maintain, ConvergeSelf,
           Report, Crash
  <1>2. triggers' = triggers \/ stopping \/ (triggers' = (registered \/ triggers) /\ (registered => gate = Nobody))
    BY DEF Command, activationVars, Activate, TakeOperation, EnterGate, CheckForward, CheckBack, Withdraw,
           WithdrawFails, Drain, Select, Link, LinkFails, Clear, LeaveGate, Maintain, ConvergeSelf,
           Report, Crash
  <1>3. stopping => gate = u /\ pc[u] \in Operating
    BY DEF LockStages, Operating
  <1>4. \A p \in Procs : proc'[p] = proc[p] \/ proc[p].kind # "maintain"
    <2>1. CASE Drain(u)
      BY <2>1 DEF Drain, Idle, Gone
    <2>2. CASE Maintain(u)
      BY <2>2 DEF Maintain, Gone, Types
    <2>3. CASE ~(Drain(u) \/ Maintain(u))
      BY <2>3
         DEF Command, Open, Quit, Manage, Build, Seal, BuildFails, Collect, Remove, CheckHolders, Rename,
             Delete, DeleteFails, Removed, Activate, TakeOperation, EnterGate, CheckForward, CheckBack,
             Withdraw, WithdrawFails, Select, Link, LinkFails, Clear, LeaveGate, ConvergeSelf, Report,
             Crash, Die
    <2>4. QED BY <2>1, <2>2, <2>3
  <1>5. gate' \in Procs => gate' = gate
    BY GenerationAssumption
       DEF Command, activationVars, Raises, Free, Activate, TakeOperation, EnterGate, CheckForward, CheckBack,
           Withdraw, WithdrawFails, Drain, Select, Link, LinkFails, Clear, LeaveGate, Maintain,
           ConvergeSelf, Report, Crash
  <1>6. ASSUME gate' \in Procs
        PROVE  proc'[gate'].kind = "maintain" /\ triggers' = registered'
    <2>1. gate' = gate /\ ~stopping /\ gate # Nobody
      BY <1>3, <1>5, <1>6, GenerationAssumption
    <2>2. triggers' = registered'
      BY <1>1, <1>2, <1>6, <2>1 DEF Converged, Types
    <2>3. QED BY <1>4, <1>6, <2>1, <2>2 DEF Converged
  <1>7. ASSUME NEW v \in Users, outcome'[v] \in {"ok", "restored"}
        PROVE  registered' => triggers'
    <2>1. CASE outcome'[v] = outcome[v]
      <3>1. pc[v] = "report" /\ pc[v] \in Operating
        BY <1>7, <2>1 DEF Discipline, Remembers, Operating
      <3>2. ~stopping
        BY <1>3, <3>1, OneActivation
      <3>3. QED BY <1>1, <1>2, <1>7, <2>1, <3>2 DEF Converged, Types
    <2>2. CASE outcome'[v] # outcome[v]
      <3>1. v = u /\ ~UNCHANGED activationVars /\ outcome'[u] \in {"ok", "restored"}
        BY <1>7, <2>2, OthersUntouched DEF activationVars
      <3>2. ~Recovers(u)
        BY <2>2, <3>1, RecoversDoes
      <3>3. ConvergeSelf(u)
        BY <2>2, <3>1, <3>2
           DEF Command, Raises, Activate, TakeOperation, EnterGate, CheckForward, CheckBack, Withdraw,
               WithdrawFails, Drain, Select, Link, LinkFails, Clear, LeaveGate, Maintain, Report, Crash, Types
      <3>4. triggers' = (registered \/ triggers) /\ Reports(u, "restored") /\ UNCHANGED registered
        BY <3>2, <3>3 DEF ConvergeSelf, Raises
      <3>5. QED BY <3>1, <3>4 DEF Reports, Types
    <2>3. QED BY <2>1, <2>2
  <1>8. QED BY <1>6, <1>7 DEF Converged

LEMMA RuntimeConverges ==
    ASSUME Types, LockStages, Discipline, Selected, Converged, NEW p \in Procs, Runtime(p)
    PROVE  Converged'
  <1>1. UNCHANGED registered
    BY RuntimeFrame
  <1>2. CASE Ending(p)
    <2>1. UNCHANGED triggers
      BY <1>2 DEF Ending, MaintainEnds, MaintainDefers, MaintainFails
    <2>2. gate' = Free(gate, p) /\ proc' = [proc EXCEPT ![p] = Gone]
      BY <1>2, MaintenanceEnds
    <2>3. gate' \in Procs => gate' = gate /\ proc'[gate'] = proc[gate]
      BY <2>2, GenerationAssumption DEF Free, Types
    <2>4. ASSUME NEW v \in Users, outcome'[v] \in {"ok", "restored"}
          PROVE  registered => triggers
      <3>1. CASE outcome'[v] = outcome[v]
        BY <2>4, <3>1 DEF Converged
      <3>2. CASE outcome'[v] # outcome[v]
        <4>1. gate = p
          BY <1>2, <2>4, <3>2, MaintenanceEnds, RecoversDoes, ToldDoes
        <4>2. QED BY <4>1 DEF Converged
      <3>3. QED BY <3>1, <3>2
    <2>5. QED BY <1>1, <2>1, <2>3, <2>4 DEF Converged
  <1>3. CASE Converge(p)
    <2>1. gate' = p /\ triggers' = registered /\ UNCHANGED outcome
      BY <1>3 DEF Converge
    <2>2. proc'[p].kind = "maintain"
      BY <1>3 DEF Converge, Idle
    <2>3. QED BY <1>1, <2>1, <2>2 DEF Converged
  <1>4. CASE Launch(p) \/ RunEnds(p) \/ Fire(p) \/ FireEnds(p) \/ Retire(p) \/ StartWatcher(p)
    <2>1. UNCHANGED <<gate, triggers, outcome>>
      BY <1>4 DEF Launch, RunEnds, Fire, FireEnds, Retire, StartWatcher, activationVars
    <2>2. \A q \in Procs : proc[q].kind = "maintain" => proc'[q].kind = "maintain"
      BY <1>4 DEF Launch, RunEnds, Fire, FireEnds, Retire, StartWatcher, Become, Gone, Types
    <2>3. QED BY <1>1, <2>1, <2>2 DEF Converged
  <1>5. QED BY <1>2, <1>3, <1>4 DEF Runtime, Ending

---------------------------------------------------------------------------
(* The quiet in which current moves *)

\* Triggers stay withdrawn because whoever installs them holds the gate or the
\* operation lock; then nothing is launched, and no maintenance installs them.
LEMMA ActivatingQuiets ==
    ASSUME Types, LockStages, Discipline, Quieted, NEW u \in Users, Activating(u)
    PROVE  FoundQuiet(u)'
  <1>1. Remembers(u) /\ FoundQuiet(u)
    BY DEF Discipline, Quieted
  <1>2. CASE /\ Raises(u) /\ UNCHANGED child
             /\ \/ EnterGate(u) \/ CheckForward(u) \/ CheckBack(u) \/ Withdraw(u) \/ WithdrawFails(u)
                \/ Drain(u) \/ Select(u) \/ LinkFails(u) \/ ConvergeSelf(u)
    <2>1. \A p \in Procs : proc'[p].kind = "maintain" => proc[p].kind = "maintain"
      <3>1. CASE Drain(u)
        BY <3>1 DEF Drain, Gone
      <3>2. CASE ~Drain(u)
        BY <1>2, <3>2 DEF EnterGate, CheckForward, CheckBack, Withdraw, WithdrawFails, Select, LinkFails,
                          ConvergeSelf
      <3>3. QED BY <3>1, <3>2
    <2>2. pc'[u] \in {"gate", "report"} /\ registered' = registered
      BY <1>2, RecoversDoes DEF Raises, EnterGate, CheckForward, CheckBack, Withdraw, WithdrawFails, Drain,
                  Select, LinkFails, ConvergeSelf
    <2>3. pc'[u] = "gate" /\ ~registered =>
            pc[u] \in {"select", "link", "leave", "converge", "await"} \/ (phase[u] = "back" /\ pc[u] # "report")
      BY <1>1, <1>2, RecoversDoes DEF Raises, Recovers, Reports, Goto, Types, FoundQuiet, EnterGate, CheckForward,
                  CheckBack, Withdraw, WithdrawFails, Drain, Select, LinkFails, ConvergeSelf
    <2>4. QED BY <1>1, <1>2, <2>1, <2>2, <2>3 DEF FoundQuiet, Apart
  <1> USE DEF Goto, Types, FoundQuiet, Apart, Stages
  <1>3. CASE Activate(u) \/ TakeOperation(u)
    BY <1>1, <1>3 DEF Activate, TakeOperation, Remembers, Operating
  <1>4. CASE EnterGate(u) /\ ~Raises(u) BY <1>1, <1>4 DEF EnterGate
  <1>5. CASE CheckForward(u) /\ ~(Raises(u) /\ UNCHANGED prev)
    <2>1. /\ ~Maintaining /\ pc' = [pc EXCEPT ![u] = IF registered THEN "stop" ELSE "select"]
          /\ pausing' = (IF registered THEN u ELSE pausing)
          /\ UNCHANGED <<phase, proc, triggers, registered>> /\ pc[u] = "check" /\ phase[u] = "forward"
      BY <1>5 DEF CheckForward
    <2>2. CASE registered
      BY <2>1, <2>2
    <2>3. CASE ~registered
      <3>1. Quiet'
        BY <2>1, <2>3 DEF Quieted, Quiet, Maintaining, Idle, Watching
      <3>2. QED BY <2>1, <2>3, <3>1 DEF Maintaining
    <2>4. QED BY <2>2, <2>3
  <1>6. CASE CheckBack(u) /\ ~Raises(u)
    <2>1. child[u] \notin Procs
      BY <1>1, <1>6, GenerationAssumption DEF CheckBack, Remembers
    <2> DEFINE moved == registered /\ current \notin {NoName, prev[u].name}
    <2>3. /\ pc' = [pc EXCEPT ![u] = IF moved THEN "stop" ELSE "select"] /\ pc[u] = "check" /\ phase[u] = "back"
          /\ UNCHANGED <<phase, pausing, current, proc, registered, triggers, prev, child>>
      BY <1>6 DEF CheckBack
    <2>4. CASE registered
      BY <1>1, <2>3, <2>4 DEF Moves
    <2>5. CASE ~registered
      <3>1. Apart(u) /\ Quiet'
        BY <1>1, <2>1, <2>3, <2>5 DEF Quieted, Quiet, Maintaining, Idle, Watching
      <3>2. QED BY <2>1, <2>3, <2>5, <3>1 DEF Maintaining
    <2>6. QED BY <2>4, <2>5
  <1>7. CASE Withdraw(u) /\ ~Raises(u) BY <1>1, <1>7 DEF Withdraw, Maintaining
  <1>8. CASE Drain(u) /\ ~Raises(u)
    BY <1>1, <1>8 DEF Drain, Quiet, Maintaining, Idle, Gone
  <1>9. CASE Select(u) /\ ~Raises(u)
    BY <1>1, <1>9 DEF Select, Quiet, Moves, Maintaining, Idle
  <1>10. CASE Link(u) BY <1>1, <1>10 DEF Link
  <1>11. CASE Clear(u) BY <1>1, <1>11 DEF Clear
  <1>12. CASE LeaveGate(u) BY <1>1, <1>12 DEF LeaveGate
  <1>13. CASE Maintain(u)
    <2>1. child[u] \notin Procs
      BY <1>1, <1>13, GenerationAssumption DEF Maintain, Remembers
    <2>2. QED BY <1>1, <1>13, <2>1 DEF Maintain
  <1>14. CASE ConvergeSelf(u) /\ ~Raises(u) BY <1>1, <1>14 DEF ConvergeSelf, Reports
  <1>15. CASE Report(u) BY <1>1, <1>15 DEF Report
  <1>16. CASE Crash(u) BY <1>1, <1>16 DEF Crash, Die
  <1>17. QED BY <1>2, <1>3, <1>4, <1>5, <1>6, <1>7, <1>8, <1>9, <1>10, <1>11, <1>12,
               <1>13, <1>14, <1>15, <1>16
           DEF Activating, EnterGate, CheckForward, CheckBack, Withdraw, WithdrawFails, Drain, Select, LinkFails,
               ConvergeSelf

\* What a command does outside of an activation touches no trigger and no process.
LEMMA OutsideKeepsQuiet ==
    ASSUME Types, NEW u \in Users, Command(u), pc[u] \notin Operating
    PROVE  /\ UNCHANGED <<registered, triggers, current, proc>>
           /\ pausing' = pausing \/ pausing' = Free(pausing, u)
  BY DEF Operating, Command, activationVars, Open, Quit, Manage, Build, Seal, BuildFails, Collect, Remove,
         CheckHolders, Rename, Delete, DeleteFails, Removed, Activate, TakeOperation, EnterGate, CheckForward,
         CheckBack, Withdraw, WithdrawFails, Drain, Select, Link, LinkFails, Clear, LeaveGate, Maintain,
         ConvergeSelf, Report, Crash, Die

LEMMA CommandQuiets ==
    ASSUME Types, LockStages, Discipline, Quieted, NEW u \in Users, Command(u), NEW v \in Users
    PROVE  FoundQuiet(v)'
  <1>1. FoundQuiet(v) /\ Remembers(v)
    BY DEF Quieted, Discipline
  <1>2. CASE v = u /\ Activating(u)
    BY <1>2, ActivatingQuiets
  <1>3. CASE v = u /\ UNCHANGED activationVars /\ (Open(u) \/ Quit(u) \/ Manage(u))
    <2>1. pc[u] \notin Operating /\ pc'[u] \notin Operating
      BY <1>3, ManageStages DEF Managing, Operating
    <2>2. phase'[u] = "forward"
      BY <1>1, <1>3, <2>1 DEF Remembers, activationVars
    <2>3. QED BY <1>3, <2>1, <2>2 DEF FoundQuiet, Operating
  <1>4. CASE v # u /\ pc[v] \notin Operating
    <2>1. pc'[v] = pc[v] /\ phase'[v] = "forward"
      BY <1>1, <1>4, OthersUntouched DEF Remembers
    <2>2. QED BY <1>4, <2>1 DEF FoundQuiet, Operating
  <1>5. CASE v # u /\ pc[v] \in Operating
    <2>1. pc[u] \notin Operating
      BY <1>5, OneActivation
    <2>2. UNCHANGED <<registered, triggers, current, proc>> /\ (pausing = v => pausing' = v)
      BY <1>5, <2>1, OutsideKeepsQuiet DEF Free
    <2>3. pc'[v] = pc[v] /\ phase'[v] = phase[v] /\ prev'[v] = prev[v] /\ child'[v] = child[v]
      BY <1>5, OthersUntouched
    <2>4. QED BY <1>1, <2>2, <2>3 DEF FoundQuiet, Apart, Quiet, Moves, Maintaining, Idle
  <1>6. QED BY <1>2, <1>3, <1>4, <1>5 DEF Command, Activating

\* Without triggers the runtime launches nothing, and while the gate is taken
\* no watcher fires and none that ends its run goes on.
LEMMA RuntimeQuiets ==
    ASSUME Types, LockStages, Discipline, Quieted, NEW p \in Procs, Runtime(p), NEW v \in Users
    PROVE  FoundQuiet(v)'
  <1>1. FoundQuiet(v) /\ Remembers(v)
    BY DEF Quieted, Discipline
  <1>2. UNCHANGED <<current, registered, pausing, prev>>
    BY RuntimeFrame
  <1>3. CASE Ending(p)
    <2>1. UNCHANGED triggers
      BY <1>3 DEF Ending, MaintainEnds, MaintainDefers, MaintainFails
    <2>2. \A q \in Procs : proc'[q] = IF q = p THEN Gone ELSE proc[q]
      BY <1>3, MaintenanceEnds DEF Types
    <2>3. \A q \in Procs : proc'[q].kind = "maintain" => q # p /\ proc[q].kind = "maintain"
      BY <2>2 DEF Gone
    <2>4. CASE UNCHANGED <<outcome, pc, child, phase>>
      BY <1>1, <1>2, <2>1, <2>2, <2>3, <2>4 DEF FoundQuiet, Apart, Quiet, Moves, Maintaining, Idle, Gone
    <2>5. ASSUME NEW u \in Users, child[u] = p, pc[u] = "await", child' = [child EXCEPT ![u] = Nobody],
                 Told(u) \/ Recovers(u)
          PROVE  FoundQuiet(v)'
      <3>1. pc'[u] \in {"gate", "report"} /\ \A w \in Users \ {u} : pc'[w] = pc[w] /\ phase'[w] = phase[w]
        BY <2>5, RecoversDoes, ToldDoes DEF Types
      <3>2. CASE v = u
        BY <1>1, <1>2, <2>3, <2>5, <3>1, <3>2 DEF FoundQuiet, Apart
      <3>3. CASE v # u
        <4>1. child'[v] = child[v]
          BY <2>5, <3>3 DEF Types
        <4>2. QED BY <1>1, <1>2, <2>1, <2>2, <2>3, <3>1, <3>3, <4>1
                    DEF FoundQuiet, Apart, Quiet, Moves, Maintaining, Idle, Gone
      <3>4. QED BY <3>2, <3>3
    <2>6. QED BY <1>3, <2>4, <2>5, MaintenanceEnds
  <1>4. CASE ~Ending(p)
    <2>1. UNCHANGED <<outcome, pc, child, phase>>
      BY <1>4 DEF Ending, Runtime, Launch, RunEnds, Fire, FireEnds, Retire, Converge, StartWatcher, activationVars
    <2>2. \A q \in Procs : proc'[q].kind = "maintain" => proc[q].kind = "maintain" \/ triggers
      <3>1. CASE Converge(p)
        BY <3>1 DEF Converge, Gone
      <3>2. CASE Launch(p)
        BY <3>2 DEF Launch
      <3>3. CASE RunEnds(p) \/ Fire(p) \/ FireEnds(p) \/ Retire(p) \/ StartWatcher(p)
        BY <3>3 DEF RunEnds, Fire, FireEnds, Retire, StartWatcher, Become, Gone, Types
      <3>4. QED BY <1>4, <3>1, <3>2, <3>3 DEF Ending, Runtime
    <2>3. triggers' = triggers \/ (triggers' = registered /\ Maintaining)
      BY <1>4 DEF Ending, Runtime, Launch, RunEnds, Fire, FireEnds, Retire, Converge, StartWatcher, activationVars,
                  Maintaining
    <2>4. \A q \in Procs : proc'[q].kind = "idle" =>
            \/ proc[q].kind = "idle"
            \/ proc[q].kind = "busy" /\ pausing = Nobody
            \/ gate = p
      BY <1>4 DEF Ending, Runtime, Launch, RunEnds, Fire, FireEnds, Retire, Retires, Converge, StartWatcher, Become, Gone,
                  Types
    <2>5. pc[v] \in {"stop", "drain", "select", "link"} => gate = v /\ gate # p
      BY GenerationAssumption DEF LockStages
    <2>6. ~registered => ~triggers /\ \A q \in Procs : proc[q].kind # "busy"
      BY DEF Quieted, Watching
    <2>7. v # Nobody
      BY GenerationAssumption
    <2>8. pc[v] \in {"select", "link"} /\ Moves(v)' => Quiet' /\ (registered' => pausing' = v)
      BY <1>1, <1>2, <2>1, <2>2, <2>3, <2>4, <2>5, <2>6, <2>7 DEF FoundQuiet, Quiet, Moves, Maintaining, Idle
    <2>9. pc[v] = "drain" => ~triggers' /\ ~Maintaining'
      BY <1>1, <2>2, <2>3 DEF FoundQuiet, Maintaining
    <2>10. QED BY <1>1, <1>2, <2>1, <2>2, <2>6, <2>8, <2>9 DEF FoundQuiet, Apart
  <1>5. QED BY <1>3, <1>4

\* A host without a registered repository has no triggers and no watchers.
LEMMA UnregisteredStays ==
    ASSUME Types, Quieted, Next, ~registered
    PROVE  ~registered' /\ ~triggers' /\ \A p \in Procs : proc'[p].kind \notin Watching
  <1>1. ~triggers /\ \A p \in Procs : proc[p].kind \notin Watching
    BY DEF Quieted
  <1>2. ASSUME NEW u \in Users, Command(u)
        PROVE  ~registered' /\ ~triggers' /\ \A p \in Procs : proc'[p].kind \notin Watching
    <2>1. ~registered' /\ ~triggers'
      <3>1. triggers' \in {triggers, FALSE, registered \/ triggers} /\ UNCHANGED registered
        BY <1>2
           DEF Command, activationVars, Activate, TakeOperation, EnterGate, CheckForward, CheckBack, Withdraw,
               WithdrawFails, Drain, Select, Link, LinkFails, Clear, LeaveGate, Maintain, ConvergeSelf,
               Report, Crash
      <3>2. QED BY <1>1, <3>1 DEF Types
    <2>2. \A p \in Procs : proc'[p] = proc[p] \/ proc'[p].kind \in {"none", "maintain"}
      <3>1. CASE Drain(u)
        BY <3>1 DEF Drain, Gone
      <3>2. CASE Maintain(u)
        BY <3>2 DEF Maintain, Types
      <3>3. CASE ~(Drain(u) \/ Maintain(u))
        BY <1>2, <3>3
           DEF Command, Open, Quit, Manage, Build, Seal, BuildFails, Collect, Remove, CheckHolders, Rename,
               Delete, DeleteFails, Removed, Activate, TakeOperation, EnterGate, CheckForward, CheckBack,
               Withdraw, WithdrawFails, Select, Link, LinkFails, Clear, LeaveGate, ConvergeSelf, Report,
               Crash, Die
      <3>4. QED BY <3>1, <3>2, <3>3
    <2>3. QED BY <1>1, <2>1, <2>2 DEF Watching
  <1>3. ASSUME NEW p \in Procs, Runtime(p)
        PROVE  ~registered' /\ ~triggers' /\ \A q \in Procs : proc'[q].kind \notin Watching
    <2>1. ~registered'
      BY <1>3 DEF Runtime, Launch, RunEnds, Fire, FireEnds, Retire, Converge, StartWatcher, MaintainEnds,
                  MaintainDefers, MaintainFails, activationVars
    <2>2. triggers' = triggers \/ triggers' = registered
      BY <1>3 DEF Runtime, Launch, RunEnds, Fire, FireEnds, Retire, Converge, StartWatcher, MaintainEnds,
                  MaintainDefers, MaintainFails, activationVars
    <2>3. ~(Launch(p) \/ Fire(p) \/ FireEnds(p) \/ StartWatcher(p))
      BY <1>1 DEF Launch, Fire, FireEnds, StartWatcher, Watching
    <2>4. \A q \in Procs : proc'[q] = proc[q] \/ proc'[q] = Gone
      <3>1. CASE Converge(p)
        BY <3>1 DEF Converge
      <3>2. CASE ~Converge(p)
        <4>1. proc' = [proc EXCEPT ![p] = Gone]
          BY <1>3, <2>3, <3>2 DEF Runtime, RunEnds, Retire, MaintainEnds, MaintainDefers, MaintainFails, Become
        <4>2. QED BY <4>1 DEF Types
      <3>3. QED BY <3>1, <3>2
    <2>5. QED BY <1>1, <2>1, <2>2, <2>4 DEF Watching, Gone
  <1>4. QED BY <1>2, <1>3 DEF Next

LEMMA QuietedHolds ==
    ASSUME Types, LockStages, Discipline, Quieted, Next
    PROVE  Quieted'
  <1>1. \A v \in Users : FoundQuiet(v)'
    BY CommandQuiets, RuntimeQuiets DEF Next
  <1>2. registered' = registered
    <2>1. ASSUME NEW u \in Users, Command(u) PROVE registered' = registered
      BY <2>1
         DEF Command, activationVars, Activate, TakeOperation, EnterGate, CheckForward, CheckBack, Withdraw,
             WithdrawFails, Drain, Select, Link, LinkFails, Clear, LeaveGate, Maintain, ConvergeSelf,
             Report, Crash
    <2>2. QED BY <2>1, RuntimeFrame DEF Next
  <1>3. QED BY <1>1, <1>2, UnregisteredStays DEF Quieted

\* After the move forward only watchers of what is selected become idle.
LEMMA ActivatingRenews ==
    ASSUME Types, Discipline, Quieted, Renewed, NEW u \in Users, Activating(u), Succeeds(u)'
    PROVE  \A p \in Idle' : proc'[p].gen = current'
  <1>1. Remembers(u)
    BY DEF Discipline
  <1>2. \A p \in Idle' : p \in Idle /\ proc'[p] = proc[p]
    <2>1. CASE Drain(u)
      BY <2>1 DEF Drain, Idle, Gone
    <2>2. CASE Maintain(u)
      BY <2>2 DEF Maintain, Idle, Types
    <2>3. CASE ~(Drain(u) \/ Maintain(u))
      BY <2>3 DEF Activating, Activate, TakeOperation, EnterGate, CheckForward, CheckBack, Withdraw,
             WithdrawFails, Select, Link, LinkFails, Clear, LeaveGate, ConvergeSelf, Report, Crash, Die, Idle
    <2>4. QED BY <2>1, <2>2, <2>3
  <1>3. ~Recovers(u)
    <2>1. SUFFICES ASSUME Recovers(u) PROVE FALSE
      OBVIOUS
    <2>2. pc'[u] \in {"gate", "report"} /\ outcome'[u] \in {outcome[u], "refused", "unrestored"}
          /\ (pc'[u] = "report" => outcome'[u] \in {"refused", "unrestored"})
      BY <2>1, RecoversDoes
    <2>3. pc'[u] = "gate" => outcome[u] = "none"
      BY <1>1, <2>1, <2>2 DEF Remembers, Activating, Activate, TakeOperation, EnterGate, CheckForward, CheckBack, Withdraw,
             WithdrawFails, Drain, Select, Link, LinkFails, Clear, LeaveGate, Maintain, ConvergeSelf, Report, Goto, Types,
             Crash, Die
    <2>4. QED BY <2>1, <2>2, <2>3, RecoversDoes DEF Succeeds, Success
  <1>4. CASE pc[u] \in {"select", "link"}
    <2>1. phase[u] = "forward" /\ Idle = {}
      <3>1. phase'[u] = "forward"
        BY <1>1, <1>3, <1>4 DEF Succeeds, Remembers, Activating, Raises, Activate, TakeOperation, EnterGate,
              CheckForward, CheckBack, Withdraw, WithdrawFails, Drain, Select, Link, LinkFails, Clear, LeaveGate,
              Maintain, ConvergeSelf, Report, Crash, Success, Types
      <3>2. ~Crash(u)
        BY DEF Crash, Die, Goto, Succeeds, Success, Types
      <3>3. phase[u] = "forward"
        BY <1>3, <1>4, <3>1, <3>2 DEF Activating, Raises, Activate, TakeOperation, EnterGate,
              CheckForward, CheckBack, Withdraw, WithdrawFails, Drain, Select, Link, LinkFails, Clear, LeaveGate,
              Maintain, ConvergeSelf, Report
      <3>4. QED BY <1>4, <3>3 DEF Quieted, FoundQuiet, Moves, Quiet
    <2>2. QED BY <1>2, <2>1
  <1>5. CASE pc[u] \notin {"select", "link"}
    <2>1. UNCHANGED current
      BY <1>5, CurrentMoves DEF Command, Activating
    <2>2. ~(Crash(u) \/ Report(u))
      BY DEF Crash, Die, Report, Goto, Succeeds, Success, Types
    <2>3. Succeeds(u)
      <3>1. CASE LeaveGate(u) \/ Maintain(u)
        BY <3>1 DEF LeaveGate, Maintain, Succeeds
      <3>2. CASE ConvergeSelf(u)
        <4>1. pc'[u] = "report" /\ outcome'[u] = "restored"
          BY <1>3, <3>2 DEF ConvergeSelf, Raises, Reports, Goto, Types
        <4>2. QED BY <4>1 DEF Succeeds, Success
      <3>3. CASE ~(LeaveGate(u) \/ Maintain(u) \/ ConvergeSelf(u))
        <4>1. UNCHANGED outcome /\ pc'[u] \notin {"leave", "converge", "await"}
          BY <1>3, <1>5, <2>2, <3>3
             DEF Activating, Raises, Activate, TakeOperation, EnterGate, CheckForward, CheckBack, Withdraw,
                 WithdrawFails, Drain, Select, Link, LinkFails, Clear, Goto, Types
        <4>2. QED BY <4>1 DEF Succeeds
      <3>4. QED BY <3>1, <3>2, <3>3
    <2>4. QED BY <1>2, <2>1, <2>3 DEF Renewed
  <1>6. QED BY <1>4, <1>5

LEMMA RenewedHolds ==
    ASSUME Types, LockStages, Discipline, Quieted, Renewed, Next
    PROVE  Renewed'
  <1> SUFFICES ASSUME NEW v \in Users, Succeeds(v)' PROVE \A p \in Idle' : proc'[p].gen = current'
    BY DEF Renewed
  <1>1. ASSUME NEW u \in Users, Command(u)
        PROVE  \A p \in Idle' : proc'[p].gen = current'
    <2>1. CASE v = u /\ Activating(u)
      BY <2>1, ActivatingRenews
    <2>2. CASE v = u /\ UNCHANGED activationVars /\ (Open(u) \/ Quit(u) \/ Manage(u))
      <3>1. pc[u] \notin Operating /\ pc'[u] \notin Operating
        BY <2>2, ManageStages DEF Managing, Operating
      <3>2. QED BY <2>2, <3>1 DEF Succeeds, Discipline, Remembers, Operating, activationVars, Success
    <2>3. CASE v # u
      <3>1. Succeeds(v) /\ pc[v] \in Operating
        <4>1. pc'[v] = pc[v] /\ phase'[v] = phase[v] /\ outcome'[v] = outcome[v]
          BY <1>1, <2>3, OthersUntouched
        <4>2. Succeeds(v)
          BY <4>1 DEF Succeeds
        <4>3. QED BY <4>2 DEF Succeeds, Discipline, Remembers, Operating, Success
      <3>2. pc[u] \notin Operating
        BY <2>3, <3>1, OneActivation
      <3>3. UNCHANGED <<current, proc>>
        BY <1>1, <3>2, OutsideKeepsQuiet
      <3>4. QED BY <3>1, <3>3 DEF Renewed, Idle
    <2>4. QED BY <1>1, <2>1, <2>2, <2>3 DEF Command, Activating
  <1>2. ASSUME NEW p \in Procs, Runtime(p)
        PROVE  \A q \in Idle' : proc'[q].gen = current'
    <2>1. Succeeds(v)
      <3>1. CASE UNCHANGED <<outcome, pc, child, phase>>
        BY <3>1 DEF Succeeds
      <3>2. ASSUME NEW u \in Users, pc[u] = "await", Told(u) \/ Recovers(u)
            PROVE  Succeeds(v)
        <4>1. CASE v # u
          BY <3>2, <4>1, ToldDoes, RecoversDoes DEF Succeeds, Types
        <4>2. CASE v = u /\ Told(u)
          BY <3>2, <4>2, ToldDoes DEF Succeeds, Success, Return, Types
        <4>3. CASE v = u /\ Recovers(u)
          BY <3>2, <4>3, RecoversDoes DEF Succeeds, Success, Discipline, Remembers
        <4>4. QED BY <3>2, <4>1, <4>2, <4>3
      <3>3. QED BY <1>2, <3>1, <3>2, RuntimeFrame
    <2>2. UNCHANGED current /\ \A q \in Idle : proc[q].gen = current
      BY <1>2, <2>1, RuntimeFrame DEF Renewed
    <2>3. CASE Ending(p) \/ Converge(p)
      <3>1. \A q \in Idle' : q \in Idle /\ proc'[q] = proc[q]
        <4>1. CASE Ending(p)
          BY <4>1, MaintenanceEnds DEF Idle, Gone, Types
        <4>2. CASE Converge(p)
          BY <4>2 DEF Converge, Idle, Gone
        <4>3. QED BY <2>3, <4>1, <4>2
      <3>2. QED BY <2>2, <3>1
    <2>4. CASE Launch(p) \/ RunEnds(p) \/ Fire(p) \/ FireEnds(p) \/ Retire(p) \/ StartWatcher(p)
      <3>1. \A q \in Idle' : proc'[q].gen = current \/ (q \in Idle /\ proc'[q].gen = proc[q].gen)
        BY <2>4 DEF Launch, RunEnds, Fire, FireEnds, Retire, Retires, StartWatcher, Become, Gone, Idle, Types
      <3>2. QED BY <2>2, <3>1
    <2>5. QED BY <1>2, <2>3, <2>4 DEF Runtime, Ending
  <1>3. QED BY <1>1, <1>2 DEF Next

---------------------------------------------------------------------------
(* The invariant *)

LEMMA InvInit == Init => Inv
  <1> SUFFICES ASSUME Init PROVE Inv
    OBVIOUS
  <1>1. Types
    <2>1. clock \in Nat
      BY FS_CardinalityType, GenerationAssumption DEF Init, GenerationsInit
    <2>2. stamp \in [Names -> Nat]
      BY <2>1 DEF Init, GenerationsInit
    <2>3. dir \in [Names -> {"absent", "partial", "sealed"}] /\ current \in Names \cup {NoName}
      BY DEF Init, GenerationsInit, Sealed
    <2>4. triggers \in BOOLEAN
      BY DEF Init
    <2>5. proc \in [Procs -> [kind : Kinds, gen : Names \cup {NoName}]]
      BY DEF Init, GenerationsInit, Gone, Kinds
    <2>6. QED
      BY <2>1, <2>2, <2>3, <2>4, <2>5
         DEF Init, GenerationsInit, Types, Stages, Outcomes, NoGeneration, GenerationType
  <1>2. LockStages /\ Discipline
    BY GenerationAssumption DEF Init, GenerationsInit, LockStages, Discipline, Remembers, Operating, Success
  <1>3. Complete /\ Locked /\ Selected
    BY DEF Init, GenerationsInit, Complete, Locked, FoundOut, Selected, FoundSelected, Success, Return
  <1>4. Converged
    BY GenerationAssumption DEF Init, Converged
  <1>5. Quieted
    BY DEF Init, GenerationsInit, Quieted, FoundQuiet, Watching, Gone
  <1>6. Renewed
    BY DEF Init, GenerationsInit, Renewed, Succeeds, Success
  <1>7. QED BY <1>1, <1>2, <1>3, <1>4, <1>5, <1>6 DEF Inv

LEMMA InvStep == Inv /\ [Next]_vars => Inv'
  <1> SUFFICES ASSUME Inv, [Next]_vars PROVE Inv'
    OBVIOUS
  <1>1. CASE Next
    <2>1. Types' /\ LockStages' /\ Discipline'
      BY <1>1, NextType, DisciplineHolds DEF Inv
    <2>2. Complete' /\ Locked' /\ Selected'
      BY <1>1, CompleteHolds, LockedHolds, SelectedHolds DEF Inv
    <2>3. Converged'
      BY <1>1, CommandConverges, RuntimeConverges DEF Inv, Next
    <2>4. Quieted' /\ Renewed'
      BY <1>1, QuietedHolds, RenewedHolds DEF Inv
    <2>5. QED BY <2>1, <2>2, <2>3, <2>4 DEF Inv
  <1>2. CASE UNCHANGED vars
    <2> USE <1>2 DEF vars, generationVars, activationVars, Inv
    <2>1. Types' /\ LockStages'
      BY DEF Types, LockStages
    <2>2. Discipline' /\ Selected'
      BY DEF Discipline, Remembers, Selected, FoundSelected, Goal
    <2>3. Complete' /\ Sealed' = Sealed
      BY DEF Complete, Sealed
    <2>4. Locked'
      <3>1. \A u \in Users : Goal(u)' = Goal(u) /\ Held(name[u])' = Held(name[u])
        BY DEF Goal, Held, Executing
      <3>2. QED BY <2>3, <3>1 DEF Locked, FoundOut
    <2>5. Converged'
      BY DEF Converged
    <2>6. Quieted' /\ Renewed'
      BY DEF Quieted, FoundQuiet, Apart, Quiet, Moves, Maintaining, Idle, Renewed, Succeeds
    <2>7. QED BY <2>1, <2>2, <2>3, <2>4, <2>5, <2>6
  <1>3. QED BY <1>1, <1>2

LEMMA InvHolds == Spec => []Inv
  BY InvInit, InvStep, PTL DEF Spec

\* The variables keep their types, and the deployment lock and the launch gate
\* are held in exactly the stages that activate_generation, build, remove and
\* collect take them for, however commands fail and die.
THEOREM TypeCorrect == Spec => []TypeOK
  <1>1. Inv => TypeOK
    BY DEF Inv, Types, LockStages, TypeOK
  <1>2. QED BY <1>1, InvHolds, PTL

\* What an activation reports is so (activate_generation): success has selected
\* the target, a failure after a disturbance has put the selection back, and
\* either has converged the triggers unless its maintenance was deferred.
THEOREM ReportsAreTrue == Spec => []OutcomeIsTrue
  <1>1. Inv => OutcomeIsTrue
    BY DEF Inv, Selected, FoundSelected, Converged, OutcomeIsTrue
  <1>2. QED BY <1>1, InvHolds, PTL

\* When an activation has succeeded no idle watcher of another generation is
\* left that could fire (_stop_runtime, pause_watchers, _runtime_is_current).
THEOREM NoOldLoopIsLeft == Spec => []NoOldLoop
  <1>1. Inv => NoOldLoop
    BY DEF Inv, Renewed, Succeeds, NoOldLoop
  <1>2. QED BY <1>1, InvHolds, PTL

\* The selection moves only while no trigger launches the runtime, no
\* maintenance converges it and no idle watcher could fire (_stop_runtime
\* before generation.activate, on the way forward and on the way back).
THEOREM MovesInQuiet == Spec => []MovesAreQuiet
  <1>1. Inv => MovesAreQuiet
    BY DEF Inv, Quieted, FoundQuiet, MovesAreQuiet
  <1>2. QED BY <1>1, InvHolds, PTL

---------------------------------------------------------------------------
(* Generations and activation implement the selection they promise *)

LEMMA ExecutingIs == \A x \in Procs \cup Users : Executing[x] = IF x \in Procs THEN proc[x].gen ELSE home[x]
  BY DEF Executing

\* Processes end, and nothing else happens to what is promised.
LEMMA ExitStep ==
    ASSUME Types', UNCHANGED <<dir, current>>,
           \A x \in Procs \cup Users : Executing'[x] \in {Executing[x], NoName}
    PROVE  Promise!Exit
  <1>1. UNCHANGED Sealed
    BY DEF Sealed
  <1>2. Executing' \in [Procs \cup Users -> Names \cup {NoName}]
    BY DEF Executing, Types
  <1>3. QED BY <1>1, <1>2 DEF Promise!Exit

\* A process starts from what is selected.
LEMMA LaunchStep ==
    ASSUME Complete, NEW x \in Procs \cup Users, Executing[x] = NoName, current # NoName,
           UNCHANGED <<dir, current>>, Executing' = [Executing EXCEPT ![x] = current]
    PROVE  Promise!Next
  <1>1. UNCHANGED Sealed /\ current \in Sealed /\ current \in Names
    BY DEF Complete, Sealed
  <1>2. Promise!Launch(x, current)
    BY <1>1 DEF Promise!Launch
  <1>3. QED BY <1>1, <1>2 DEF Promise!Next

LEMMA ManageImplements ==
    ASSUME Inv, Inv', NEW u \in Users, Open(u) \/ Quit(u) \/ Manage(u), UNCHANGED activationVars
    PROVE  [Promise!Next]_(Promise!selectionVars)
  <1> USE DEF Inv
  <1>1. CASE Open(u)
    <2>1. CASE UNCHANGED home
      BY <1>1, <2>1 DEF Open, Promise!selectionVars, Executing, Sealed, diskVars
    <2>2. CASE home' = [home EXCEPT ![u] = current] /\ current # NoName
      <3>1. u \notin Procs
        BY GenerationAssumption
      <3>2. Executing[u] = NoName
        BY <1>1, <3>1, ExecutingIs DEF Open, Discipline, Remembers
      <3>3. Executing' = [Executing EXCEPT ![u] = current]
        BY <1>1, <2>2, <3>1 DEF Open, Executing, Types
      <3>4. QED BY <1>1, <2>2, <3>2, <3>3, LaunchStep DEF Open, diskVars
    <2>3. QED BY <1>1, <2>1, <2>2 DEF Open
  <1>2. CASE Quit(u)
    <2>1. \A x \in Procs \cup Users : Executing'[x] \in {Executing[x], NoName}
      BY <1>2 DEF Quit, Executing, Types
    <2>2. QED BY <1>2, <2>1, ExitStep DEF Quit, diskVars, Promise!Next
  <1>3. CASE Build(u)
    <2>1. Sealed' = Sealed
      BY <1>3 DEF Build, Sealed, Types
    <2>2. QED BY <1>3, <2>1 DEF Build, Promise!selectionVars, Executing
  <1>4. CASE Seal(u)
    <2>1. name[u] \in Names \ Sealed
      BY <1>4 DEF Seal, Locked, FoundOut, Sealed
    <2>2. Sealed' = Sealed \cup {name[u]}
      BY <1>4, <2>1 DEF Seal, Sealed, Types
    <2>3. Promise!Seal(name[u])
      BY <1>4, <2>1, <2>2 DEF Seal, Promise!Seal, Executing
    <2>4. QED BY <2>1, <2>3 DEF Promise!Next
  <1>5. CASE Rename(u)
    <2>1. name[u] \in Sealed \ {current} /\ ~Held(name[u]) /\ name[u] \in Names
      BY <1>5 DEF Rename, Locked, FoundOut, Sealed
    <2>2. Sealed' = Sealed \ {name[u]}
      BY <1>5, <2>1 DEF Rename, Sealed, Types
    <2>3. Promise!Remove(name[u])
      BY <1>5, <2>1, <2>2 DEF Rename, Promise!Remove, Promise!InUse, Held, Executing
    <2>4. QED BY <2>1, <2>3 DEF Promise!Next
  <1>6. CASE BuildFails(u) \/ Collect(u) \/ Remove(u) \/ CheckHolders(u) \/ Delete(u) \/ DeleteFails(u)
             \/ Removed(u)
    BY <1>6 DEF BuildFails, Collect, Remove, CheckHolders, Delete, DeleteFails, Removed, diskVars,
                Promise!selectionVars, Executing, Sealed
  <1>7. QED BY <1>1, <1>2, <1>3, <1>4, <1>5, <1>6 DEF Manage

LEMMA ActivatingImplements ==
    ASSUME Inv, Inv', NEW u \in Users, Activating(u)
    PROVE  [Promise!Next]_(Promise!selectionVars)
  <1> USE DEF Inv
  <1>1. Sealed' = Sealed /\ UNCHANGED dir
    BY ActivatingKeepsDisk DEF Sealed
  <1>2. CASE Drain(u)
    <2>1. \A x \in Procs \cup Users : Executing'[x] \in {Executing[x], NoName}
      BY <1>2 DEF Drain, Executing, Gone, Types
    <2>2. QED BY <1>1, <1>2, <2>1, ExitStep DEF Drain, Promise!Next
  <1>3. CASE Crash(u)
    <2>1. \A x \in Procs \cup Users : Executing'[x] \in {Executing[x], NoName}
      BY <1>3 DEF Crash, Die, Executing, Types
    <2>2. QED BY <1>1, <1>3, <2>1, ExitStep DEF Crash, Die, Promise!Next
  <1>4. CASE Maintain(u)
    <2>1. PICK p \in Procs : proc[p] = Gone /\ proc' = [proc EXCEPT ![p] = [kind |-> "maintain", gen |-> Goal(u).name]]
      BY <1>4 DEF Maintain
    <2>2. Goal(u).name = current
      BY <1>4 DEF Maintain, Selected, FoundSelected
    <2>3. Executing[p] = NoName
      BY <2>1, ExecutingIs DEF Gone
    <2>4. Executing' = [Executing EXCEPT ![p] = current]
      <3>1. home' = home /\ proc \in [Procs -> [kind : Kinds, gen : Names \cup {NoName}]]
        BY <1>4 DEF Maintain, Types
      <3>2. \A q \in Procs : proc'[q].gen = IF q = p THEN current ELSE proc[q].gen
        BY <2>1, <2>2, <3>1
      <3>3. QED BY <3>1, <3>2 DEF Executing
    <2>5. CASE current = NoName
      <3>1. \A x \in Procs \cup Users : Executing'[x] \in {Executing[x], NoName}
        BY <2>3, <2>4, <2>5 DEF Executing
      <3>2. QED BY <1>1, <1>4, <3>1, ExitStep DEF Maintain, Promise!Next
    <2>6. CASE current # NoName
      BY <1>1, <1>4, <2>3, <2>4, <2>6, LaunchStep DEF Maintain
    <2>7. QED BY <2>5, <2>6
  <1>5. ASSUME UNCHANGED <<proc, home>>, current' \in Sealed \cup {NoName}
        PROVE  [Promise!Next]_(Promise!selectionVars)
    <2>1. UNCHANGED Executing
      BY <1>5 DEF Executing
    <2>2. CASE current' \in Sealed
      <3>1. Promise!Select(current') /\ current' \in Names
        BY <1>1, <2>1, <2>2 DEF Promise!Select, Sealed
      <3>2. QED BY <3>1 DEF Promise!Next
    <2>3. CASE current' = NoName
      BY <1>1, <2>1, <2>3 DEF Promise!Clear, Promise!Next
    <2>4. QED BY <1>5, <2>2, <2>3
  <1>6. CASE ~(Drain(u) \/ Crash(u) \/ Maintain(u))
    <2>1. UNCHANGED <<proc, home>>
      BY <1>6 DEF Activating, Activate, TakeOperation, EnterGate, CheckForward, CheckBack, Withdraw,
                  WithdrawFails, Select, Link, LinkFails, Clear, LeaveGate, ConvergeSelf, Report
    <2>2. current' \in Sealed \cup {NoName}
      BY <1>1 DEF Complete
    <2>3. QED BY <1>5, <2>1, <2>2
  <1>7. QED BY <1>2, <1>3, <1>4, <1>6

LEMMA RuntimeImplements ==
    ASSUME Inv, Inv', NEW p \in Procs, Runtime(p)
    PROVE  [Promise!Next]_(Promise!selectionVars)
  <1> USE DEF Inv
  <1>1. UNCHANGED <<dir, current, home>>
    BY RuntimeFrame DEF diskVars
  <1>2. CASE \A x \in Procs \cup Users : Executing'[x] \in {Executing[x], NoName}
    BY <1>1, <1>2, ExitStep DEF Promise!Next
  <1>3. ASSUME NEW q \in Procs, proc[q] = Gone, current # NoName,
               NEW k, proc' = [proc EXCEPT ![q] = [kind |-> k, gen |-> current]]
        PROVE  Promise!Next
    <2>1. Executing[q] = NoName
      BY <1>3, ExecutingIs DEF Gone
    <2>2. Executing' = [Executing EXCEPT ![q] = current]
      BY <1>1, <1>3 DEF Executing, Types
    <2>3. QED BY <1>1, <1>3, <2>1, <2>2, LaunchStep
  <1>4. CASE Launch(p)
    BY <1>3, <1>4 DEF Launch, Become
  <1>5. CASE StartWatcher(p)
    BY <1>3, <1>5 DEF StartWatcher, Become
  <1>6. CASE ~(Launch(p) \/ StartWatcher(p))
    <2>1. \A q \in Procs : proc'[q].gen \in {proc[q].gen, NoName}
      <3> HIDE DEF Inv
      <3>1. proc \in [Procs -> [kind : Kinds, gen : Names \cup {NoName}]]
        BY DEF Inv, Types
      <3>2. CASE Ending(p)
        <4>1. proc' = [proc EXCEPT ![p] = Gone]
          BY <3>2 DEF Ending, MaintainEnds, MaintainDefers, MaintainFails, Become
        <4>2. QED BY <3>1, <4>1 DEF Gone
      <3>3. CASE RunEnds(p) \/ Retire(p) \/ FireEnds(p) \/ Fire(p)
        <4>1. proc' = [proc EXCEPT ![p] = Gone] \/ \E k : proc' = [proc EXCEPT ![p] = [proc[p] EXCEPT !.kind = k]]
          BY <3>3 DEF RunEnds, Retire, FireEnds, Fire, Become
        <4>2. QED BY <3>1, <4>1 DEF Gone
      <3>4. CASE Converge(p)
        BY <3>1, <3>4 DEF Converge, Gone
      <3>5. QED BY <1>6, <3>2, <3>3, <3>4 DEF Runtime, Ending
    <2>2. \A x \in Procs \cup Users : Executing'[x] \in {Executing[x], NoName}
      BY <1>1, <2>1 DEF Executing
    <2>3. QED BY <1>2, <2>2
  <1>7. QED BY <1>4, <1>5, <1>6

\* Whatever commands build, remove, activate and crash, current names a
\* complete generation or nothing, and no generation is taken away while it is
\* selected or a process executes it, although what is held is only read from
\* the process table (generation.py, docs/decisions/deployment-generations.md).
THEOREM ImplementsSelection == Spec => SelectionIsKept
  <1>1. Init => Promise!Init
    BY GenerationAssumption
       DEF Init, GenerationsInit, Gone, Executing, Sealed, Promise!Init
  <1>2. Inv /\ Inv' /\ [Next]_vars => [Promise!Next]_(Promise!selectionVars)
    <2> SUFFICES ASSUME Inv, Inv', [Next]_vars PROVE [Promise!Next]_(Promise!selectionVars)
      OBVIOUS
    <2>1. CASE UNCHANGED vars
      BY <2>1 DEF vars, generationVars, Promise!selectionVars, Sealed, Executing
    <2>2. ASSUME NEW u \in Users, Command(u)
          PROVE  [Promise!Next]_(Promise!selectionVars)
      BY <2>2, ManageImplements, ActivatingImplements DEF Command, Activating
    <2>3. QED BY <2>1, <2>2, RuntimeImplements DEF Next
  <1>3. QED BY <1>1, <1>2, InvHolds, PTL DEF Spec, SelectionIsKept, Promise!Spec

=============================================================================
