---------------------------- MODULE Maintenance ----------------------------
(***************************************************************************)
(* How the intent and the artifacts of one repository change.  Commands of  *)
(* a user converge under the launch gate.  Maintenance plans without the    *)
(* gate, from several files read one after the other, and commits under it  *)
(* only what still holds: the runtime-commit-epoch file is a sequence lock, *)
(* odd while a writer is at work or was interrupted.                        *)
(*                                                                          *)
(* A trigger is an agent with the version of its definition: the key of a   *)
(* subscription is a digest of both, so another schedule is another key.    *)
(***************************************************************************)
EXTENDS Naturals, FiniteSets

CONSTANTS
    Maintainers,  \* processes running `internal maintain`
    Users,        \* processes running start, stop, doctor or an activation
    Agents,       \* agent identifiers of the repository
    Versions,     \* subscriptions a definition may declare
    Nobody,       \* the gate is free
    NoRequest,    \* a process without a user's request
    MaxEpoch,     \* bound: no process begins at or after this epoch (see MCMaintenance)
    MaxEvents     \* bound: requests, crashes, failures, edits of the world

ASSUME MaintenanceAssumption ==
    /\ Maintainers \cap Users = {}
    /\ Nobody \notin Maintainers \cup Users
    /\ NoRequest \notin [add : SUBSET Agents, remove : SUBSET Agents]
    /\ NoRequest \notin
           [add : SUBSET Agents, remove : SUBSET Agents, withdraw : BOOLEAN]
    /\ Versions \cap {"broken", "missing"} = {}
    /\ MaxEpoch \in Nat /\ MaxEvents \in Nat

VARIABLES
    gate,      \* holder of activation.lock
    epoch,     \* runtime-commit-epoch
    started,   \* started.json: whether it exists, and its agents
    triggers,  \* the trigger store
    world,     \* the repository: definitions, ownership, readability
    pc,        \* where each process is
    plan,      \* what each maintainer has read
    todo,      \* the operations left to apply
    request,   \* what each user process was asked for
    events,    \* number of events, for the bound
    calm       \* history: maintainers that began after the last event

vars == <<gate, epoch, started, triggers, world, pc, plan, todo, request,
          events, calm>>

Procs == Maintainers \cup Users
Absent == [initialized |-> FALSE, agents |-> {}]
Recorded(agents) == [initialized |-> TRUE, agents |-> agents]
Intents == {Recorded(agents) : agents \in SUBSET Agents} \cup {Absent}
Triggers == Agents \X Versions
Texts == Versions \cup {"broken", "missing"}
Reaches == {"readable", "unreadable", "unowned"}
Worlds == [text : [Agents -> Texts], ours : SUBSET Agents, repo : Reaches]
Requests == [add : SUBSET Agents, remove : SUBSET Agents, withdraw : BOOLEAN]
Plans == [epoch : Nat, inputs : Intents, listed : SUBSET Triggers,
          seen : Worlds, loaded : Intents]
Todos == [remove : SUBSET Triggers, install : SUBSET Triggers]

Planning == {"inputs", "list", "read", "load"}
Holding  == {"check", "repair", "odd"}
Writing  == {"collect", "persist", "apply", "even"}
Stages   == {"idle", "wait"} \cup Planning \cup Holding \cup Writing

\* A plan of which nothing was read.
Nowhere == [text |-> [a \in Agents |-> "missing"], ours |-> {}, repo |-> "unreadable"]
NoPlan == [epoch |-> 0, inputs |-> Absent, listed |-> {},
           seen |-> Nowhere, loaded |-> Absent]
NoTodo == [remove |-> {}, install |-> {}]
Refresh == [add |-> {}, remove |-> {}, withdraw |-> FALSE]
Withdraw == [Refresh EXCEPT !.withdraw = TRUE]
Start(a) == [Refresh EXCEPT !.add = {a}]
Halt(a) == [Refresh EXCEPT !.remove = {a}]

(***************************************************************************)
(* lifecycle.collect() and diff(): from what was read to what to do.        *)
(***************************************************************************)

Loaded(w) == {a \in Agents : w.repo # "unreadable" /\ w.text[a] \in Versions}
Broken(w) == {a \in Agents : w.repo # "unreadable" /\ w.text[a] = "broken"}

\* A repository without started.json adopts the agents with a trigger.
Intended(w, found, s, r) ==
    ((IF s.initialized THEN s.agents
      ELSE {a \in Loaded(w) : <<a, w.text[a]>> \in found}) \cup r.add) \ r.remove

\* "Incomplete empty adoption would spend the one chance to adopt."
Records(w, found, s, r) ==
    \/ Intended(w, found, s, r) # {} \/ s.initialized
    \/ w.repo = "readable" /\ Broken(w) = {}
    \/ r.add \cup r.remove # {}

\* Faulty variant: what the definitions ask for, whoever is started.
WantedOfAnyone(w, agents) ==
    {t \in Triggers : /\ w.repo = "readable"
                      /\ t[1] \in Loaded(w) \cap w.ours
                      /\ t[2] = w.text[t[1]]}

Wanted(w, agents) ==
    {t \in Triggers : /\ w.repo = "readable"
                      /\ t[1] \in agents \cap Loaded(w) \cap w.ours
                      /\ t[2] = w.text[t[1]]}

\* Faulty variant: a definition that does not parse is like one that is gone.
ProtectedScopeOnly(w, agents) == IF w.repo = "readable" THEN {} ELSE Agents

Protected(w, agents) ==
    IF w.repo = "readable" THEN agents \cap Broken(w) ELSE Agents

Operations(w, found, agents) ==
    [remove  |-> {t \in found \ Wanted(w, agents) : t[1] \notin Protected(w, agents)},
     install |-> Wanted(w, agents) \ found]

(***************************************************************************)

Init ==
    /\ gate = Nobody
    /\ epoch = 0
    /\ started \in Intents
    /\ triggers \in SUBSET Triggers
    /\ world \in Worlds
    /\ pc = [p \in Procs |-> "idle"]
    /\ plan = [m \in Maintainers |-> NoPlan]
    /\ todo = [p \in Procs |-> NoTodo]
    /\ request = [u \in Users |-> NoRequest]
    /\ events = 0
    /\ calm = {}

Goto(p, stage) == pc' = [pc EXCEPT ![p] = stage]
Read(m, p) == plan' = [plan EXCEPT ![m] = p]

\* The process ends or gives up: it forgets, and the gate is free.
Quit(p) ==
    /\ Goto(p, "idle")
    /\ gate' = IF gate = p THEN Nobody ELSE gate
    /\ plan' = [m \in Maintainers |-> IF m = p THEN NoPlan ELSE plan[m]]
    /\ todo' = [todo EXCEPT ![p] = NoTodo]
    /\ request' = [u \in Users |-> IF u = p THEN NoRequest ELSE request[u]]

Event ==
    /\ events < MaxEvents
    /\ events' = events + 1
    /\ calm' = {}

(***************************************************************************)
(* The environment.                                                         *)
(***************************************************************************)

\* A definition is edited, ownership moves, the repository comes and goes.
Edit ==
    /\ Event
    /\ \/ \E a \in Agents, x \in Texts : world' = [world EXCEPT !.text[a] = x]
       \/ \E a \in Agents : world' = [world EXCEPT !.ours =
              IF a \in @ THEN @ \ {a} ELSE @ \cup {a}]
       \/ \E r \in Reaches : world' = [world EXCEPT !.repo = r]
    /\ world' # world
    /\ UNCHANGED <<gate, epoch, started, triggers, pc, plan, todo, request>>

\* start needs a definition that loads, stop does not; an activation
\* withdraws every trigger, and doctor, init and migrate just converge.
Ask(u, r) ==
    /\ Event
    /\ pc[u] = "idle"
    /\ epoch < MaxEpoch
    /\ r.add \subseteq Loaded(world)
    /\ request' = [request EXCEPT ![u] = r]
    /\ Goto(u, "wait")
    /\ UNCHANGED <<gate, epoch, started, triggers, world, plan, todo>>

\* A crash, or a write of the epoch that fails: what is on disk stays.
Crash(p) ==
    /\ Event
    /\ pc[p] # "idle"
    /\ Quit(p)
    /\ UNCHANGED <<epoch, started, triggers, world>>

(***************************************************************************)
(* plan_maintenance(), without the gate.                                    *)
(***************************************************************************)

Begin(m) ==
    /\ pc[m] = "idle"
    /\ epoch < MaxEpoch
    /\ Read(m, [NoPlan EXCEPT !.epoch = epoch])
    /\ calm' = calm \cup {m}
    /\ Goto(m, "inputs")
    /\ UNCHANGED <<gate, epoch, started, triggers, world, todo, request, events>>

ReadInputs(m) ==
    /\ pc[m] = "inputs"
    /\ Read(m, [plan[m] EXCEPT !.inputs = started])
    /\ Goto(m, "list")
    /\ UNCHANGED <<gate, epoch, started, triggers, world, todo, request, events, calm>>

ListTriggers(m) ==
    /\ pc[m] = "list"
    /\ Read(m, [plan[m] EXCEPT !.listed = triggers])
    /\ Goto(m, "read")
    /\ UNCHANGED <<gate, epoch, started, triggers, world, todo, request, events, calm>>

ReadWorld(m) ==
    /\ pc[m] = "read"
    /\ Read(m, [plan[m] EXCEPT !.seen = world])
    /\ Goto(m, "load")
    /\ UNCHANGED <<gate, epoch, started, triggers, world, todo, request, events, calm>>

LoadStarted(m) ==
    /\ pc[m] = "load"
    /\ Read(m, [plan[m] EXCEPT !.loaded = started])
    /\ Goto(m, "wait")
    /\ UNCHANGED <<gate, epoch, started, triggers, world, todo, request, events, calm>>

(***************************************************************************)
(* Under the gate.                                                          *)
(***************************************************************************)

EnterGate(p) ==
    /\ pc[p] = "wait"
    /\ gate = Nobody
    /\ gate' = p
    /\ Goto(p, IF p \in Maintainers THEN "check" ELSE "odd")
    /\ UNCHANGED <<epoch, started, triggers, world, plan, todo, request, events, calm>>

\* LockBusy: a command fails at once, maintenance after its wait.
GateBusy(p) ==
    /\ pc[p] = "wait"
    /\ gate # Nobody
    /\ Quit(p)
    /\ UNCHANGED <<epoch, started, triggers, world, events, calm>>

\* Faulty variants: only the files in the plan are compared, or only the mark
\* of an interrupted writer is looked for.
CurrentByInputs(p) == p.inputs = started
CurrentUnlessOdd(p) == p.epoch % 2 = 0

\* maintenance_plan_current(): nothing was written since the plan began.
Current(p) == p.epoch % 2 = 0 /\ p.epoch = epoch /\ p.inputs = started

Check(m) ==
    /\ pc[m] = "check"
    /\ epoch % 2 = 0 /\ Current(plan[m])
    /\ Goto(m, "odd")
    /\ UNCHANGED <<gate, epoch, started, triggers, world, plan, todo, request, events, calm>>

FindInterrupted(m) ==
    /\ pc[m] = "check"
    /\ epoch % 2 = 1
    /\ Goto(m, "repair")
    /\ UNCHANGED <<gate, epoch, started, triggers, world, plan, todo, request, events, calm>>

\* A plan that does not hold is dropped; the next attempt begins anew.
Discard(m) ==
    /\ pc[m] = "check"
    /\ epoch % 2 = 0 /\ ~Current(plan[m])
    /\ Quit(m)
    /\ UNCHANGED <<epoch, started, triggers, world, events, calm>>

\* An empty commit() over the mark of an interrupted writer: the odd number
\* is written again, then the even one.
Repair(m) ==
    /\ pc[m] = "repair"
    /\ epoch' = epoch + 1
    /\ Quit(m)
    /\ UNCHANGED <<started, triggers, world, events, calm>>

\* Faulty variant: the next number, also over the mark of an interrupted writer.
WriteOddNext(p) ==
    /\ pc[p] = "odd"
    /\ epoch' = epoch + 1
    /\ Goto(p, IF p \in Maintainers THEN "persist" ELSE "collect")
    /\ UNCHANGED <<gate, started, triggers, world, plan, todo, request, events, calm>>

\* commit(): the next odd number, which an interrupted writer left already.
WriteOdd(p) ==
    /\ pc[p] = "odd"
    /\ epoch' = IF epoch % 2 = 0 THEN epoch + 1 ELSE epoch
    /\ Goto(p, IF p \in Maintainers THEN "persist" ELSE "collect")
    /\ UNCHANGED <<gate, started, triggers, world, plan, todo, request, events, calm>>

\* Faulty variant: a commit that leaves the intent as it was applies nothing.
PersistChanges(m) ==
    /\ pc[m] = "persist"
    /\ LET p == plan[m]
           agents == Intended(p.seen, p.listed, p.loaded, Refresh)
       IN  /\ started' = IF Records(p.seen, p.listed, p.loaded, Refresh)
                         THEN Recorded(agents) ELSE started
           /\ todo' = IF started' = started THEN todo
                      ELSE [todo EXCEPT ![m] = Operations(p.seen, p.listed, agents)]
    /\ Goto(m, "apply")
    /\ UNCHANGED <<gate, epoch, triggers, world, plan, request, events, calm>>

\* commit_maintenance() replaces started.json by what the plan loaded, and
\* applies the operations of the plan.
Persist(m) ==
    /\ pc[m] = "persist"
    /\ LET p == plan[m]
           agents == Intended(p.seen, p.listed, p.loaded, Refresh)
       IN  /\ started' = IF Records(p.seen, p.listed, p.loaded, Refresh)
                         THEN Recorded(agents) ELSE started
           /\ todo' = [todo EXCEPT ![m] = Operations(p.seen, p.listed, agents)]
    /\ Goto(m, "apply")
    /\ UNCHANGED <<gate, epoch, triggers, world, plan, request, events, calm>>

\* A user's command collects under the gate and persists what it collected.
\* An activation refuses a repository it cannot read completely; otherwise
\* it adopts before it withdraws the triggers.
Collect(u) ==
    /\ pc[u] = "collect"
    /\ LET r == request[u]
           agents == Intended(world, triggers, started, r)
       IN  /\ r.withdraw => world.repo = "readable" /\ Broken(world) = {}
           /\ started' = IF Records(world, triggers, started, r)
                         THEN Recorded(agents) ELSE started
           /\ todo' = [todo EXCEPT ![u] =
                  IF r.withdraw THEN [remove |-> triggers, install |-> {}]
                  ELSE Operations(world, triggers, agents)]
    /\ Goto(u, "apply")
    /\ UNCHANGED <<gate, epoch, triggers, world, plan, request, events, calm>>

Refused(u) ==
    /\ pc[u] = "collect"
    /\ request[u].withdraw
    /\ world.repo # "readable" \/ Broken(world) # {}
    /\ Goto(u, "even")
    /\ UNCHANGED <<gate, epoch, started, triggers, world, plan, todo, request, events, calm>>

\* started.json cannot be written: CollectionUnavailable.
PersistFails(p) ==
    /\ Event
    /\ pc[p] \in {"persist", "collect"}
    /\ Goto(p, "even")
    /\ UNCHANGED <<gate, epoch, started, triggers, world, plan, todo, request>>

\* Removals are applied before installations.
Remove(p, t) ==
    /\ pc[p] = "apply"
    /\ t \in todo[p].remove
    /\ triggers' = triggers \ {t}
    /\ todo' = [todo EXCEPT ![p].remove = @ \ {t}]
    /\ UNCHANGED <<gate, epoch, started, world, pc, plan, request, events, calm>>

Install(p, t) ==
    /\ pc[p] = "apply"
    /\ todo[p].remove = {}
    /\ t \in todo[p].install
    /\ triggers' = triggers \cup {t}
    /\ todo' = [todo EXCEPT ![p].install = @ \ {t}]
    /\ UNCHANGED <<gate, epoch, started, world, pc, plan, request, events, calm>>

\* The host refuses an operation.  Convergence goes on with the others, an
\* activation ends.
Fails(p, t) ==
    /\ Event
    /\ pc[p] = "apply"
    /\ t \in todo[p].remove \cup todo[p].install
    /\ todo' = [todo EXCEPT ![p] =
           IF p \in Users /\ request[p] = Withdraw THEN NoTodo
           ELSE [remove |-> todo[p].remove \ {t},
                 install |-> todo[p].install \ {t}]]
    /\ UNCHANGED <<gate, epoch, started, triggers, world, pc, plan, request>>

Applied(p) ==
    /\ pc[p] = "apply"
    /\ todo[p] = NoTodo
    /\ Goto(p, "even")
    /\ UNCHANGED <<gate, epoch, started, triggers, world, plan, todo, request, events, calm>>

WriteEven(p) ==
    /\ pc[p] = "even"
    /\ epoch' = epoch + 1
    /\ Quit(p)
    /\ UNCHANGED <<started, triggers, world, events, calm>>

(***************************************************************************)

Maintain(m) ==
    \/ Begin(m) \/ ReadInputs(m) \/ ListTriggers(m) \/ ReadWorld(m)
    \/ LoadStarted(m) \/ Check(m) \/ FindInterrupted(m) \/ Discard(m)
    \/ Repair(m) \/ Persist(m)
Command(u) == Collect(u) \/ Refused(u)
Commit(p) ==
    \/ EnterGate(p) \/ GateBusy(p) \/ WriteOdd(p) \/ Applied(p) \/ WriteEven(p)
    \/ \E t \in Triggers : Remove(p, t) \/ Install(p, t)

Environment ==
    \/ Edit
    \/ \E u \in Users :
          \/ Ask(u, Refresh) \/ Ask(u, Withdraw)
          \/ \E a \in Agents : Ask(u, Start(a)) \/ Ask(u, Halt(a))
    \/ \E p \in Procs :
          \/ Crash(p) \/ PersistFails(p)
          \/ \E t \in Triggers : Fails(p, t)

Next ==
    \/ Environment
    \/ \E m \in Maintainers : Maintain(m)
    \/ \E u \in Users : Command(u)
    \/ \E p \in Procs : Commit(p)

Spec == Init /\ [][Next]_vars

\* A process that was started takes its next step.  That maintenance is started
\* at all is not assumed: its trigger is withdrawn with the others.
Fairness ==
    /\ \A m \in Maintainers : WF_vars(pc[m] # "idle" /\ (Maintain(m) \/ Commit(m)))
    /\ \A u \in Users : WF_vars(Command(u) \/ Commit(u))
FairSpec == Spec /\ Fairness

(***************************************************************************)
(* What maintenance and convergence promise.                                *)
(***************************************************************************)

TypeOK ==
    /\ gate \in Procs \cup {Nobody}
    /\ epoch \in Nat
    /\ started \in Intents
    /\ triggers \in SUBSET Triggers
    /\ world \in Worlds
    /\ pc \in [Procs -> Stages]
    /\ plan \in [Maintainers -> Plans]
    /\ todo \in [Procs -> Todos]
    /\ request \in [Users -> Requests \cup {NoRequest}]
    /\ events \in 0 .. MaxEvents
    /\ calm \in SUBSET Maintainers

\* A plan that passed its check describes the files it is committed to, each
\* of them, although they were read one by one without the gate, while
\* writers came, went and died.
PlanIsExact ==
    \A m \in Maintainers :
        pc[m] \in {"odd", "persist"} =>
            /\ plan[m].listed = triggers
            /\ plan[m].loaded = started

\* The sequence lock, as its readers need it of every writer: what it guards
\* changes only while the epoch is odd.  It holds across writers that die
\* half-way, commands that commit over the mark they left without looking, and
\* repairs (commit, maintenance_plan_current).
EpochMarksWrites ==
    [][UNCHANGED <<started, triggers>> \/ (epoch % 2 = 1 /\ epoch' = epoch)]_vars

\* The epoch never goes back, so that a number stands for one moment.
EpochGrows == [][epoch' >= epoch]_vars

\* Maintenance withdraws a trigger only of an agent the user stopped, or on
\* what it read of a definition whose trigger is another or not ours.
RemovalsAreDue ==
    \A m \in Maintainers :
        pc[m] = "apply" /\ started.initialized =>
            \A t \in todo[m].remove :
                \/ t[1] \notin started.agents
                \/ /\ plan[m].seen.repo = "readable"
                   /\ \/ plan[m].seen.text[t[1]] \notin {t[2], "broken"}
                      \/ t[1] \notin plan[m].seen.ours

\* Maintenance installs no trigger of an agent the user has stopped.
InstallsAreDue ==
    \A m \in Maintainers :
        pc[m] = "apply" => \A t \in todo[m].install : t[1] \in started.agents

\* The triggers are what the intent and the repository ask for.
Converged ==
    Operations(world, triggers, Intended(world, triggers, started, Refresh)) = NoTodo

\* One undisturbed maintenance is enough: when nothing else happened since it
\* began, its commit leaves nothing to do, whatever was interrupted before.
OneCommitConverges ==
    \A m \in calm : pc[m] = "even" => Converged

\* Intent is the user's: no update of started.json is lost or invented.
I == INSTANCE Intent WITH
         Requesters <- Users,
         request <- [u \in Users |->
             IF request[u] = NoRequest \/ pc[u] \in {"apply", "even"} THEN NoRequest
             ELSE [add |-> request[u].add, remove |-> request[u].remove]]
IntentIsTheUsers == I!Spec

\* When requests, edits, failures and crashes end, the triggers come to match
\* the intent and stay so, also after a writer that died half-way, a refused
\* operation and a commit whose plan was out of date; provided that maintenance
\* is started again and again, by its trigger or, when an activation died that
\* had withdrawn it, by someone.
EventuallyConverged == []<>(\E m \in Maintainers : pc[m] = "inputs") => <>[]Converged

\* "Convergence never removes an artifact whose desired state could not be
\* computed": not the trigger of a definition that does not parse, unless its
\* agent is known to be stopped.
UncomputedIsKept ==
    \A m \in Maintainers :
        pc[m] = "apply" =>
            \A t \in todo[m].remove :
                plan[m].seen.text[t[1]] = "broken" =>
                    /\ plan[m].loaded.initialized
                    /\ t[1] \notin plan[m].loaded.agents

=============================================================================
