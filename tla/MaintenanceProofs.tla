------------------------- MODULE MaintenanceProofs -------------------------
(***************************************************************************)
(* Proofs about Maintenance, for every set of processes, agents, versions.  *)
(***************************************************************************)
EXTENDS Maintenance, TLAPS

(***************************************************************************)
(* The inductive invariant.                                                 *)
(***************************************************************************)

\* The stages at which a plan has read the inputs, the triggers, the
\* repository and the intent, and has not been committed yet.
ReadInputsBy   == {"list", "read", "load", "wait", "check", "odd"}
ListedBy       == {"read", "load", "wait", "check", "odd"}
LoadedBy       == {"wait", "check", "odd"}

\* Whoever is past the gate holds it.
GateIsHeld == \A p \in Procs : pc[p] \in Holding \cup Writing => gate = p

\* A user's process at work knows its request, and no other has one.
RequestIsKnown ==
    \A u \in Users :
        IF pc[u] = "idle" THEN request[u] = NoRequest ELSE request[u] \in Requests

\* A writer at work, or one found dead, has marked the epoch.
OddWhileWriting ==
    \A p \in Procs : pc[p] \in Writing \cup {"repair"} => epoch % 2 = 1

\* No plan comes from the future.
EpochsArePast == \A m \in Maintainers : plan[m].epoch <= epoch

\* As long as the epoch of a plan is the current one and even, nothing the
\* plan has read so far has changed.
PlanIsFresh ==
    \A m \in Maintainers :
        plan[m].epoch % 2 = 0 /\ plan[m].epoch = epoch =>
            /\ pc[m] \in ReadInputsBy => plan[m].inputs = started
            /\ pc[m] \in ListedBy => plan[m].listed = triggers
            /\ pc[m] \in LoadedBy => plan[m].loaded = started

\* The check holds until the plan is committed.
CheckedIsCurrent ==
    \A m \in Maintainers :
        pc[m] = "odd" => epoch % 2 = 0 /\ plan[m].epoch = epoch

PlanningInv ==
    /\ TypeOK
    /\ GateIsHeld
    /\ RequestIsKnown
    /\ OddWhileWriting
    /\ EpochsArePast
    /\ PlanIsFresh
    /\ CheckedIsCurrent
    /\ PlanIsExact

(***************************************************************************)
(* What collect() returns is well formed.                                   *)
(***************************************************************************)

LEMMA IntendedType ==
  ASSUME NEW w \in Worlds, NEW found \in SUBSET Triggers, NEW s \in Intents,
         NEW r \in Requests
  PROVE  Intended(w, found, s, r) \in SUBSET Agents
  BY DEF Intended, Loaded, Intents, Recorded, Absent, Requests

LEMMA OperationsType ==
  ASSUME NEW w \in Worlds, NEW found \in SUBSET Triggers, NEW agents \in SUBSET Agents
  PROVE  Operations(w, found, agents) \in Todos
  BY DEF Operations, Wanted, Todos

LEMMA RefreshType == Refresh \in Requests
  BY DEF Refresh, Requests

LEMMA AskTypes ==
  /\ Withdraw \in Requests
  /\ \A a \in Agents : Start(a) \in Requests /\ Halt(a) \in Requests
  BY DEF Withdraw, Start, Halt, Refresh, Requests

LEMMA NoPlanType == NoPlan \in Plans
  BY DEF NoPlan, Plans, Intents, Absent, Worlds, Nowhere, Texts, Reaches

LEMMA NoTodoType == NoTodo \in Todos
  BY DEF NoTodo, Todos

LEMMA RecordedType ==
  ASSUME NEW agents \in SUBSET Agents PROVE Recorded(agents) \in Intents
  BY DEF Intents

(***************************************************************************)
(* Every step preserves the invariant.                                      *)
(***************************************************************************)

USE MaintenanceAssumption DEF PlanningInv, TypeOK, GateIsHeld, RequestIsKnown,
    OddWhileWriting, EpochsArePast, PlanIsFresh, CheckedIsCurrent, PlanIsExact,
    ReadInputsBy, ListedBy, LoadedBy, Procs, Stages, Planning, Holding, Writing,
    Goto, Read, Event

LEMMA InitPlanningInv == Init => PlanningInv
  <1> SUFFICES ASSUME Init PROVE PlanningInv
    OBVIOUS
  <1>1. TypeOK
    BY NoPlanType, NoTodoType DEF Init
  <1>2. \A m \in Maintainers : plan[m].epoch = 0
    BY DEF Init, NoPlan
  <1>3. \A p \in Procs : pc[p] = "idle"
    BY DEF Init
  <1>4. \A u \in Users : request[u] = NoRequest
    BY DEF Init
  <1> QED BY <1>1, <1>2, <1>3, <1>4

\* The world changes.
LEMMA EditStep ==
  ASSUME PlanningInv, Edit
  PROVE  PlanningInv'
  <1>1. world' \in Worlds
    BY DEF Edit, Worlds
  <1> QED BY <1>1 DEF Edit

LEMMA AskStep ==
  ASSUME PlanningInv, NEW u \in Users, NEW r \in Requests, Ask(u, r)
  PROVE  PlanningInv'
  BY DEF Ask

\* A process that quits frees the gate and takes nothing with it.
LEMMA QuitStep ==
  ASSUME PlanningInv, NEW p \in Procs, Quit(p), pc[p] # "idle",
         UNCHANGED <<started, triggers, world>>,
         \/ epoch' = epoch
         \/ pc[p] \in {"repair", "even"} /\ epoch' = epoch + 1,
         events' \in 0 .. MaxEvents, calm' \in SUBSET Maintainers
  PROVE  PlanningInv'
  <1>1. TypeOK'
    BY NoPlanType, NoTodoType DEF Quit
  <1>2. GateIsHeld' /\ RequestIsKnown'
    BY DEF Quit
  <1>3. \A m \in Maintainers : m # p => plan'[m] = plan[m] /\ pc'[m] = pc[m]
    BY DEF Quit
  <1>4. pc'[p] = "idle" /\ (p \in Maintainers => plan'[p] = NoPlan)
    BY DEF Quit
  <1>5. \A q \in Procs : q # p => pc'[q] = pc[q]
    BY DEF Quit
  <1>6. epoch' # epoch => \A q \in Procs : q # p => pc[q] \notin Holding \cup Writing
    OBVIOUS
  <1>7. OddWhileWriting'
    BY <1>4, <1>5, <1>6
  <1>8. EpochsArePast'
    BY <1>3, <1>4 DEF NoPlan, Plans
  <1>9. PlanIsFresh'
    BY <1>3, <1>4 DEF Plans
  <1>10. CheckedIsCurrent' /\ PlanIsExact'
    BY <1>3, <1>4, <1>6
  <1> QED BY <1>1, <1>2, <1>7, <1>8, <1>9, <1>10

\* Planning reads one file after the other.
LEMMA ReadStep ==
  ASSUME PlanningInv, NEW m \in Maintainers,
         Begin(m) \/ ReadInputs(m) \/ ListTriggers(m) \/ ReadWorld(m)
         \/ LoadStarted(m)
  PROVE  PlanningInv'
  <1>1. CASE Begin(m)
    BY <1>1, NoPlanType DEF Begin, Plans, NoPlan
  <1>2. CASE ReadInputs(m)
    BY <1>2 DEF ReadInputs, Plans
  <1>3. CASE ListTriggers(m)
    BY <1>3 DEF ListTriggers, Plans
  <1>4. CASE ReadWorld(m)
    BY <1>4 DEF ReadWorld, Plans
  <1>5. CASE LoadStarted(m)
    BY <1>5 DEF LoadStarted, Plans
  <1> QED BY <1>1, <1>2, <1>3, <1>4, <1>5

\* The gate is taken and the plan is checked; the epoch turns odd.
LEMMA GateStep ==
  ASSUME PlanningInv, NEW p \in Procs,
         \/ EnterGate(p) \/ WriteOdd(p) \/ Applied(p)
         \/ p \in Maintainers /\ (Check(p) \/ FindInterrupted(p))
         \/ p \in Users /\ Refused(p)
         \/ PersistFails(p)
  PROVE  PlanningInv'
  <1>1. CASE EnterGate(p)
    BY <1>1 DEF EnterGate
  <1>2. CASE WriteOdd(p)
    BY <1>2, SMTT(30) DEF WriteOdd, Plans
  <1>3. CASE Applied(p)
    BY <1>3 DEF Applied
  <1>4. CASE p \in Maintainers /\ Check(p)
    BY <1>4 DEF Check, Current
  <1>5. CASE p \in Maintainers /\ FindInterrupted(p)
    BY <1>5 DEF FindInterrupted
  <1>6. CASE p \in Users /\ Refused(p)
    BY <1>6 DEF Refused
  <1>7. CASE PersistFails(p)
    BY <1>7 DEF PersistFails
  <1> QED BY <1>1, <1>2, <1>3, <1>4, <1>5, <1>6, <1>7

\* Writers hold the gate and have turned the epoch odd, so no plan that
\* could still pass its check depends on what they change.
LEMMA WriteStep ==
  ASSUME PlanningInv, NEW p \in Procs, pc[p] \in Writing,
         gate' = gate, epoch' = epoch, world' = world, plan' = plan,
         request' = request, pc' = [pc EXCEPT ![p] = "apply"],
         started' \in Intents, triggers' \in SUBSET Triggers,
         todo' \in [Procs -> Todos],
         events' \in 0 .. MaxEvents, calm' \in SUBSET Maintainers
  PROVE  PlanningInv'
  BY DEF Plans

\* What the writers write is well formed.
LEMMA WritesType ==
  ASSUME PlanningInv, NEW p \in Procs,
         \/ p \in Maintainers /\ Persist(p)
         \/ p \in Users /\ Collect(p)
         \/ \E t \in Triggers : Remove(p, t) \/ Install(p, t) \/ Fails(p, t)
  PROVE  PlanningInv'
  <1>1. CASE p \in Maintainers /\ Persist(p)
    <2> DEFINE q == plan[p]
               agents == Intended(q.seen, q.listed, q.loaded, Refresh)
    <2>0. q.seen \in Worlds /\ q.listed \in SUBSET Triggers /\ q.loaded \in Intents
      BY <1>1 DEF Plans
    <2>1. agents \in SUBSET Agents
      BY <2>0, RefreshType, IntendedType
    <2>2. Recorded(agents) \in Intents /\ Operations(q.seen, q.listed, agents) \in Todos
      BY <2>0, <2>1, RecordedType, OperationsType
    <2>3. started' \in Intents /\ todo' \in [Procs -> Todos]
      BY <1>1, <2>2 DEF Persist
    <2> QED BY <1>1, <2>3, WriteStep DEF Persist
  <1>2. CASE p \in Users /\ Collect(p)
    <2> DEFINE agents == Intended(world, triggers, started, request[p])
    <2>1. agents \in SUBSET Agents
      BY <1>2, IntendedType DEF Collect
    <2>2. Recorded(agents) \in Intents /\ Operations(world, triggers, agents) \in Todos
      BY <2>1, RecordedType, OperationsType
    <2>3. started' \in Intents /\ todo' \in [Procs -> Todos]
      BY <1>2, <2>2 DEF Collect, Todos
    <2> QED BY <1>2, <2>3, WriteStep DEF Collect
  <1>3. CASE \E t \in Triggers : Remove(p, t) \/ Install(p, t) \/ Fails(p, t)
    <2>1. PICK t \in Triggers : Remove(p, t) \/ Install(p, t) \/ Fails(p, t)
      BY <1>3
    <2>2. pc[p] = "apply" /\ pc' = [pc EXCEPT ![p] = "apply"]
      BY <2>1 DEF Remove, Install, Fails
    <2>3. todo' \in [Procs -> Todos]
      BY <2>1, NoTodoType DEF Remove, Install, Fails, Todos
    <2>4. triggers' \in SUBSET Triggers /\ events' \in 0 .. MaxEvents /\ calm' \in SUBSET Maintainers
      BY <2>1 DEF Remove, Install, Fails
    <2>5. UNCHANGED <<gate, epoch, started, world, plan, request>> /\ started \in Intents
      BY <2>1 DEF Remove, Install, Fails
    <2> HIDE DEF PlanningInv
    <2> QED BY <2>2, <2>3, <2>4, <2>5, WriteStep
  <1> QED BY <1>1, <1>2, <1>3

HIDE DEF PlanningInv, TypeOK, GateIsHeld, RequestIsKnown, OddWhileWriting,
    EpochsArePast, PlanIsFresh, CheckedIsCurrent, PlanIsExact, Event

\* Who quits: a crash, a busy gate, a plan that does not hold, the end.
LEMMA QuitsStep ==
  ASSUME PlanningInv, NEW p \in Procs,
         \/ Crash(p) \/ GateBusy(p) \/ WriteEven(p)
         \/ p \in Maintainers /\ (Discard(p) \/ Repair(p))
  PROVE  PlanningInv'
  <1> USE DEF PlanningInv, TypeOK
  <1>1. CASE Crash(p)
    BY <1>1, QuitStep DEF Crash, Event
  <1>2. CASE GateBusy(p)
    BY <1>2, QuitStep DEF GateBusy
  <1>3. CASE WriteEven(p)
    BY <1>3, QuitStep DEF WriteEven
  <1>4. CASE Discard(p)
    BY <1>4, QuitStep DEF Discard
  <1>5. CASE Repair(p)
    BY <1>5, QuitStep DEF Repair
  <1> QED BY <1>1, <1>2, <1>3, <1>4, <1>5

LEMMA NextPlanningInv == PlanningInv /\ [Next]_vars => PlanningInv'
  <1> SUFFICES ASSUME PlanningInv, [Next]_vars PROVE PlanningInv'
    OBVIOUS
  <1>1. CASE Environment
    BY <1>1, EditStep, AskStep, AskTypes, RefreshType, QuitsStep, GateStep, WritesType
       DEF Environment
  <1>2. CASE \E m \in Maintainers : Maintain(m)
    BY <1>2, ReadStep, GateStep, QuitsStep, WritesType DEF Maintain
  <1>3. CASE \E u \in Users : Command(u)
    BY <1>3, GateStep, WritesType DEF Command
  <1>4. CASE \E p \in Procs : Commit(p)
    BY <1>4, GateStep, QuitsStep, WritesType DEF Commit
  <1>5. CASE UNCHANGED vars
    BY <1>5 DEF vars, PlanningInv, TypeOK, GateIsHeld, RequestIsKnown,
       OddWhileWriting, EpochsArePast, PlanIsFresh, CheckedIsCurrent, PlanIsExact
  <1> QED BY <1>1, <1>2, <1>3, <1>4, <1>5 DEF Next

LEMMA Planned == Spec => []PlanningInv
  BY InitPlanningInv, NextPlanningInv, PTL DEF Spec

\* Every variable of the maintenance protocol stays in its range.
THEOREM TypeCorrect == Spec => []TypeOK
  BY Planned, PTL DEF PlanningInv

\* The sequence lock works: a plan read file by file without the gate is
\* committed only to the very intent and triggers it read.
THEOREM PlansAreExact == Spec => []PlanIsExact
  BY Planned, PTL DEF PlanningInv

\* The writers keep the sequence lock: intent and triggers change only under an
\* odd epoch, and the epoch never goes back, whoever dies and whoever repairs.
THEOREM WritesAreMarked == Spec => EpochMarksWrites /\ EpochGrows
  <1> DEFINE Marked == /\ epoch' >= epoch
                       /\ UNCHANGED <<started, triggers>> \/ (epoch % 2 = 1 /\ epoch' = epoch)
  <1>1. PlanningInv /\ [Next]_vars => [Marked]_vars
    <2> SUFFICES ASSUME PlanningInv, Next PROVE Marked
      OBVIOUS
    <2>1. epoch \in Nat /\ \A p \in Procs : pc[p] \in Writing => epoch % 2 = 1
      BY DEF PlanningInv, TypeOK, OddWhileWriting
    <2>2. CASE Environment
      BY <2>1, <2>2 DEF Environment, Crash, PersistFails, Fails, Edit, Ask, Quit, Writing
    <2>3. CASE \E m \in Maintainers : Maintain(m)
      <3>1. PICK m \in Maintainers : Maintain(m)
        BY <2>3
      <3>2. CASE Persist(m)
        BY <2>1, <3>2 DEF Persist, Writing, Procs
      <3>3. CASE ~Persist(m)
        BY <2>1, <3>1, <3>3
           DEF Maintain, Begin, ReadInputs, ListTriggers, ReadWorld, LoadStarted, Check, FindInterrupted,
               Discard, Repair, Quit
      <3>4. QED BY <3>2, <3>3
    <2>4. CASE \E u \in Users : Command(u)
      BY <2>1, <2>4 DEF Command, Collect, Refused, Writing, Procs
    <2>5. CASE \E p \in Procs : Commit(p)
      <3>1. PICK p \in Procs : Commit(p)
        BY <2>5
      <3>2. CASE \E t \in Triggers : Remove(p, t) \/ Install(p, t)
        BY <2>1, <3>2 DEF Remove, Install, Writing
      <3>3. CASE ~\E t \in Triggers : Remove(p, t) \/ Install(p, t)
        BY <2>1, <3>1, <3>3 DEF Commit, EnterGate, GateBusy, WriteOdd, Applied, WriteEven, Quit
      <3>4. QED BY <3>2, <3>3
    <2>6. QED BY <2>2, <2>3, <2>4, <2>5 DEF Next
  <1> DEFINE Written == UNCHANGED <<started, triggers>> \/ (epoch % 2 = 1 /\ epoch' = epoch)
  <1>2. [Marked]_vars => [Written]_vars /\ [epoch' >= epoch]_vars
    OBVIOUS
  <1>3. QED BY <1>1, <1>2, Planned, PTL DEF Spec, EpochMarksWrites, EpochGrows

(***************************************************************************)
(* What a maintainer applies.                                               *)
(***************************************************************************)

\* The agents a maintainer's plan intends to run.
PlannedAgents(m) ==
    Intended(plan[m].seen, plan[m].listed, plan[m].loaded, Refresh)

\* While a maintainer applies its plan, the plan is the intent.
AppliesPlan ==
    \A m \in Maintainers :
        pc[m] = "apply" =>
            LET due == Operations(plan[m].seen, plan[m].listed, PlannedAgents(m))
            IN  /\ todo[m].remove \subseteq due.remove
                /\ todo[m].install \subseteq due.install
                /\ \/ started = Recorded(PlannedAgents(m))
                   \/ ~started.initialized /\ PlannedAgents(m) = {}

\* While a maintainer applies, no other process writes.
LEMMA SoleWriter ==
  ASSUME PlanningInv, NEW m \in Maintainers, pc[m] \in Writing,
         NEW p \in Procs, pc[p] \in Holding \cup Writing
  PROVE  p = m
  BY DEF PlanningInv, GateIsHeld, Procs

\* Nothing but its own operations happens to a maintainer while it applies,
\* to the intent and to the triggers; only an event disturbs its world.
Undisturbed(m) ==
    /\ pc[m] = "apply" /\ pc'[m] = "apply"
    /\ plan'[m] = plan[m] /\ started' = started
    /\ m \in calm' => m \in calm /\ world' = world
    /\ \/ todo'[m] = todo[m] /\ triggers' = triggers
       \/ \E t \in Triggers : Remove(m, t) \/ Install(m, t) \/ Fails(m, t)

LEMMA ApplyingStep ==
  ASSUME PlanningInv, [Next]_vars, NEW m \in Maintainers, pc'[m] = "apply"
  PROVE  Persist(m) \/ Undisturbed(m)
  <1> USE DEF PlanningInv, TypeOK, Undisturbed, Event
  <1>1. CASE Environment
    <2>1. CASE Edit
      BY <1>1, <2>1 DEF Edit
    <2>2. CASE \E u \in Users, r \in Requests : Ask(u, r)
      BY <2>2 DEF Ask
    <2>3. CASE \E p \in Procs : Crash(p)
      BY <2>3 DEF Crash, Quit
    <2>4. CASE \E p \in Procs : PersistFails(p)
      BY <2>4 DEF PersistFails
    <2>5. CASE \E p \in Procs, t \in Triggers : Fails(p, t)
      <3>1. PICK p \in Procs, t \in Triggers : Fails(p, t)
        BY <2>5
      <3>2. pc[m] = "apply" /\ UNCHANGED <<pc, plan, started, triggers, world>>
        BY <3>1 DEF Fails
      <3>3. m \in calm' => m \in calm
        BY <3>1 DEF Fails
      <3>4. p = m \/ todo'[m] = todo[m]
        BY <3>1 DEF Fails
      <3> QED BY <3>1, <3>2, <3>3, <3>4
    <2> QED BY <1>1, <2>1, <2>2, <2>3, <2>4, <2>5, AskTypes, RefreshType DEF Environment
  <1>2. CASE \E q \in Maintainers : Maintain(q)
    <2>1. PICK q \in Maintainers : Maintain(q)
      BY <1>2
    <2>2. CASE Begin(q) \/ ReadInputs(q) \/ ListTriggers(q) \/ ReadWorld(q) \/ LoadStarted(q)
      BY <2>2 DEF Begin, ReadInputs, ListTriggers, ReadWorld, LoadStarted
    <2>3. CASE Check(q) \/ FindInterrupted(q)
      BY <2>3 DEF Check, FindInterrupted
    <2>4. CASE Discard(q) \/ Repair(q)
      BY <2>4 DEF Discard, Repair, Quit
    <2>5. CASE Persist(q)
      BY <2>5, SoleWriter DEF Persist
    <2> QED BY <2>1, <2>2, <2>3, <2>4, <2>5 DEF Maintain
  <1>3. CASE \E u \in Users : Command(u)
    BY <1>3, SoleWriter DEF Command, Collect, Refused
  <1>4. CASE \E p \in Procs : Commit(p)
    <2>1. PICK p \in Procs : Commit(p)
      BY <1>4
    <2>2. CASE EnterGate(p) \/ WriteOdd(p) \/ Applied(p)
      BY <2>2 DEF EnterGate, WriteOdd, Applied
    <2>3. CASE GateBusy(p) \/ WriteEven(p)
      BY <2>3 DEF GateBusy, WriteEven, Quit
    <2>4. CASE \E t \in Triggers : Remove(p, t) \/ Install(p, t)
      BY <2>4, SoleWriter DEF Remove, Install
    <2> QED BY <2>1, <2>2, <2>3, <2>4 DEF Commit
  <1>5. CASE UNCHANGED vars
    BY <1>5 DEF vars
  <1> QED BY <1>1, <1>2, <1>3, <1>4, <1>5 DEF Next

\* An intent that is not recorded has no agents.
LEMMA Unrecorded ==
  ASSUME NEW s \in Intents
  PROVE  IF s.initialized THEN s = Recorded(s.agents) ELSE s = Absent
  BY DEF Intents, Recorded, Absent

\* What Persist leaves behind: the plan is the intent.
LEMMA PersistApplies ==
  ASSUME PlanningInv, NEW m \in Maintainers, Persist(m)
  PROVE  /\ plan' = plan /\ triggers' = triggers /\ world' = world /\ calm' = calm
         /\ todo'[m] = Operations(plan[m].seen, plan[m].listed, PlannedAgents(m))
         /\ \/ started' = Recorded(PlannedAgents(m))
            \/ ~started'.initialized /\ PlannedAgents(m) = {}
  <1>1. plan[m].loaded = started /\ plan[m] \in Plans /\ m \in Procs
    BY DEF PlanningInv, PlanIsExact, TypeOK, Persist, Procs
  <1>2. todo'[m] = Operations(plan[m].seen, plan[m].listed, PlannedAgents(m))
    BY <1>1 DEF Persist, PlannedAgents, PlanningInv, TypeOK
  <1>3. \/ started' = Recorded(PlannedAgents(m))
        \/ ~started'.initialized /\ PlannedAgents(m) = {}
    BY <1>1 DEF Persist, PlannedAgents, Records
  <1> QED BY <1>2, <1>3 DEF Persist

LEMMA NextAppliesPlan ==
  ASSUME PlanningInv, AppliesPlan, [Next]_vars
  PROVE  AppliesPlan'
  <1> SUFFICES ASSUME NEW m \in Maintainers, pc'[m] = "apply"
               PROVE  LET due == Operations(plan'[m].seen, plan'[m].listed, PlannedAgents(m)')
                      IN  /\ todo'[m].remove \subseteq due.remove
                          /\ todo'[m].install \subseteq due.install
                          /\ \/ started' = Recorded(PlannedAgents(m)')
                             \/ ~started'.initialized /\ PlannedAgents(m)' = {}
    BY DEF AppliesPlan
  <1>1. CASE Persist(m)
    BY <1>1, PersistApplies DEF PlannedAgents
  <1>2. CASE Undisturbed(m)
    <2>1. plan'[m] = plan[m] /\ PlannedAgents(m)' = PlannedAgents(m) /\ started' = started
      BY <1>2 DEF Undisturbed, PlannedAgents
    <2>2. /\ todo'[m].remove \subseteq todo[m].remove
          /\ todo'[m].install \subseteq todo[m].install
      BY <1>2 DEF Undisturbed, Remove, Install, Fails, PlanningInv, TypeOK, NoTodo,
         Procs, Todos
    <2> QED BY <1>2, <2>1, <2>2 DEF Undisturbed, AppliesPlan
  <1> QED BY <1>1, <1>2, ApplyingStep

LEMMA Applies == Spec => []AppliesPlan
  <1>1. Init => AppliesPlan
    BY DEF Init, AppliesPlan, Procs
  <1> QED BY <1>1, NextAppliesPlan, Planned, PTL DEF Spec

LEMMA RemovalsFollow == PlanningInv /\ AppliesPlan => RemovalsAreDue
  <1> SUFFICES ASSUME PlanningInv, AppliesPlan, NEW m \in Maintainers, pc[m] = "apply",
                      started.initialized, NEW t \in todo[m].remove,
                      t[1] \in started.agents
               PROVE  /\ plan[m].seen.repo = "readable"
                      /\ \/ plan[m].seen.text[t[1]] \notin {t[2], "broken"}
                         \/ t[1] \notin plan[m].seen.ours
    BY DEF RemovalsAreDue
  <1> DEFINE w == plan[m].seen
             agents == PlannedAgents(m)
  <1>1. started.agents = agents
    BY DEF AppliesPlan, Recorded
  <1>2. t \in Triggers /\ t[1] \in Agents /\ t[2] \in Versions
    BY DEF PlanningInv, TypeOK, Todos, Triggers, Procs
  <1>3. t \notin Wanted(w, agents) /\ t[1] \notin Protected(w, agents)
    BY DEF AppliesPlan, Operations
  <1>4. w \in Worlds
    BY DEF PlanningInv, TypeOK, Plans
  <1>5. w.repo = "readable" /\ t[1] \notin Broken(w)
    BY <1>1, <1>2, <1>3 DEF Protected
  <1>6. t[1] \notin Loaded(w) \cap w.ours \/ t[2] # w.text[t[1]]
    BY <1>1, <1>2, <1>3, <1>5 DEF Wanted
  <1> QED BY <1>2, <1>4, <1>5, <1>6, MaintenanceAssumption
          DEF Broken, Loaded, Worlds, Texts

LEMMA InstallsFollow == PlanningInv /\ AppliesPlan => InstallsAreDue
  BY DEF AppliesPlan, InstallsAreDue, Operations, Wanted, Recorded

\* Maintenance withdraws no trigger of a started agent on what it could not
\* read, or on intent it had not seen.
THEOREM RemovalsDue == Spec => []RemovalsAreDue
  BY Planned, Applies, RemovalsFollow, PTL

\* Maintenance brings no stopped agent back.
THEOREM InstallsDue == Spec => []InstallsAreDue
  BY Planned, Applies, InstallsFollow, PTL

(***************************************************************************)
(* One undisturbed maintenance converges.                                   *)
(***************************************************************************)

SeenBy == {"load", "wait", "check", "odd", "persist"}

\* What the intent is, as a convergence at this moment would read it.
IntendedNow == Intended(world, triggers, started, Refresh)

\* A maintainer that nothing disturbed has seen the world as it is, and what
\* it has left to do is what is left to do.
CalmIsCurrent ==
    \A m \in calm :
        /\ pc[m] \in SeenBy => plan[m].seen = world
        /\ pc[m] = "apply" =>
              /\ todo[m] = Operations(world, triggers, IntendedNow)
              /\ ~started.initialized => IntendedNow = {}
        /\ pc[m] = "even" => Converged

\* The steps that matter to a maintainer that nothing has disturbed.
LEMMA CalmStep ==
  ASSUME PlanningInv, [Next]_vars, NEW m \in calm'
  PROVE  \/ pc'[m] \notin SeenBy \cup {"apply", "even"}
         \/ ReadWorld(m) \/ Persist(m) \/ Applied(m) \/ Undisturbed(m)
         \/ /\ pc[m] \in SeenBy /\ pc'[m] \in SeenBy
            /\ m \in calm /\ world' = world /\ plan'[m].seen = plan[m].seen
         \/ /\ pc[m] = "even" /\ pc'[m] = "even" /\ m \in calm
            /\ world' = world /\ triggers' = triggers /\ started' = started
  <1> USE DEF PlanningInv, TypeOK, Event, SeenBy
  <1>0. m \in Maintainers /\ m \in Procs
    BY NextPlanningInv DEF Procs
  <1>1. CASE pc'[m] = "apply"
    BY <1>0, <1>1, ApplyingStep
  <1> SUFFICES ASSUME pc'[m] \in SeenBy \cup {"even"}
               PROVE  \/ ReadWorld(m) \/ Applied(m)
                      \/ /\ pc[m] \in SeenBy /\ pc'[m] \in SeenBy
                         /\ m \in calm /\ world' = world
                         /\ plan'[m].seen = plan[m].seen
                      \/ /\ pc[m] = "even" /\ pc'[m] = "even" /\ m \in calm
                         /\ world' = world /\ triggers' = triggers /\ started' = started
    BY <1>1
  <1>2. CASE Environment
    BY <1>2 DEF Environment, Edit, Ask, Crash, PersistFails, Fails
  <1>3. CASE \E q \in Maintainers : Maintain(q)
    <2>1. PICK q \in Maintainers : Maintain(q)
      BY <1>3
    <2>2. CASE Begin(q) \/ ReadInputs(q) \/ ListTriggers(q)
      BY <1>0, <2>2 DEF Begin, ReadInputs, ListTriggers
    <2>3. CASE ReadWorld(q)
      BY <1>0, <2>3 DEF ReadWorld
    <2>4. CASE LoadStarted(q)
      BY <1>0, <2>4 DEF LoadStarted, Plans
    <2>5. CASE Check(q) \/ FindInterrupted(q)
      BY <1>0, <2>5 DEF Check, FindInterrupted
    <2>6. CASE Discard(q) \/ Repair(q)
      BY <1>0, <2>6 DEF Discard, Repair, Quit
    <2>7. CASE Persist(q)
      BY <1>0, <2>7, SoleWriter DEF Persist
    <2> QED BY <2>1, <2>2, <2>3, <2>4, <2>5, <2>6, <2>7 DEF Maintain
  <1>4. CASE \E u \in Users : Command(u)
    BY <1>0, <1>4, SoleWriter DEF Command, Collect, Refused
  <1>5. CASE \E p \in Procs : Commit(p)
    <2>1. PICK p \in Procs : Commit(p)
      BY <1>5
    <2>2. CASE EnterGate(p) \/ WriteOdd(p) \/ Applied(p)
      BY <1>0, <2>2 DEF EnterGate, WriteOdd, Applied
    <2>3. CASE GateBusy(p) \/ WriteEven(p)
      BY <1>0, <2>3 DEF GateBusy, WriteEven, Quit
    <2>4. CASE \E t \in Triggers : Remove(p, t) \/ Install(p, t)
      BY <1>0, <2>4, SoleWriter DEF Remove, Install
    <2> QED BY <2>1, <2>2, <2>3, <2>4 DEF Commit
  <1>6. CASE UNCHANGED vars
    BY <1>0, <1>6 DEF vars
  <1> QED BY <1>2, <1>3, <1>4, <1>5, <1>6 DEF Next

\* Doing one operation leaves the others to do.
LEMMA OneRemovalLess ==
  ASSUME NEW w, NEW found, NEW agents, NEW t \in Operations(w, found, agents).remove
  PROVE  Operations(w, found \ {t}, agents) =
             [remove  |-> Operations(w, found, agents).remove \ {t},
              install |-> Operations(w, found, agents).install]
  <1> DEFINE W == Wanted(w, agents)
             Free(x) == x[1] \notin Protected(w, agents)
  <1> HIDE DEF W, Free
  <1>1. t \notin W
    BY DEF Operations, W
  <1>2. {x \in (found \ {t}) \ W : Free(x)} = {x \in found \ W : Free(x)} \ {t}
    OBVIOUS
  <1>3. W \ (found \ {t}) = W \ found
    BY <1>1
  <1> QED BY <1>2, <1>3 DEF Operations, W, Free

LEMMA OneInstallLess ==
  ASSUME NEW w, NEW found, NEW agents, NEW t \in Operations(w, found, agents).install
  PROVE  Operations(w, found \cup {t}, agents) =
             [remove  |-> Operations(w, found, agents).remove,
              install |-> Operations(w, found, agents).install \ {t}]
  <1> DEFINE W == Wanted(w, agents)
             Free(x) == x[1] \notin Protected(w, agents)
  <1> HIDE DEF W, Free
  <1>1. t \in W
    BY DEF Operations, W
  <1>2. {x \in (found \cup {t}) \ W : Free(x)} = {x \in found \ W : Free(x)}
    BY <1>1
  <1>3. W \ (found \cup {t}) = (W \ found) \ {t}
    OBVIOUS
  <1> QED BY <1>2, <1>3 DEF Operations, W, Free

\* The intent does not follow the triggers that are applied to it.
LEMMA IntentStays ==
  ASSUME PlanningInv, NEW found \in SUBSET Triggers, found \subseteq triggers,
         ~started.initialized => IntendedNow = {}
  PROVE  Intended(world, found, started, Refresh) = IntendedNow
  BY DEF IntendedNow, Intended, Refresh

LEMMA NextCalm ==
  ASSUME PlanningInv, CalmIsCurrent, [Next]_vars
  PROVE  CalmIsCurrent'
  <1> SUFFICES ASSUME NEW m \in calm'
               PROVE  /\ pc'[m] \in SeenBy => plan'[m].seen = world'
                      /\ pc'[m] = "apply" =>
                            /\ todo'[m] = Operations(world', triggers', IntendedNow')
                            /\ ~started'.initialized => IntendedNow' = {}
                      /\ pc'[m] = "even" => Converged'
    BY DEF CalmIsCurrent
  <1>0. PlanningInv' /\ m \in Maintainers /\ m \in Procs
    BY NextPlanningInv DEF PlanningInv, TypeOK, Procs
  <1> USE DEF SeenBy
  <1>1. CASE pc'[m] \notin SeenBy \cup {"apply", "even"}
    BY <1>1
  <1>2. CASE ReadWorld(m)
    BY <1>0, <1>2 DEF ReadWorld, PlanningInv, TypeOK, Plans
  <1>3. CASE Persist(m)
    <2>1. /\ plan[m].seen = world /\ plan[m].listed = triggers
          /\ plan[m].loaded = started /\ world' = world /\ triggers' = triggers
      BY <1>0, <1>3 DEF Persist, CalmIsCurrent, PlanningInv, PlanIsExact
    <2>2. pc'[m] = "apply" /\ todo'[m] = Operations(world, triggers, IntendedNow)
      BY <1>0, <1>3, <2>1 DEF Persist, IntendedNow, PlanningInv, TypeOK
    <2>3. started' = IF Records(world, triggers, started, Refresh)
                     THEN Recorded(IntendedNow) ELSE started
      BY <1>3, <2>1 DEF Persist, IntendedNow
    <2>4. CASE Records(world, triggers, started, Refresh)
      <3>1. started'.initialized /\ started'.agents = IntendedNow
        BY <2>3, <2>4 DEF Recorded
      <3>2. IntendedNow' = IntendedNow
        BY <3>1, <2>1 DEF IntendedNow, Intended, Refresh
      <3> QED BY <3>1, <3>2, <2>1, <2>2
    <2>5. CASE ~Records(world, triggers, started, Refresh)
      <3>1. IntendedNow' = IntendedNow /\ IntendedNow = {}
        BY <2>1, <2>3, <2>5 DEF IntendedNow, Records
      <3> QED BY <3>1, <2>1, <2>2
    <2> QED BY <2>4, <2>5
  <1>4. CASE Applied(m)
    <2>1. m \in calm /\ pc[m] = "apply" /\ todo[m] = NoTodo /\ pc'[m] = "even"
      BY <1>0, <1>4 DEF Applied, PlanningInv, TypeOK
    <2>2. Converged
      BY <2>1 DEF CalmIsCurrent, Converged, IntendedNow
    <2>3. Converged'
      BY <1>4, <2>2 DEF Applied, Converged
    <2> QED BY <2>1, <2>3
  <1>5. CASE Undisturbed(m)
    <2>1. /\ m \in calm /\ pc[m] = "apply" /\ world' = world /\ started' = started
          /\ todo[m] = Operations(world, triggers, IntendedNow)
          /\ ~started.initialized => IntendedNow = {}
      BY <1>5 DEF Undisturbed, CalmIsCurrent
    <2> SUFFICES todo'[m] = Operations(world, triggers', IntendedNow)
                 /\ IntendedNow' = IntendedNow
      BY <1>5, <2>1 DEF Undisturbed
    <2>2. CASE todo'[m] = todo[m] /\ triggers' = triggers
      BY <2>1, <2>2 DEF IntendedNow
    <2>3. ASSUME NEW t \in Triggers, Remove(m, t)
          PROVE  todo'[m] = Operations(world, triggers', IntendedNow)
                 /\ IntendedNow' = IntendedNow
      <3>1. /\ t \in todo[m].remove /\ triggers' = triggers \ {t}
            /\ todo'[m] = [remove |-> todo[m].remove \ {t}, install |-> todo[m].install]
        <4>1. todo \in [Procs -> Todos]
          BY DEF PlanningInv, TypeOK
        <4>2. todo'[m] = [todo[m] EXCEPT !.remove = @ \ {t}]
          BY <2>3, <1>0, <4>1 DEF Remove
        <4>3. todo[m] \in Todos
          BY <1>0, <4>1
        <4> QED BY <2>3, <4>2, <4>3 DEF Remove, Todos
      <3>2. todo'[m] = Operations(world, triggers', IntendedNow)
        BY <2>1, <3>1, OneRemovalLess
      <3>3. triggers' \in SUBSET Triggers /\ triggers' \subseteq triggers
        BY <3>1 DEF PlanningInv, TypeOK
      <3>4. Intended(world, triggers', started, Refresh) = IntendedNow
        BY <2>1, <3>3, IntentStays
      <3> QED BY <2>1, <3>2, <3>4 DEF IntendedNow
    <2>4. ASSUME NEW t \in Triggers, Install(m, t)
          PROVE  todo'[m] = Operations(world, triggers', IntendedNow)
                 /\ IntendedNow' = IntendedNow
      <3>1. /\ t \in todo[m].install /\ triggers' = triggers \cup {t}
            /\ todo'[m] = [remove |-> todo[m].remove, install |-> todo[m].install \ {t}]
        <4>1. todo \in [Procs -> Todos]
          BY DEF PlanningInv, TypeOK
        <4>2. todo'[m] = [todo[m] EXCEPT !.install = @ \ {t}]
          BY <2>4, <1>0, <4>1 DEF Install
        <4>3. todo[m] \in Todos
          BY <1>0, <4>1
        <4> QED BY <2>4, <4>2, <4>3 DEF Install, Todos
      <3>2. todo'[m] = Operations(world, triggers', IntendedNow)
        BY <2>1, <3>1, OneInstallLess, SMTT(30)
      <3>3. IntendedNow # {}
        BY <2>1, <3>1 DEF Operations, Wanted
      <3>4. IntendedNow' = IntendedNow
        BY <2>1, <3>3 DEF IntendedNow, Intended
      <3> QED BY <3>2, <3>4
    <2>5. ASSUME NEW t \in Triggers, Fails(m, t) PROVE FALSE
      BY <2>5 DEF Fails, Event
    <2> QED BY <1>5, <2>2, <2>3, <2>4, <2>5 DEF Undisturbed
  <1>6. CASE pc[m] \in SeenBy /\ pc'[m] \in SeenBy /\ m \in calm /\ world' = world
             /\ plan'[m].seen = plan[m].seen
    BY <1>6 DEF CalmIsCurrent
  <1>7. CASE pc[m] = "even" /\ pc'[m] = "even" /\ m \in calm
             /\ world' = world /\ triggers' = triggers /\ started' = started
    BY <1>7 DEF CalmIsCurrent, Converged
  <1> QED BY <1>1, <1>2, <1>3, <1>4, <1>5, <1>6, <1>7, CalmStep

\* An interrupted writer, a stale plan or an earlier failure leave nothing
\* that the next undisturbed maintenance does not set right.
THEOREM OneCommitIsEnough == Spec => []OneCommitConverges
  <1>1. Init => CalmIsCurrent
    BY DEF Init, CalmIsCurrent
  <1>2. PlanningInv /\ CalmIsCurrent => OneCommitConverges
    BY DEF CalmIsCurrent, OneCommitConverges
  <1> QED BY <1>1, <1>2, NextCalm, Planned, PTL DEF Spec

(***************************************************************************)
(* Intent is the user's: Maintenance implements Intent.                     *)
(***************************************************************************)

Asked(u) ==
    IF request[u] = NoRequest \/ pc[u] \in {"apply", "even"} THEN NoRequest
    ELSE [add |-> request[u].add, remove |-> request[u].remove]
asked == [u \in Users |-> Asked(u)]

LEMMA InitRefines == Init => I!Init
  BY DEF Init, I!Init, Intents, Recorded, Absent, I!Recorded, I!Absent

\* A step that changes no intent and no request is a stutter.
LEMMA Stutters ==
  ASSUME started' = started, \A u \in Users : Asked(u)' = Asked(u)
  PROVE  UNCHANGED I!vars
  <1>1. asked' = asked
    BY DEF asked
  <1> QED BY <1>1 DEF I!vars, asked, Asked

\* A request that ends without effect.
LEMMA Drops ==
  ASSUME NEW u \in Users, started' = started, Asked(u)' = NoRequest,
         \A v \in Users : v # u => Asked(v)' = Asked(v)
  PROVE  [I!Next]_I!vars
  <1>1. CASE Asked(u) = NoRequest
    BY <1>1, Stutters
  <1>2. CASE Asked(u) # NoRequest
    <2>1. asked' = [asked EXCEPT ![u] = NoRequest]
      BY DEF asked
    <2> QED BY <1>2, <2>1 DEF I!Next, I!Drop, asked, Asked
  <1> QED BY <1>1, <1>2

\* Whoever quits drops the request it still had.
LEMMA QuitRefines ==
  ASSUME PlanningInv, NEW p \in Procs, Quit(p), started' = started
  PROVE  [I!Next]_I!vars
  <1>1. \A u \in Users : u # p => Asked(u)' = Asked(u)
    BY DEF Quit, Asked, PlanningInv, TypeOK
  <1>2. CASE p \in Users
    <2>1. Asked(p)' = NoRequest
      BY <1>2 DEF Quit, Asked
    <2> QED BY <1>1, <1>2, <2>1, Drops
  <1>3. CASE p \notin Users
    BY <1>1, <1>3, Stutters
  <1> QED BY <1>2, <1>3

\* A stage that is past the request for nobody who was not past it before.
LEMMA StageRefines ==
  ASSUME PlanningInv, NEW p \in Procs, started' = started, request' = request,
         \A q \in Procs : q # p => pc'[q] = pc[q],
         p \notin Users \/ (pc[p] \in {"apply", "even"} <=> pc'[p] \in {"apply", "even"})
  PROVE  [I!Next]_I!vars
  <1>1. \A u \in Users : Asked(u)' = Asked(u)
    BY DEF Asked
  <1> QED BY <1>1, Stutters

LEMMA AskRefines ==
  ASSUME PlanningInv, NEW u \in Users, NEW r \in Requests, Ask(u, r)
  PROVE  I!Next
  <1> DEFINE visible == [add |-> r.add, remove |-> r.remove]
  <1>1. visible \in I!Requests /\ visible # NoRequest /\ r # NoRequest
    BY MaintenanceAssumption DEF Requests, I!Requests
  <1>2. \A v \in Users : v # u => Asked(v)' = Asked(v)
    BY DEF Ask, Asked, PlanningInv, TypeOK
  <1>3. Asked(u)' = visible
    BY <1>1 DEF Ask, Asked, PlanningInv, TypeOK
  <1>4. asked' = [asked EXCEPT ![u] = visible]
    BY <1>2, <1>3 DEF asked
  <1>5. asked[u] = NoRequest
    BY DEF Ask, asked, Asked, PlanningInv, RequestIsKnown
  <1>6. started' = started
    BY DEF Ask
  <1> QED BY <1>1, <1>4, <1>5, <1>6 DEF I!Next, I!Ask, asked, Asked

\* A user's command applies its request to the intent of that moment.
LEMMA CollectRefines ==
  ASSUME PlanningInv, NEW u \in Users, Collect(u)
  PROVE  I!Next
  <1> DEFINE r == request[u]
             visible == [add |-> r.add, remove |-> r.remove]
             found == {a \in Loaded(world) : <<a, world.text[a]>> \in triggers}
  <1>1. r \in Requests /\ r # NoRequest /\ visible # NoRequest
    BY MaintenanceAssumption DEF Collect, PlanningInv, RequestIsKnown, Requests
  <1>2. asked[u] = visible
    BY <1>1 DEF asked, Asked, Collect
  <1>3. \A v \in Users : v # u => Asked(v)' = Asked(v)
    BY DEF Collect, Asked, PlanningInv, TypeOK
  <1>4. Asked(u)' = NoRequest
    BY DEF Collect, Asked, PlanningInv, TypeOK, Procs
  <1>5. asked' = [asked EXCEPT ![u] = NoRequest]
    BY <1>3, <1>4 DEF asked
  <1>6. started' = IF Records(world, triggers, started, r)
                   THEN Recorded(Intended(world, triggers, started, r)) ELSE started
    BY DEF Collect
  <1>7. started \in Intents
    BY DEF PlanningInv, TypeOK
  <1>8. CASE started.initialized
    <2>1. started # I!Absent
      BY <1>8 DEF I!Absent
    <2>2. started' = I!Applied(started.agents, visible)
      BY <1>6, <1>8 DEF Records, Intended, I!Applied, I!Recorded, Recorded
    <2> QED BY <1>1, <1>2, <1>5, <2>1, <2>2 DEF I!Next, I!Serve, asked, Asked
  <1>9. CASE ~started.initialized
    <2>1. started = I!Absent
      BY <1>7, <1>9 DEF Intents, Recorded, Absent, I!Absent
    <2>2. found \in SUBSET Agents
      BY DEF Loaded
    <2>3. started' = started \/ started' = I!Applied(found, visible)
      BY <1>6, <1>9 DEF Intended, I!Applied, I!Recorded, Recorded
    <2> QED BY <1>1, <1>2, <1>5, <2>1, <2>2, <2>3
            DEF I!Next, I!ServeAdopting, I!Applied, asked, Asked
  <1> QED BY <1>8, <1>9

\* Maintenance rewrites the intent it read, or adopts where there is none.
LEMMA PersistRefines ==
  ASSUME PlanningInv, NEW m \in Maintainers, Persist(m)
  PROVE  [I!Next]_I!vars
  <1> DEFINE agents == Intended(plan[m].seen, plan[m].listed, started, Refresh)
  <1>1. plan[m].loaded = started /\ plan[m] \in Plans /\ started \in Intents
    BY DEF Persist, PlanningInv, PlanIsExact, TypeOK
  <1>2. started' = started \/ started' = Recorded(agents)
    BY <1>1 DEF Persist
  <1>3. agents \in SUBSET Agents
    BY <1>1, IntendedType, RefreshType DEF Plans
  <1>4. \A u \in Users : Asked(u)' = Asked(u)
    BY MaintenanceAssumption DEF Persist, Asked, PlanningInv, TypeOK
  <1>5. CASE started' = started
    BY <1>4, <1>5, Stutters
  <1>6. CASE started' = Recorded(agents) /\ started.initialized
    <2>1. agents = started.agents
      BY <1>6 DEF Intended, Refresh
    <2>2. started' = started
      BY <1>1, <1>6, <2>1, Unrecorded
    <2> QED BY <1>4, <2>2, Stutters
  <1>7. CASE started' = Recorded(agents) /\ ~started.initialized
    <2>1. started = I!Absent
      BY <1>1, <1>7, Unrecorded DEF Absent, I!Absent
    <2>2. asked' = asked
      BY <1>4 DEF asked
    <2>3. started' = I!Recorded(agents)
      BY <1>7 DEF Recorded, I!Recorded
    <2> QED BY <1>3, <2>1, <2>2, <2>3 DEF I!Next, I!Adopt, asked, Asked
  <1> QED BY <1>2, <1>5, <1>6, <1>7

LEMMA NextRefines ==
  ASSUME PlanningInv, [Next]_vars
  PROVE  [I!Next]_I!vars
  <1> USE MaintenanceAssumption
  <1>1. CASE Environment
    <2>1. CASE Edit \/ \E p \in Procs, t \in Triggers : Fails(p, t)
      BY <2>1, Stutters DEF Edit, Fails, Asked
    <2>2. CASE \E u \in Users, r \in Requests : Ask(u, r)
      BY <2>2, AskRefines
    <2>3. CASE \E p \in Procs : Crash(p)
      BY <2>3, QuitRefines DEF Crash
    <2>4. ASSUME NEW p \in Procs, PersistFails(p) PROVE [I!Next]_I!vars
      <3>1. \A u \in Users : u # p => Asked(u)' = Asked(u)
        BY <2>4 DEF PersistFails, Asked, PlanningInv, TypeOK
      <3>2. p \in Users => Asked(p)' = NoRequest
        BY <2>4 DEF PersistFails, Asked, PlanningInv, TypeOK
      <3>3. started' = started
        BY <2>4 DEF PersistFails
      <3> QED BY <3>1, <3>2, <3>3, Drops, Stutters
    <2> QED BY <1>1, <2>1, <2>2, <2>3, <2>4, AskTypes, RefreshType DEF Environment
  <1>2. CASE \E m \in Maintainers : Maintain(m)
    <2>1. PICK m \in Maintainers : Maintain(m)
      BY <1>2
    <2>2. m \in Procs /\ m \notin Users
      BY DEF Procs
    <2>3. CASE Begin(m) \/ ReadInputs(m) \/ ListTriggers(m) \/ ReadWorld(m)
               \/ LoadStarted(m) \/ Check(m) \/ FindInterrupted(m)
      BY <2>2, <2>3, StageRefines DEF Begin, ReadInputs, ListTriggers, ReadWorld,
         LoadStarted, Check, FindInterrupted, PlanningInv, TypeOK
    <2>4. CASE Discard(m) \/ Repair(m)
      BY <2>2, <2>4, QuitRefines DEF Discard, Repair
    <2> QED BY <2>1, <2>3, <2>4, PersistRefines DEF Maintain
  <1>3. CASE \E u \in Users : Command(u)
    <2>1. ASSUME NEW u \in Users, Refused(u) PROVE [I!Next]_I!vars
      <3>1. \A v \in Users : v # u => Asked(v)' = Asked(v)
        BY <2>1 DEF Refused, Asked, PlanningInv, TypeOK
      <3>2. Asked(u)' = NoRequest
        BY <2>1 DEF Refused, Asked, PlanningInv, TypeOK, Procs
      <3> QED BY <2>1, <3>1, <3>2, Drops DEF Refused
    <2> QED BY <1>3, <2>1, CollectRefines DEF Command
  <1>4. CASE \E p \in Procs : Commit(p)
    <2>1. PICK p \in Procs : Commit(p)
      BY <1>4
    <2>2. CASE EnterGate(p) \/ WriteOdd(p) \/ Applied(p)
      BY <2>2, StageRefines DEF EnterGate, WriteOdd, Applied, PlanningInv, TypeOK
    <2>3. CASE GateBusy(p) \/ WriteEven(p)
      BY <2>3, QuitRefines DEF GateBusy, WriteEven
    <2>4. CASE \E t \in Triggers : Remove(p, t) \/ Install(p, t)
      BY <2>4, Stutters DEF Remove, Install, Asked
    <2> QED BY <2>1, <2>2, <2>3, <2>4 DEF Commit
  <1>5. CASE UNCHANGED vars
    BY <1>5, Stutters DEF vars, Asked
  <1> QED BY <1>1, <1>2, <1>3, <1>4, <1>5 DEF Next

\* No update of started.json is lost, invented or undone: whatever maintainers
\* planned and whoever died, intent changes as Intent says.
THEOREM ImplementsIntent == Spec => IntentIsTheUsers
  BY InitRefines, NextRefines, Planned, PTL DEF Spec, I!Spec, IntentIsTheUsers

=============================================================================
