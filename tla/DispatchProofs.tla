--------------------------- MODULE DispatchProofs ---------------------------
(***************************************************************************)
(* Proofs about dispatching: the gate and the run lock (Dispatch) for every *)
(* set of pids, watchers and agents, then the budget that a firing claims   *)
(* once it has the run lock (Budget).                                       *)
(***************************************************************************)
EXTENDS Dispatch, Budget, FiniteSetTheorems, TLAPS

GateStages == Admitting \cup Ruling

(***************************************************************************)
(* The inductive invariant.  Mutual exclusion rests on two facts that the   *)
(* statement of RunExclusion does not mention: a run owner's pid is in the  *)
(* lock file, and whoever decided that a file is stale still holds the gate *)
(* that keeps the agent from being admitted again.                          *)
(***************************************************************************)

\* The gate is held exactly by the process in a stage that needs it.
GateIsHeld == \A p \in Pids : pc[p] \in GateStages <=> gate = p

\* A process has a firing in every stage of one.
FiringIsKnown ==
    \A p \in Pids : pc[p] \in {"gate"} \cup Admitting \cup Owning => job[p] \in Jobs

\* The file a process created is empty until it writes its pid.
CreatedIsEmpty == \A p \in Pids : At(p, "write") => lock[AgentOf(p)] = NoOwner

\* A lock judged stale belongs to no run when it is unlinked.
StaleStaysStale ==
    \A p, q \in Pids :
        At(p, "unlink") /\ InRun(q) => AgentOf(q) # AgentOf(p)

\* While lock files are read, a run owner is protected already or its file
\* is still to be read.
ScanCovers ==
    \A p, q \in Pids :
        At(p, "scan") /\ InRun(q) =>
            q \in scan.shielded \/ AgentOf(q) \in scan.unread

\* A watcher never converges the runtime, so nothing stops the gate holder.
RulersAreNoWatchers ==
    \A p \in Watchers : pc[p] \notin {"wait"} \cup Ruling

IInv ==
    /\ TypeOK
    /\ GateIsHeld
    /\ FiringIsKnown
    /\ OwnerIsNamed
    /\ CreatedIsEmpty
    /\ StaleStaysStale
    /\ AdmissionIsCurrent
    /\ ScanCovers
    /\ RulersAreNoWatchers

\* Stages, lock contents and the helpers of the actions are expanded everywhere.
USE PidAssumption DEF IInv, TypeOK, GateIsHeld, FiringIsKnown, OwnerIsNamed,
    CreatedIsEmpty, StaleStaysStale, AdmissionIsCurrent, ScanCovers,
    RulersAreNoWatchers, GateStages, Stages, Admitting, Checked, Owning, Ruling,
    InRun, At, AgentOf, Goto, Give, Leaving, Jobs, Origins, Alive, Unscanned

LEMMA InitIInv == Init => IInv
  BY DEF Init

\* Processes come and go; whoever crashes gives the gate back and leaves its lock.
LEMMA ProcessStep ==
  ASSUME IInv, NEW p \in Pids,
         Launch(p) \/ Recycle(p) \/ Exit(p) \/ Crash(p)
         \/ Rule(p)
  PROVE  IInv'
  <1>1. CASE Launch(p)
    BY <1>1 DEF Launch
  <1>2. CASE Recycle(p)
    BY <1>2 DEF Recycle
  <1>3. CASE Exit(p)
    BY <1>3 DEF Exit
  <1>4. CASE Crash(p)
    BY <1>4 DEF Crash
  <1>5. CASE Rule(p)
    BY <1>5 DEF Rule
  <1> QED BY <1>1, <1>2, <1>3, <1>4, <1>5

\* A firing begins.
LEMMA FireStep ==
  ASSUME IInv, NEW p \in Pids, NEW a \in Agents, NEW o \in Origins,
         Fire(p, a, o)
  PROVE  IInv'
  BY DEF Fire

\* A day passes over a lock file.
LEMMA AgeStep ==
  ASSUME IInv, NEW a \in Agents,
         Age(a)
  PROVE  IInv'
  BY DEF Age

\* A watcher is terminated; it never holds the gate.
LEMMA StopStep ==
  ASSUME IInv, NEW p \in Pids, NEW q \in Pids,
         Stop(p, q)
  PROVE  IInv'
  BY DEF Stop

\* A firing up to the run lock.  Every step past EnterGate holds the gate, so no
\* other process is past it.
LEMMA AdmissionStep ==
  ASSUME IInv, NEW p \in Pids,
         EnterGate(p) \/ GateBusy(p) \/ CheckStarted(p) \/ NotStarted(p)
         \/ Load(p) \/ Refuse(p) \/ Probe(p) \/ Unlink(p)
         \/ Create(p) \/ AlreadyRunning(p) \/ Write(p) \/ WriteFails(p)
         \/ LeaveGate(p)
  PROVE  IInv'
  <1>1. CASE EnterGate(p)
    BY <1>1 DEF EnterGate
  <1>2. CASE GateBusy(p)
    BY <1>2 DEF GateBusy
  <1>3. CASE CheckStarted(p)
    BY <1>3 DEF CheckStarted
  <1>4. CASE NotStarted(p)
    BY <1>4 DEF NotStarted
  <1>5. CASE Load(p)
    BY <1>5 DEF Load
  <1>6. CASE Refuse(p)
    BY <1>6 DEF Refuse
  <1>7. CASE Probe(p)
    BY <1>7 DEF Probe, Stale, Blind
  <1>8. CASE Unlink(p)
    BY <1>8 DEF Unlink
  <1>9. CASE Create(p)
    BY <1>9 DEF Create
  <1>10. CASE AlreadyRunning(p)
    BY <1>10 DEF AlreadyRunning
  <1>11. CASE Write(p)
    BY <1>11 DEF Write
  <1>12. CASE WriteFails(p)
    BY <1>12 DEF WriteFails
  <1>13. CASE LeaveGate(p)
    BY <1>13 DEF LeaveGate
  <1> QED BY <1>1, <1>2, <1>3, <1>4, <1>5, <1>6, <1>7, <1>8,
             <1>9, <1>10, <1>11, <1>12, <1>13

\* A run.  Release unlinks by path; the path still names this run, by OwnerIsNamed.
LEMMA RunningStep ==
  ASSUME IInv, NEW p \in Pids,
         Claim(p) \/ Finish(p) \/ Release(p) \/ Record(p)
  PROVE  IInv'
  <1>1. CASE Claim(p)
    BY <1>1 DEF Claim
  <1>2. CASE Finish(p)
    BY <1>2 DEF Finish
  <1>3. CASE Release(p)
    BY <1>3 DEF Release
  <1>4. CASE Record(p)
    BY <1>4 DEF Record
  <1> QED BY <1>1, <1>2, <1>3, <1>4

\* Convergence; the scan begins with every lock file unread.
LEMMA RulingStep ==
  ASSUME IInv, NEW p \in Pids,
         RuleEnter(p) \/ RuleBusy(p) \/ Persist(p) \/ RuleDone(p)
  PROVE  IInv'
  <1>1. CASE RuleEnter(p)
    BY <1>1 DEF RuleEnter
  <1>2. CASE RuleBusy(p)
    BY <1>2 DEF RuleBusy
  <1>3. CASE Persist(p)
    BY <1>3 DEF Persist
  <1>4. CASE RuleDone(p)
    BY <1>4 DEF RuleDone
  <1> QED BY <1>1, <1>2, <1>3, <1>4

\* A scan step protects the run owner whose file it reads, or everybody.
LEMMA ScanStep ==
  ASSUME IInv, NEW p \in Pids, NEW a \in Agents,
         Scan(p, a)
  PROVE  IInv'
  BY DEF Scan, Blind

HIDE PidAssumption DEF IInv, TypeOK, GateIsHeld, FiringIsKnown, OwnerIsNamed,
    CreatedIsEmpty, StaleStaysStale, AdmissionIsCurrent, ScanCovers,
    RulersAreNoWatchers, GateStages, Stages, Admitting, Checked, Owning, Ruling,
    InRun, At, AgentOf, Goto, Give, Leaving, Jobs, Origins, Alive, Unscanned

LEMMA NextIInv == IInv /\ [Next]_vars => IInv'
  <1> SUFFICES ASSUME IInv, [Next]_vars PROVE IInv'
    OBVIOUS
  <1>1. CASE Environment
    BY <1>1, ProcessStep, FireStep, AgeStep, StopStep DEF Environment
  <1>2. ASSUME NEW p \in Pids, Admission(p) PROVE IInv'
    BY <1>2, AdmissionStep DEF Admission
  <1>3. ASSUME NEW p \in Pids, Running(p) PROVE IInv'
    BY <1>3, RunningStep DEF Running
  <1>4. ASSUME NEW p \in Pids, Converging(p) PROVE IInv'
    BY <1>4, RulingStep, ScanStep DEF Converging
  <1>5. CASE UNCHANGED vars
    BY <1>5 DEF vars, IInv, TypeOK, GateIsHeld, FiringIsKnown, OwnerIsNamed,
       CreatedIsEmpty, StaleStaysStale, AdmissionIsCurrent, ScanCovers,
       RulersAreNoWatchers, InRun, At, AgentOf
  <1> QED BY <1>1, <1>2, <1>3, <1>4, <1>5 DEF Next

LEMMA Invariance == Spec => []IInv
  BY InitIInv, NextIInv, PTL DEF Spec

\* Every variable of the dispatcher stays in its range (dispatch.py, handoff.py).
THEOREM TypeCorrect == Spec => []TypeOK
  <1>1. IInv => TypeOK
    BY DEF IInv
  <1> QED BY <1>1, Invariance, PTL

\* The lock file of a run names its process until that process unlinks it.
THEOREM LocksAreKept == Spec => []OwnerIsNamed
  <1>1. IInv => OwnerIsNamed
    BY DEF IInv
  <1> QED BY <1>1, Invariance, PTL

\* At most one run of an agent at any time, for any number of processes and
\* agents: the run lock names its owner, and a file names one pid.
THEOREM MutualExclusion == Spec => []RunExclusion
  <1>1. IInv => RunExclusion
    BY DEF IInv, OwnerIsNamed, RunExclusion
  <1> QED BY <1>1, Invariance, PTL

\* A clock or watch firing that holds the gate past its started check is
\* started, until it leaves the gate with the run lock.
THEOREM AdmissionCurrent == Spec => []AdmissionIsCurrent
  <1>1. IInv => AdmissionIsCurrent
    BY DEF IInv
  <1> QED BY <1>1, Invariance, PTL

\* A converging process that has read every lock file protects every watcher
\* that owns a run before it stops the first one.
THEOREM RunsShielded == Spec => []RunsAreShielded
  <1>1. IInv => RunsAreShielded
    BY DEF IInv, ScanCovers, RunsAreShielded
  <1> QED BY <1>1, Invariance, PTL

---------------------------------------------------------------------------
(***************************************************************************)
(* The budget for any number of claimers, any limit, window and clock.      *)
(*                                                                          *)
(* The bound rests on three facts that hold while no lock was broken and    *)
(* nobody discarded a later entry: the last entry that was counted is never *)
(* dropped, the file has every entry that a claim at the end would count,   *)
(* and the one claimer inside has counted the file as it is.  A refused     *)
(* claim also rewrites the file and drops entries: it may drop them because *)
(* it keeps as many as the limit, so a claim that began earlier and comes   *)
(* later is refused as it would have been.                                  *)
(***************************************************************************)

\* Whoever is inside without a broken lock has the lock file.
LockHeld ==
    ~broken => \A c \in Claimers : phase[c] \in Inside => lockfile # Unlocked

\* What is in the file, and what a claimer has counted in it, was granted.
LedgerIsGranted ==
    /\ IsFiniteSet(granted) /\ ledger \subseteq granted
    /\ \A c \in Claimers :
         phase[c] = "save" => kept[c] \subseteq InWindow(granted, instant[c])

\* A refusal is an answer that stays.
RefusedIsOver ==
    \A c \in Claimers : verdict[c] = "refused" => phase[c] \in {"unlock", "done", "dead"}

\* Every granted entry is at or before time t.
Past(t) == \A e \in granted : e[2] <= t

\* The three facts of the bound.
LastIsKept == \A e \in granted : \E f \in ledger : e[2] <= f[2]
LedgerIsComplete == \A t \in Time : Past(t) => InWindow(granted, t) \subseteq ledger
CountIsCurrent == \A c \in Claimers : phase[c] = "save" =>
    /\ kept[c] = InWindow(ledger, instant[c])
    /\ \A e \in ledger : e[2] <= instant[c]

Ordered ==
    ~broken /\ ~overtaken =>
        LastIsKept /\ LedgerIsComplete /\ CountIsCurrent /\ BudgetBounds

BudgetInv == /\ BudgetTypeOK /\ LockHeld /\ SerialUnlessBroken
        /\ LedgerIsGranted /\ RefusedIsOver /\ RefusalIsJustified /\ Ordered

---------------------------------------------------------------------------
(* Windows *)

\* A window takes from a set, and grows with it.
LEMMA WindowIsSubset ==
    ASSUME NEW S, NEW T, S \subseteq T, NEW t
    PROVE  InWindow(S, t) \subseteq S /\ InWindow(S, t) \subseteq InWindow(T, t)
  BY DEF InWindow

\* Of finite sets, the larger has the larger count.
LEMMA CountGrows ==
    ASSUME NEW T, IsFiniteSet(T), NEW S \in SUBSET T
    PROVE  /\ IsFiniteSet(S) /\ Cardinality(S) \in Nat /\ Cardinality(T) \in Nat
           /\ Cardinality(S) <= Cardinality(T)
  BY FS_Subset, FS_CardinalityType

\* One more element counts one more.
LEMMA CountOneMore ==
    ASSUME NEW S, IsFiniteSet(S), NEW x
    PROVE  /\ IsFiniteSet(S \cup {x}) /\ Cardinality(S \cup {x}) \in Nat
           /\ Cardinality(S \cup {x}) <= Cardinality(S) + 1
           /\ x \notin S => Cardinality(S \cup {x}) = Cardinality(S) + 1
  <1>1. Cardinality(S) \in Nat BY FS_CardinalityType
  <1>2. /\ IsFiniteSet(S \cup {x})
        /\ Cardinality(S \cup {x}) = IF x \in S THEN Cardinality(S) ELSE Cardinality(S) + 1
    BY FS_AddElement
  <1>3. QED BY <1>1, <1>2

---------------------------------------------------------------------------
(* The initial state *)

\* Nothing is counted and nobody is inside.
LEMMA InitBudgetInv == BudgetInit => BudgetInv
  <1> SUFFICES ASSUME BudgetInit PROVE BudgetInv
    OBVIOUS
  <1>1. BudgetTypeOK
    <2>1. 0 \in Time
      BY BudgetAssumption DEF Time
    <2>2. phase \in [Claimers -> Phases] /\ verdict \in [Claimers -> Verdicts]
      BY DEF BudgetInit, Phases, Verdicts
    <2>3. QED BY <2>1, <2>2 DEF BudgetInit, BudgetTypeOK
  <1>2. LockHeld /\ SerialUnlessBroken
    BY DEF BudgetInit, LockHeld, SerialUnlessBroken, Inside
  <1>3. IsFiniteSet({}) /\ Cardinality({}) = 0
    BY FS_EmptySet
  <1>4. \A t : InWindow({}, t) = {}
    BY DEF InWindow
  <1>5. LedgerIsGranted
    BY <1>3 DEF BudgetInit, LedgerIsGranted
  <1>6. RefusedIsOver /\ RefusalIsJustified
    BY DEF BudgetInit, RefusedIsOver, RefusalIsJustified
  <1>7. BudgetBounds
    BY <1>3, <1>4, BudgetAssumption DEF BudgetInit, BudgetBounds
  <1>8. LastIsKept /\ LedgerIsComplete /\ CountIsCurrent
    BY <1>4 DEF BudgetInit, LastIsKept, LedgerIsComplete, CountIsCurrent
  <1>9. QED BY <1>1, <1>2, <1>5, <1>6, <1>7, <1>8 DEF BudgetInv, Ordered

---------------------------------------------------------------------------
(* Everything but the bound, action by action *)

\* Steps that leave the file, the grants and the answers alone.
Aside(c) == Begin(c) \/ Acquire(c) \/ FindStale(c) \/ Break(c) \/ ClaimerCrash(c)

LEMMA TypeKeeps ==
    ASSUME BudgetTypeOK, BudgetNext PROVE BudgetTypeOK'
  <1> USE DEF BudgetTypeOK, Enters, Answer
  <1>1. CASE Tick
    BY <1>1, BudgetAssumption DEF Tick, Time
  <1>2. ASSUME NEW c \in Claimers, Aside(c) PROVE BudgetTypeOK'
    BY <1>2 DEF Aside, Begin, Acquire, FindStale, Break, ClaimerCrash, Phases, Inside
  <1>3. ASSUME NEW c \in Claimers, GiveUp(c) \/ CannotLock(c) \/ Fail(c) \/ Unlock(c)
        PROVE  BudgetTypeOK'
    BY <1>3 DEF GiveUp, CannotLock, Fail, Unlock, Phases, Inside, Verdicts
  <1>4. ASSUME NEW c \in Claimers, Count(c) PROVE BudgetTypeOK'
    <2>1. InWindow(ledger, instant[c]) \in SUBSET Entries
      BY DEF InWindow
    <2>2. QED BY <1>4, <2>1 DEF Count, Phases, Inside
  <1>5. ASSUME NEW c \in Claimers, Save(c) PROVE BudgetTypeOK'
    <2>1. Entry(c) \in Entries
      BY DEF Entry, Entries
    <2>2. QED BY <1>5, <2>1 DEF Save, Phases, Inside, Verdicts
  <1>6. QED BY <1>1, <1>2, <1>3, <1>4, <1>5 DEF BudgetNext, Step, Aside

\* Only a claimer that is inside unlinks the file, and only one is.
LEMMA LockKeeps ==
    ASSUME BudgetTypeOK, LockHeld, SerialUnlessBroken, BudgetNext
    PROVE  LockHeld' /\ SerialUnlessBroken'
  <1> USE DEF BudgetTypeOK, Enters, Inside, LockHeld, SerialUnlessBroken
  <1>1. CASE Tick
    BY <1>1 DEF Tick
  <1>2. ASSUME NEW c \in Claimers, Acquire(c) PROVE LockHeld' /\ SerialUnlessBroken'
    <2>1. now # Unlocked
      BY BudgetAssumption DEF Time
    <2>2. QED BY <1>2, <2>1 DEF Acquire
  <1>3. ASSUME NEW c \in Claimers, Unlock(c) PROVE LockHeld' /\ SerialUnlessBroken'
    BY <1>3 DEF Unlock
  <1>4. ASSUME NEW c \in Claimers, CannotLock(c) PROVE LockHeld' /\ SerialUnlessBroken'
    BY <1>4 DEF CannotLock
  <1>5. ASSUME NEW c \in Claimers,
               Begin(c) \/ FindStale(c) \/ Break(c) \/ ClaimerCrash(c) \/ GiveUp(c)
               \/ Count(c) \/ Save(c) \/ Fail(c)
        PROVE  LockHeld' /\ SerialUnlessBroken'
    BY <1>5 DEF Begin, FindStale, Break, ClaimerCrash, GiveUp, Count, Save, Fail
  <1>6. QED BY <1>1, <1>2, <1>3, <1>4, <1>5 DEF BudgetNext, Step

\* The file and the counts stay within what was granted.
LEMMA GrantsKeep ==
    ASSUME BudgetTypeOK, LedgerIsGranted, BudgetNext
    PROVE  LedgerIsGranted' /\ granted \subseteq granted'
  <1> USE DEF BudgetTypeOK, Enters, LedgerIsGranted
  <1>1. ASSUME NEW c \in Claimers, Count(c)
        PROVE  LedgerIsGranted' /\ granted \subseteq granted'
    <2>1. InWindow(ledger, instant[c]) \subseteq InWindow(granted, instant[c])
      BY WindowIsSubset
    <2>2. QED BY <1>1, <2>1 DEF Count
  <1>2. ASSUME NEW c \in Claimers, Save(c)
        PROVE  LedgerIsGranted' /\ granted \subseteq granted'
    <2>1. PICK new \in {{}, {Entry(c)}} :
                 ledger' = kept[c] \cup new /\ granted' = granted \cup new
      BY <1>2 DEF Save
    <2>2. IsFiniteSet(granted')
      BY <2>1, CountOneMore
    <2>3. kept[c] \subseteq granted
      BY <1>2 DEF Save, InWindow
    <2>4. ASSUME NEW d \in Claimers, phase'[d] = "save"
          PROVE  kept'[d] \subseteq InWindow(granted', instant'[d])
      <3>1. phase[d] = "save" /\ kept' = kept /\ instant' = instant
        BY <1>2, <2>4 DEF Save
      <3>2. InWindow(granted, instant[d]) \subseteq InWindow(granted', instant[d])
        BY <2>1, WindowIsSubset
      <3>3. QED BY <3>1, <3>2
    <2>5. QED BY <2>1, <2>2, <2>3, <2>4
  <1>3. ASSUME NEW c \in Claimers, Aside(c) \/ GiveUp(c) \/ CannotLock(c) \/ Fail(c) \/ Unlock(c)
        PROVE  LedgerIsGranted' /\ granted \subseteq granted'
    BY <1>3 DEF Aside, Begin, Acquire, FindStale, Break, ClaimerCrash, GiveUp, CannotLock,
        Fail, Unlock
  <1>4. CASE Tick
    BY <1>4 DEF Tick
  <1>5. QED BY <1>1, <1>2, <1>3, <1>4 DEF BudgetNext, Step, Aside

\* A refusal is backed when it is made, and its backing only grows.
LEMMA RefusalsKeep ==
    ASSUME BudgetTypeOK, LedgerIsGranted, RefusedIsOver, RefusalIsJustified, BudgetNext,
           LedgerIsGranted', granted \subseteq granted'
    PROVE  RefusedIsOver' /\ RefusalIsJustified'
  <1>1. RefusedIsOver'
    BY DEF BudgetTypeOK, RefusedIsOver, BudgetNext, Step, Tick, Begin, Acquire, FindStale,
        Break, GiveUp,
           CannotLock, Count, Save, Fail, Unlock, ClaimerCrash, Enters, Answer
  <1>2. ASSUME NEW c \in Claimers, verdict'[c] = "refused"
        PROVE  Cardinality(InWindow(granted', instant'[c])) >= Limit
    <2> DEFINE Backing == InWindow(granted, instant[c])
    <2>1. IsFiniteSet(granted) /\ IsFiniteSet(granted')
      BY DEF LedgerIsGranted
    <2>2. CASE verdict[c] = "refused"
      <3>1. Cardinality(Backing) >= Limit
        BY <2>2 DEF RefusalIsJustified
      <3>2. instant'[c] = instant[c]
        BY <2>2 DEF BudgetTypeOK, RefusedIsOver, BudgetNext, Step, Tick, Begin, Acquire,
            FindStale, Break,
           GiveUp, CannotLock, Count, Save, Fail, Unlock, ClaimerCrash
      <3>3. Backing \subseteq InWindow(granted', instant[c])
        BY WindowIsSubset
      <3>4. IsFiniteSet(InWindow(granted', instant[c]))
        BY <2>1, WindowIsSubset, CountGrows
      <3>5. /\ Cardinality(Backing) \in Nat
            /\ Cardinality(InWindow(granted', instant[c])) \in Nat
            /\ Cardinality(Backing) <= Cardinality(InWindow(granted', instant[c]))
        BY <3>3, <3>4, CountGrows
      <3>6. QED BY <3>1, <3>2, <3>5, BudgetAssumption
    <2>3. CASE verdict[c] # "refused"
      <3>1. Save(c)
        BY <1>2, <2>3 DEF BudgetTypeOK, BudgetNext, Step, Tick, Begin, Acquire, FindStale, Break,
           GiveUp, CannotLock, Count, Save, Fail, Unlock, ClaimerCrash, Answer
      <3>2. ~(Cardinality(kept[c]) < Limit) /\ granted' = granted /\ instant' = instant
        BY <1>2, <3>1 DEF Save, Answer, BudgetTypeOK
      <3>3. kept[c] \subseteq Backing
        BY <3>1 DEF Save, LedgerIsGranted
      <3>4. IsFiniteSet(Backing)
        BY <2>1, WindowIsSubset, CountGrows
      <3>5. /\ Cardinality(kept[c]) \in Nat /\ Cardinality(Backing) \in Nat
            /\ Cardinality(kept[c]) <= Cardinality(Backing)
        BY <3>3, <3>4, CountGrows
      <3>6. QED BY <3>2, <3>5, BudgetAssumption
    <2>4. QED BY <2>2, <2>3
  <1>3. QED BY <1>1, <1>2 DEF RefusalIsJustified

---------------------------------------------------------------------------
(* The bound *)

\* What a window after every grant counts is what a window at an earlier
\* instant kept, when no grant is later than that instant.
LEMMA LaterWindow ==
    ASSUME BudgetTypeOK, NEW s \in Time, NEW t \in Time, s <= t, Past(s)
    PROVE  InWindow(granted, t) \subseteq InWindow(granted, s)
  BY BudgetAssumption DEF BudgetTypeOK, InWindow, Past, Entries, Time

\* Saving in order: the claimer has counted every grant that could matter.
LEMMA SaveKeepsOrder ==
    ASSUME BudgetInv, NEW c \in Claimers, Save(c), ~broken, ~overtaken
    PROVE  /\ LastIsKept' /\ LedgerIsComplete' /\ BudgetBounds'
  <1> DEFINE s == instant[c]
             K == kept[c]
  <1>1. /\ BudgetTypeOK /\ s \in Time /\ phase[c] = "save"
        /\ K = InWindow(ledger, s) /\ \A e \in ledger : e[2] <= s
        /\ LastIsKept /\ LedgerIsComplete /\ BudgetBounds
        /\ IsFiniteSet(granted) /\ ledger \subseteq granted
    BY DEF BudgetInv, Ordered, CountIsCurrent, Save, BudgetTypeOK, LedgerIsGranted
  <1>2. \A e \in granted : e[1] \in Claimers /\ e[2] \in Nat
    BY <1>1 DEF BudgetTypeOK, Entries, Time
  <1>3. s \in Nat /\ Window \in Nat /\ Limit \in Nat \ {0}
    BY <1>1, BudgetAssumption DEF Time
  <1>4. Past(s)
    BY <1>1, <1>2, <1>3 DEF Past, LastIsKept
  <1>5. InWindow(granted, s) = K
    BY <1>1, <1>4 DEF LedgerIsComplete, InWindow
  <1>6. IsFiniteSet(K) /\ Cardinality(K) \in Nat
    BY <1>1, <1>5, WindowIsSubset, CountGrows
  <1>7. CASE Cardinality(K) < Limit
    <2> DEFINE new == Entry(c)
    <2>1. ledger' = K \cup {new} /\ granted' = granted \cup {new} /\ new[2] = s
      BY <1>7 DEF Save, Entry
    <2>2. LastIsKept'
      BY <2>1, <1>2, <1>3, <1>4 DEF LastIsKept, Past
    <2>3. ASSUME NEW t \in Time, s <= t
          PROVE  InWindow(granted', t) \subseteq K \cup {new}
      BY <2>1, <2>3, <1>1, <1>4, <1>5, LaterWindow DEF InWindow
    <2>4. LedgerIsComplete'
      <3> SUFFICES ASSUME NEW t \in Time, Past(t)' PROVE InWindow(granted', t) \subseteq ledger'
        BY DEF LedgerIsComplete
      <3>1. s <= t
        BY <2>1 DEF Past
      <3>2. QED BY <3>1, <2>1, <2>3
    <2>5. ASSUME NEW t \in Time PROVE Cardinality(InWindow(granted', t)) <= Limit
      <3>1. CASE s <= t
        <4>1. /\ IsFiniteSet(K \cup {new}) /\ Cardinality(K \cup {new}) \in Nat
              /\ Cardinality(K \cup {new}) <= Cardinality(K) + 1
          BY <1>6, CountOneMore
        <4>2. /\ Cardinality(InWindow(granted', t)) \in Nat
              /\ Cardinality(InWindow(granted', t)) <= Cardinality(K \cup {new})
          BY <4>1, <3>1, <2>3, CountGrows
        <4>3. QED BY <4>1, <4>2, <1>3, <1>6, <1>7
      <3>2. CASE ~(s <= t)
        <4>1. InWindow(granted', t) = InWindow(granted, t)
          BY <3>2, <2>1 DEF InWindow
        <4>2. QED BY <4>1, <1>1 DEF BudgetBounds
      <3>3. QED BY <3>1, <3>2
    <2>6. QED BY <2>2, <2>4, <2>5 DEF BudgetBounds
  <1>8. CASE ~(Cardinality(K) < Limit)
    <2>1. ledger' = K /\ granted' = granted
      BY <1>8 DEF Save
    <2>2. PICK g \in K : TRUE
      BY <1>3, <1>6, <1>8, FS_EmptySet
    <2>3. LastIsKept'
      <3> SUFFICES ASSUME NEW e \in granted PROVE \E f \in K : e[2] <= f[2]
        BY <2>1 DEF LastIsKept
      <3>1. PICK f \in ledger : e[2] <= f[2]
        BY <1>1 DEF LastIsKept
      <3>2. CASE f \in K
        BY <3>1, <3>2
      <3>3. CASE f \notin K
        <4>1. g \in granted /\ s < g[2] + Window /\ ~(s < f[2] + Window)
          BY <3>3, <2>2, <1>1 DEF InWindow
        <4>2. e[2] <= g[2]
          BY <4>1, <3>1, <1>1, <1>2, <1>3
        <4>3. QED BY <4>2, <2>2
      <3>4. QED BY <3>2, <3>3
    <2>4. LedgerIsComplete'
      <3> SUFFICES ASSUME NEW t \in Time, Past(t), NEW x \in InWindow(granted, t), x \notin K
                   PROVE  FALSE
        BY <2>1 DEF LedgerIsComplete, Past
      <3>1. x \in ledger /\ x \in granted /\ t < x[2] + Window /\ x[2] <= t /\ t \in Nat
        BY <1>1 DEF LedgerIsComplete, InWindow, Time
      <3>2. ~(s < x[2] + Window)
        BY <3>1, <1>1 DEF InWindow
      <3>3. K \cup {x} \subseteq InWindow(granted, t)
        BY <3>1, <3>2, <1>1, <1>2, <1>3 DEF InWindow, Past
      <3>4. IsFiniteSet(InWindow(granted, t))
        BY <1>1, WindowIsSubset, CountGrows
      <3>5. Cardinality(K \cup {x}) = Cardinality(K) + 1
        BY <1>6, CountOneMore
      <3>6. /\ Cardinality(InWindow(granted, t)) \in Nat
            /\ Cardinality(K \cup {x}) <= Cardinality(InWindow(granted, t))
        BY <3>3, <3>4, CountGrows
      <3>7. Cardinality(InWindow(granted, t)) <= Limit
        BY <1>1 DEF BudgetBounds
      <3>8. QED BY <3>5, <3>6, <3>7, <1>3, <1>6, <1>8
    <2>5. BudgetBounds'
      BY <2>1, <1>1 DEF BudgetBounds
    <2>6. QED BY <2>3, <2>4, <2>5
  <1>9. QED BY <1>7, <1>8

\* Every step keeps the three facts and the bound.
LEMMA OrderKeeps ==
    ASSUME BudgetInv, BudgetNext
    PROVE  Ordered'
  <1> SUFFICES ASSUME ~broken', ~overtaken'
               PROVE  LastIsKept' /\ LedgerIsComplete' /\ CountIsCurrent' /\ BudgetBounds'
    BY DEF Ordered
  <1>1. ~broken /\ ~overtaken
    BY DEF BudgetInv, BudgetTypeOK, BudgetNext, Step, Tick, Begin, Acquire, FindStale, Break,
        GiveUp,
           CannotLock, Count, Save, Fail, Unlock, ClaimerCrash
  <1>2. LastIsKept /\ LedgerIsComplete /\ CountIsCurrent /\ BudgetBounds /\ SerialUnlessBroken
    BY <1>1 DEF BudgetInv, Ordered
  <1>3. ASSUME NEW c \in Claimers, Count(c)
        PROVE  LastIsKept' /\ LedgerIsComplete' /\ CountIsCurrent' /\ BudgetBounds'
    <2>1. UNCHANGED <<ledger, granted, instant>> /\ phase' = [phase EXCEPT ![c] = "save"]
          /\ kept' = [kept EXCEPT ![c] = InWindow(ledger, instant[c])]
      BY <1>3 DEF Count, Enters
    <2>2. \A e \in ledger : e[2] <= instant[c]
      <3> SUFFICES ASSUME NEW e \in ledger PROVE e[2] <= instant[c]
        OBVIOUS
      <3>1. ~(e[2] > instant[c])
        BY <1>3 DEF Count
      <3>2. e[2] \in Nat /\ instant[c] \in Nat
        BY BudgetAssumption DEF BudgetInv, BudgetTypeOK, Entries, Time
      <3>3. QED BY <3>1, <3>2
    <2>3. CountIsCurrent'
      BY <2>1, <2>2, <1>2 DEF CountIsCurrent, BudgetInv, BudgetTypeOK
    <2>4. QED BY <2>1, <2>3, <1>2 DEF LastIsKept, LedgerIsComplete, BudgetBounds, Past
  <1>4. ASSUME NEW c \in Claimers, Save(c)
        PROVE  LastIsKept' /\ LedgerIsComplete' /\ CountIsCurrent' /\ BudgetBounds'
    <2>1. \A d \in Claimers : phase'[d] # "save"
      BY <1>4, <1>1, <1>2 DEF Save, Enters, SerialUnlessBroken, Inside, BudgetInv, BudgetTypeOK
    <2>2. QED BY <2>1, <1>1, <1>4, SaveKeepsOrder DEF CountIsCurrent
  <1>5. ASSUME NEW c \in Claimers,
               Aside(c) \/ GiveUp(c) \/ CannotLock(c) \/ Fail(c) \/ Unlock(c)
        PROVE  LastIsKept' /\ LedgerIsComplete' /\ CountIsCurrent' /\ BudgetBounds'
    <2>1. ledger' = ledger /\ granted' = granted
      BY <1>5 DEF Aside, Begin, Acquire, FindStale, Break, ClaimerCrash, GiveUp, CannotLock,
          Fail, Unlock
    <2>2. \A d \in Claimers : phase'[d] = "save" =>
            phase[d] = "save" /\ kept'[d] = kept[d] /\ instant'[d] = instant[d]
      BY <1>5 DEF Aside, Begin, Acquire, FindStale, Break, ClaimerCrash, GiveUp, CannotLock, Fail,
         Unlock, Enters, BudgetInv, BudgetTypeOK
    <2>3. CountIsCurrent'
      BY <2>1, <2>2, <1>2 DEF CountIsCurrent
    <2>4. QED BY <2>1, <2>3, <1>2 DEF LastIsKept, LedgerIsComplete, BudgetBounds, Past
  <1>6. CASE Tick
    BY <1>6, <1>2 DEF Tick, LastIsKept, LedgerIsComplete, CountIsCurrent, BudgetBounds, Past
  <1>7. QED BY <1>3, <1>4, <1>5, <1>6 DEF BudgetNext, Step, Aside

---------------------------------------------------------------------------
(* Together *)

\* The invariant is inductive.
LEMMA NextBudgetInv == BudgetInv /\ [BudgetNext]_budgetVars => BudgetInv'
  <1> SUFFICES ASSUME BudgetInv, [BudgetNext]_budgetVars PROVE BudgetInv'
    OBVIOUS
  <1>1. CASE BudgetNext
    <2>1. BudgetTypeOK' BY <1>1, TypeKeeps DEF BudgetInv
    <2>2. LockHeld' /\ SerialUnlessBroken' BY <1>1, LockKeeps DEF BudgetInv
    <2>3. LedgerIsGranted' /\ granted \subseteq granted' BY <1>1, GrantsKeep DEF BudgetInv
    <2>4. RefusedIsOver' /\ RefusalIsJustified' BY <1>1, <2>3, RefusalsKeep DEF BudgetInv
    <2>5. Ordered' BY <1>1, OrderKeeps
    <2>6. QED BY <2>1, <2>2, <2>3, <2>4, <2>5 DEF BudgetInv
  <1>2. CASE UNCHANGED budgetVars
    <2>1. BudgetTypeOK' /\ LockHeld' /\ SerialUnlessBroken'
      BY <1>2 DEF budgetVars, BudgetInv, BudgetTypeOK, LockHeld, SerialUnlessBroken
    <2>2. LedgerIsGranted' /\ RefusedIsOver' /\ RefusalIsJustified'
      BY <1>2 DEF budgetVars, BudgetInv, LedgerIsGranted, RefusedIsOver, RefusalIsJustified
    <2>3. Ordered'
      BY <1>2 DEF budgetVars, BudgetInv, Ordered, LastIsKept, LedgerIsComplete, CountIsCurrent,
          BudgetBounds, Past
    <2>4. QED BY <2>1, <2>2, <2>3 DEF BudgetInv
  <1>3. QED BY <1>1, <1>2

\* It holds in every behaviour.
THEOREM BudgetInvariance == BudgetSpec => []BudgetInv
  BY InitBudgetInv, NextBudgetInv, PTL DEF BudgetSpec

\* The state of the budget has its type (budget.py, claim).
THEOREM BudgetTypeCorrect == BudgetSpec => []BudgetTypeOK
  <1>1. BudgetInv => BudgetTypeOK BY DEF BudgetInv
  <1>2. QED BY BudgetInvariance, <1>1, PTL

\* One claimer at a time reads and replaces the file, unless a lock was broken
\* (budget.py, _acquire).
THEOREM ClaimsAreSerial == BudgetSpec => []SerialUnlessBroken
  <1>1. BudgetInv => SerialUnlessBroken BY DEF BudgetInv
  <1>2. QED BY BudgetInvariance, <1>1, PTL

\* A refusal is backed by as many grants as the limit, whatever broke
\* (budget.py, _claim).
THEOREM RefusalsAreJustified == BudgetSpec => []RefusalIsJustified
  <1>1. BudgetInv => RefusalIsJustified BY DEF BudgetInv
  <1>2. QED BY BudgetInvariance, <1>1, PTL

\* The bound holds unless a lock was broken or a claim was overtaken by one that
\* began later (budget.py, claim).
THEOREM BoundHoldsInOrder == BudgetSpec => []BoundsInOrder
  <1>1. BudgetInv => BoundsInOrder BY DEF BudgetInv, Ordered, BoundsInOrder
  <1>2. QED BY BudgetInvariance, <1>1, PTL
=============================================================================
