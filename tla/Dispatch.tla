------------------------------ MODULE Dispatch ------------------------------
(***************************************************************************)
(* Admission of runs.  Every process that fires an agent (a clock launch,   *)
(* a watcher, `agents-live run`) passes the machine-wide launch gate and    *)
(* takes the agent's run-lock file under it, then runs the pipeline and     *)
(* unlinks the file without the gate.  Processes that change started        *)
(* intent and stop watchers hold the same gate and read the lock files to   *)
(* learn which watchers they must not terminate.                            *)
(*                                                                          *)
(* The gate is an operating-system lock: it disappears with its holder.     *)
(* The run lock is a plain file: it survives a crash, and is reclaimed by   *)
(* the pid written in it or, when it names nobody, by its age.              *)
(***************************************************************************)
EXTENDS Naturals

CONSTANTS
    Pids,      \* process ids; an id is reused by a later process
    Watchers,  \* the ids that watcher processes get
    Agents,    \* agent identifiers of one repository
    NoFile,    \* a run lock that does not exist
    NoOwner,   \* a run-lock file whose content names no pid
    Nobody,    \* the gate is free
    NoJob      \* a process that is not working on a firing

ASSUME PidAssumption ==
    /\ Watchers \subseteq Pids
    /\ NoFile \notin Pids /\ NoOwner \notin Pids /\ Nobody \notin Pids
    /\ NoFile # NoOwner
    /\ NoJob \notin [agent : Agents, origin : {"clock", "watch", "manual"}]

VARIABLES
    gate,      \* holder of activation.lock
    lock,      \* content of locks/<agent>.lock
    aged,      \* whether that file is older than _LOCK_MAX_AGE_SECONDS
    started,   \* the agents in started.json
    pc,        \* where each pid is; "none" and "alien" are not our processes
    job,       \* the firing a process is working on
    scan       \* the gate holder's progress through running_watchers()

vars == <<gate, lock, aged, started, pc, job, scan>>

Origins == {"clock", "watch", "manual"}
Jobs == [agent : Agents, origin : Origins]

\* Stages of a dispatch under the gate, stages that own the run lock, and
\* stages of a process that converges the runtime.
Checked   == {"load", "probe", "unlink", "create", "write", "leave"}
Admitting == {"check"} \cup Checked
Owning    == {"leave", "claim", "run", "release"}
Ruling    == {"intent", "scan"}
Stages    == {"none", "alien", "idle", "gate", "wait", "record"}
                 \cup Admitting \cup Owning \cup Ruling

Alive(p) == pc[p] \notin {"none", "alien"}
Unscanned == [unread |-> {}, shielded |-> {}]

Goto(p, stage) ==
    /\ pc' = [pc EXCEPT ![p] = stage]
    /\ job' = IF stage \in Admitting \cup Owning THEN job
              ELSE [job EXCEPT ![p] = NoJob]
At(p, stage) == pc[p] = stage
Give(p) == gate' = IF gate = p THEN Nobody ELSE gate
AgentOf(p) == job[p].agent

\* The content of a lock file tells nothing about a process of this user: it
\* names no pid, or kill(pid, 0) raises PermissionError.
Blind(owner) == owner = NoOwner \/ (owner \in Pids /\ pc[owner] = "alien")

Init ==
    /\ gate = Nobody
    /\ lock = [a \in Agents |-> NoFile]
    /\ aged = [a \in Agents |-> FALSE]
    /\ started \in SUBSET Agents
    /\ pc = [p \in Pids |-> "none"]
    /\ job = [p \in Pids |-> NoJob]
    /\ scan = Unscanned

(***************************************************************************)
(* Processes come and go.                                                   *)
(***************************************************************************)

\* A process of this user starts; a pid that died may return.
Launch(p) ==
    /\ At(p, "none")
    /\ Goto(p, "idle")
    /\ UNCHANGED <<gate, lock, aged, started, scan>>

\* The pid goes to a process of another user, which kill(pid, 0) refuses.
Recycle(p) ==
    /\ At(p, "none")
    /\ Goto(p, "alien")
    /\ UNCHANGED <<gate, lock, aged, started, scan>>

Exit(p) ==
    /\ pc[p] \in {"idle", "alien"}
    /\ Goto(p, "none")
    /\ UNCHANGED <<gate, lock, aged, started, scan>>

\* A process dies anywhere: the operating system frees the gate, the run
\* lock stays on disk.
Crash(p) ==
    /\ Alive(p)
    /\ Goto(p, "none")
    /\ Give(p)
    /\ scan' = IF pc[p] \in Ruling THEN Unscanned ELSE scan
    /\ UNCHANGED <<lock, aged, started>>

\* A day passes over a lock file.
Age(a) ==
    /\ lock[a] # NoFile
    /\ ~aged[a]
    /\ aged' = [aged EXCEPT ![a] = TRUE]
    /\ UNCHANGED <<gate, lock, started, pc, job, scan>>

(***************************************************************************)
(* A firing, up to the run lock: _dispatch() inside `with handoff.gate`.    *)
(***************************************************************************)

Fire(p, a, o) ==
    /\ At(p, "idle")
    /\ (o = "watch") <=> (p \in Watchers)
    /\ job' = [job EXCEPT ![p] = [agent |-> a, origin |-> o]]
    /\ pc' = [pc EXCEPT ![p] = "gate"]
    /\ UNCHANGED <<gate, lock, aged, started, scan>>

EnterGate(p) ==
    /\ At(p, "gate")
    /\ gate = Nobody
    /\ gate' = p
    /\ Goto(p, "check")
    /\ UNCHANGED <<lock, aged, started, scan>>

\* Faulty variant: a clock firing waits for the gate without a deadline.
GateBusyUnlessClock(p) ==
    /\ At(p, "gate")
    /\ gate # Nobody
    /\ job[p].origin # "clock"
    /\ Goto(p, "record")
    /\ UNCHANGED <<gate, lock, aged, started, scan>>

\* LockBusy: a watch or manual firing is skipped at once, a clock firing
\* when its sixty seconds are over.
GateBusy(p) ==
    /\ At(p, "gate")
    /\ gate # Nobody
    /\ Goto(p, "record")
    /\ UNCHANGED <<gate, lock, aged, started, scan>>

\* Any return inside the with statement gives the gate back.
Leaving(p, stage) ==
    /\ Goto(p, stage)
    /\ Give(p)
    /\ UNCHANGED <<aged, started, scan>>

CheckStarted(p) ==
    /\ At(p, "check")
    /\ job[p].origin # "manual" => AgentOf(p) \in started
    /\ Goto(p, "load")
    /\ UNCHANGED <<gate, lock, aged, started, scan>>

NotStarted(p) ==
    /\ At(p, "check")
    /\ job[p].origin # "manual"
    /\ AgentOf(p) \notin started
    /\ Leaving(p, "record")
    /\ UNCHANGED lock

\* The definition loads and, for a clock firing, the schedule is due.
Load(p) ==
    /\ At(p, "load")
    /\ Goto(p, "probe")
    /\ UNCHANGED <<gate, lock, aged, started, scan>>

\* started.json unreadable, the definition broken or outdated, not due.
Refuse(p) ==
    /\ At(p, "load") \/ (At(p, "check") /\ job[p].origin # "manual")
    /\ Leaving(p, "record")
    /\ UNCHANGED lock

\* Faulty variants: the age of a lock overrides a living owner, or counts for
\* nothing.
StaleByAge(a) == (lock[a] \in Pids /\ pc[lock[a]] = "none") \/ aged[a]
StaleByPid(a) == lock[a] \in Pids /\ pc[lock[a]] = "none"

\* _RunLock._stale(): the owner is gone, or the file tells nothing about an
\* owner this process can see and is a day old.
Stale(a) ==
    \/ (lock[a] \in Pids /\ pc[lock[a]] = "none")
    \/ Blind(lock[a]) /\ aged[a]

Probe(p) ==
    /\ At(p, "probe")
    /\ Goto(p, IF Stale(AgentOf(p)) THEN "unlink" ELSE "create")
    /\ UNCHANGED <<gate, lock, aged, started, scan>>

Unlink(p) ==
    /\ At(p, "unlink")
    /\ lock' = [lock EXCEPT ![AgentOf(p)] = NoFile]
    /\ aged' = [aged EXCEPT ![AgentOf(p)] = FALSE]
    /\ Goto(p, "create")
    /\ UNCHANGED <<gate, started, scan>>

\* O_CREAT | O_EXCL: the file exists, empty, before its content does.
Create(p) ==
    /\ At(p, "create")
    /\ lock[AgentOf(p)] = NoFile
    /\ lock' = [lock EXCEPT ![AgentOf(p)] = NoOwner]
    /\ Goto(p, "write")
    /\ UNCHANGED <<gate, aged, started, scan>>

AlreadyRunning(p) ==
    /\ At(p, "create")
    /\ lock[AgentOf(p)] # NoFile
    /\ Leaving(p, "record")
    /\ UNCHANGED lock

Write(p) ==
    /\ At(p, "write")
    /\ lock' = [lock EXCEPT ![AgentOf(p)] = p]
    /\ aged' = [aged EXCEPT ![AgentOf(p)] = FALSE]
    /\ Goto(p, "leave")
    /\ UNCHANGED <<gate, started, scan>>

\* Faulty variant: the process counts the file as its own before its content
\* is written, and unlinks it on the way out, behind the gate.
WriteFailsOwning(p) ==
    /\ At(p, "write")
    /\ Leaving(p, "release")
    /\ UNCHANGED lock

\* The write fails (a full disk): the exception leaves the dispatch and an
\* empty lock file that this process does not count as its own.
WriteFails(p) ==
    /\ At(p, "write")
    /\ Leaving(p, "idle")
    /\ UNCHANGED lock

LeaveGate(p) ==
    /\ At(p, "leave")
    /\ Leaving(p, "claim")
    /\ UNCHANGED lock

(***************************************************************************)
(* The run itself, outside the gate.                                        *)
(***************************************************************************)

\* The budget allows the run or refuses it; either way the lock is held.
Claim(p) ==
    /\ At(p, "claim")
    /\ \E stage \in {"run", "release"} : Goto(p, stage)
    /\ UNCHANGED <<gate, lock, aged, started, scan>>

\* _pipeline() returns, fails or raises; each is bounded by its deadline.
Finish(p) ==
    /\ At(p, "run")
    /\ Goto(p, "release")
    /\ UNCHANGED <<gate, lock, aged, started, scan>>

\* release() unlinks whatever file is at the path.
Release(p) ==
    /\ At(p, "release")
    /\ lock' = [lock EXCEPT ![AgentOf(p)] = NoFile]
    /\ aged' = [aged EXCEPT ![AgentOf(p)] = FALSE]
    /\ Goto(p, "record")
    /\ UNCHANGED <<gate, started, scan>>

\* dispatch() writes the event of the run or of the skip.
Record(p) ==
    /\ At(p, "record")
    /\ Goto(p, "idle")
    /\ UNCHANGED <<gate, lock, aged, started, scan>>

(***************************************************************************)
(* Convergence: change started intent, then stop watchers, under the gate.  *)
(***************************************************************************)

Rule(p) ==
    /\ At(p, "idle")
    /\ p \notin Watchers
    /\ Goto(p, "wait")
    /\ UNCHANGED <<gate, lock, aged, started, scan>>

\* Faulty variant: convergence does not wait for the gate.
RuleEnterFreely(p) ==
    /\ At(p, "wait")
    /\ gate' = p
    /\ Goto(p, "intent")
    /\ UNCHANGED <<lock, aged, started, scan>>

RuleEnter(p) ==
    /\ At(p, "wait")
    /\ gate = Nobody
    /\ gate' = p
    /\ Goto(p, "intent")
    /\ UNCHANGED <<lock, aged, started, scan>>

RuleBusy(p) ==
    /\ At(p, "wait")
    /\ gate # Nobody
    /\ Goto(p, "idle")
    /\ UNCHANGED <<gate, lock, aged, started, scan>>

\* lifecycle.collect() persists the new intent before the plan is applied.
Persist(p) ==
    /\ At(p, "intent")
    /\ \/ started' = started
       \/ \E a \in Agents : started' \in {started \cup {a}, started \ {a}}
    /\ scan' = [unread |-> Agents, shielded |-> {}]
    /\ Goto(p, "scan")
    /\ UNCHANGED <<gate, lock, aged>>

\* Faulty variant: a lock file older than a day protects nobody.
ScanOfYoungLocks(p, a) ==
    /\ At(p, "scan")
    /\ a \in scan.unread
    /\ scan' = [unread |-> scan.unread \ {a},
                shielded |-> scan.shielded \cup
                    {q \in Pids : q = lock[a] /\ Alive(q) /\ ~aged[a]}]
    /\ UNCHANGED <<gate, lock, aged, started, pc, job>>

\* running_watchers() reads one lock file.  A live owner is protected; a file
\* that names no owner, or an owner whose liveness cannot be told, protects
\* every watcher.
Scan(p, a) ==
    /\ At(p, "scan")
    /\ a \in scan.unread
    /\ scan' = IF Blind(lock[a])
               THEN [unread |-> {}, shielded |-> Pids]
               ELSE [unread |-> scan.unread \ {a},
                     shielded |-> scan.shielded \cup
                                      {q \in Pids : q = lock[a] /\ Alive(q)}]
    /\ UNCHANGED <<gate, lock, aged, started, pc, job>>

\* stop-watcher: terminate a watcher that owns no run.
Stop(p, q) ==
    /\ At(p, "scan")
    /\ scan.unread = {}
    /\ q \in Watchers \ scan.shielded
    /\ Alive(q)
    /\ Goto(q, "none")
    /\ UNCHANGED <<gate, lock, aged, started, scan>>

RuleDone(p) ==
    /\ At(p, "scan")
    /\ scan.unread = {}
    /\ Goto(p, "idle")
    /\ Give(p)
    /\ scan' = Unscanned
    /\ UNCHANGED <<lock, aged, started>>

(***************************************************************************)

\* The steps a living process takes by itself.
Admission(p) ==
    \/ EnterGate(p) \/ GateBusy(p) \/ CheckStarted(p) \/ NotStarted(p)
    \/ Load(p) \/ Refuse(p) \/ Probe(p) \/ Unlink(p) \/ Create(p)
    \/ AlreadyRunning(p) \/ Write(p) \/ WriteFails(p) \/ LeaveGate(p)
Running(p) == Claim(p) \/ Finish(p) \/ Release(p) \/ Record(p)
Converging(p) ==
    \/ RuleEnter(p) \/ RuleBusy(p) \/ Persist(p) \/ RuleDone(p)
    \/ \E a \in Agents : Scan(p, a)

Environment ==
    \/ \E p \in Pids : Launch(p) \/ Recycle(p) \/ Exit(p) \/ Crash(p) \/ Rule(p)
    \/ \E p \in Pids, a \in Agents, o \in Origins : Fire(p, a, o)
    \/ \E a \in Agents : Age(a)
    \/ \E p, q \in Pids : Stop(p, q)

Next ==
    \/ Environment
    \/ \E p \in Pids : Admission(p) \/ Running(p) \/ Converging(p)

Spec == Init /\ [][Next]_vars

\* A process that is scheduled takes its next step: no stage waits for
\* another process without a deadline.  Days pass.
Fairness ==
    /\ \A p \in Pids : WF_vars(Admission(p) \/ Running(p) \/ Converging(p))
    /\ \A a \in Agents : WF_vars(Age(a))
FairSpec == Spec /\ Fairness

(***************************************************************************)
(* What admission promises.                                                 *)
(***************************************************************************)

\* Every variable stays in its range; a process has a firing exactly in the
\* stages of one, and the gate is held exactly in the stages that need it.
TypeOK ==
    /\ gate \in Pids \cup {Nobody}
    /\ lock \in [Agents -> Pids \cup {NoFile, NoOwner}]
    /\ aged \in [Agents -> BOOLEAN]
    /\ started \in SUBSET Agents
    /\ pc \in [Pids -> Stages]
    /\ job \in [Pids -> Jobs \cup {NoJob}]
    /\ scan \in [unread : SUBSET Agents, shielded : SUBSET Pids]

InRun(p) == pc[p] \in Owning

\* The lock file of a run names the process that runs it from the moment it
\* leaves the gate until it unlinks the file: nobody reclaims it, and release(),
\* which unlinks by path, unlinks no file but its own.
OwnerIsNamed == \A p \in Pids : InRun(p) => lock[AgentOf(p)] = p

\* "Concurrency policy is skip": two processes never own a run of the same
\* agent, although locks are reclaimed by pid and by age, released without
\* the gate, and released by path whatever the file says by then.
RunExclusion ==
    \A p, q \in Pids :
        InRun(p) /\ InRun(q) /\ AgentOf(p) = AgentOf(q) => p = q

\* A clock or watch firing that passed the started check is still started
\* when it takes the lock: no stop can slip between the check and the run.
AdmissionIsCurrent ==
    \A p \in Pids :
        pc[p] \in Checked /\ job[p].origin # "manual" => AgentOf(p) \in started

\* When a converging process begins to stop watchers, every process that
\* owns a run is protected from it, also the runs admitted by another
\* process before the gate was taken.
RunsAreShielded ==
    \A p \in Pids :
        At(p, "scan") /\ scan.unread = {} =>
            \A q \in Pids : InRun(q) => q \in scan.shielded

\* A firing never waits for the run it found or for another launch without
\* bound: it ends, with a run or with a skip.
FiringEnds ==
    \A p \in Pids : At(p, "gate") ~> pc[p] \in {"idle", "none"}

\* A run lock left behind by a crash or by a failed write does not keep an
\* agent from running for ever: while firings keep reaching the lock and
\* crashes stop, one of them reclaims it, unless the dead owner's pid has gone
\* to another process of this user, which nothing in the file distinguishes
\* from the owner.
SomeCrash == \E p \in Pids : Crash(p)
Abandoned(a) == lock[a] = NoOwner \/ (lock[a] \in Pids /\ ~Alive(lock[a]))
AbandonedIsReclaimed ==
    \A a \in Agents :
        /\ []<>(\E p \in Pids : At(p, "probe") /\ AgentOf(p) = a)
        /\ <>[][~SomeCrash]_vars
        => ~<>[]Abandoned(a)

=============================================================================
