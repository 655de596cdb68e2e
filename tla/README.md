# A verification development for Agents Live

Agents Live runs coding agents on schedules, on file changes and on demand.
There is no daemon: the operating system's scheduler, detached watcher
processes, release scripts and the user's commands are independent processes
that coordinate through files. Almost everything that can go wrong is an
interleaving of those processes, a process that dies between two writes, or a
limit that is reached. This directory holds TLA+ models of that coordination,
TLC configurations that check them on small instances, and TLAPS proofs for
every instance.

## The system

| part | state | operations | what is hard | what makes it correct |
|---|---|---|---|---|
| dispatch (`dispatch.py`) | `locks/<agent>.lock` | check started, load, take the run lock, claim the budget, run, release, record | the lock is a plain file reclaimed by pid or age and unlinked by path | one run per agent; no run admitted after a stop; abandoned locks are reclaimed |
| launch gate (`runtime/handoff.py`) | `activation.lock`, `runtime-commit-epoch`, `activation-paused.json` | gate, commit, running_watchers, pause_watchers | polled with a deadline; the epoch is a sequence lock whose writer may die | nobody waits for ever; interrupted commits are found |
| dispatch budget (`runtime/budget.py`) | `dispatch-budget.json` and its lock file | claim | lock broken by age, instants taken before the lock, fails open | bounds fan-out; no spurious refusals; every claim ends |
| lifecycle (`cli/lifecycle.py`) | none of its own; reads registry, definitions, ownership, `started.json`, triggers | collect, plan_maintenance, commit_maintenance, converge | plans are made without the gate from many files | a stale plan is never committed; unknown input never deletes |
| started intent (`state/started.py`) | `started.json` | load, load_or_adopt, replace, is_started | whole-file replacement by several processes; one-time adoption | no update lost or invented |
| diff and convergence (`runtime/diff.py`, `runtime/convergence.py`) | the trigger store, watcher processes | install, remove, start, stop; deferral while a run is active | state read before the operations and used during them | idempotent; never two watch loops of one agent, never a terminated run |
| watchers (`runtime/watcher.py`, `cli/commands/internal.py`) | session files, the watcher process tree | supervise, retire, restart, stop | retirement races with convergence and with activation | a watch is served by exactly one loop, eventually |
| watch loop and sources (`runtime/watchloop.py`, `runtime/hosts/windows_watch.py`) | pending paths, dispatch times, a bounded queue | poll, debounce, fire | threads, limits, overflow | a change is fired, or lost for a reason that is known |
| run pipeline (`dispatch.py`, `agent/port.py`) | attempts, deadlines, retries left | pre, probe, agent attempts, settle, post | one overall deadline, a reserve, pauses and retries | the reserve is kept; every run ends |
| pipeline server (`pipeline/server.py`) | path store, frozen paths, attempt, tokens | seed, begin_attempt, put, get, close_attempt | checks and writes in different lock sections | puts are atomic; an expired attempt never writes; agents cannot supply their own validator |
| generations (`deploy/`) | generation directories, validation records, deployment lock, the `current` link | build, remove, collect, select | what is in use is read from the process table | the selection is complete; a generation in use stays |
| activation (`cli/commands/install_generation.py`) | operation lock, gate, pause, triggers | activate, recover | a long change with a way back, processes of two generations | what it reports is so; no old watcher fires again |
| retention (`obs/retention.py`) | run artifacts, markers, tombstones | list, prune, sweep | no lock, concurrent with runs and other passes | artifacts of an active run stay; everything goes in the end |
| release tooling (`tools/release.py`) | numbered attempts, receipts, tags, a draft release, two lock directories | prepare, accept, reject, finalize, publish | any step may fail, be repeated, or find other bytes | PyPI serves what the approved attempt's preparation vouches for, for good |
| registry and ownership (`state/registry.py`, `state/ownership.py`) | shared registry, owner files | enrol, transfer, owns | load-modify-write; a file shared between machines | fails closed |
| observability (`obs/`) | append-only logs | record, query | appends of several processes | reading tolerates anything |
| hosts (`runtime/hosts/`) | crontab, task scheduler, process table | install, remove, list, spawn, terminate | external programs | errors are reported, never guessed |
| command line, dashboard, legacy, other tools | none | parse, print, convert once | sequential | tests suffice |

How they interact: every firing passes the gate and takes its agent's lock under
it, and then runs its pipeline, which is served by a server of its own. Every
command that changes what runs holds the gate for the whole change and marks it
in the epoch. Maintenance, which the system's scheduler starts every five minutes,
plans without the gate and only commits under it; convergence reads the run locks
to learn which watchers it may not terminate; retention runs at the end of a
maintenance and holds nothing. An activation stops the runtime under the gate,
moves `current`, and has the new generation converge.

## Modules

| module | models | extends / uses |
|---|---|---|
| `Dispatch` | admission, run lock, running_watchers, termination of watchers | |
| `Budget` | one repository's dispatch budget | |
| `Intent` | abstract: what started intent promises | |
| `Maintenance` | collect, plan, revalidate, commit; user commands; activation's withdrawal; crash and repair | `Intent` by refinement |
| `Watchers` | watcher processes, the watcher part of diff and commit, handover, boot starts, the pause and drain of an activation | |
| `WatchLoop` | the watch loop with its Windows reader threads and the kernel's buffers | |
| `AttemptStore` | abstract: a store per attempt with atomic puts | |
| `PipelineServer` | the pipeline server, lock section by lock section | `AttemptStore` |
| `PipelineRun` | a run with its server: deadlines, attempts, retries, settling | `PipelineServer`; `AttemptStore` by refinement |
| `Selection` | abstract: which generations may be selected, executed and removed | |
| `Generations` | build, remove and collect under the deployment lock | |
| `Activation` | the activating command, its way back, and the runtime's processes | `Generations`; `Selection` by refinement |
| `Retention` | passes of retention against runs | |
| `Release` | the release tooling with two shells, the branch, GitHub and PyPI | |
| `*Proofs` | theorems about the module they are named for (below); `DispatchProofs` has those about `Budget` too, `PipelineProofs` those about both pipeline modules | those modules, TLAPS |
| `MC*` | the instances TLC checks | the module they are named for |

Component modules also hold a few "faulty variants", operators that no
specification uses: each changes one action the way a plausible mistake would,
and every property was seen to fail with one of them.

### Dispatch

`gate` is the operating-system lock on `activation.lock`: it vanishes with its
holder (`Crash` frees it). `lock[a]` is the *content* of `locks/<a>.lock`
(`NoFile`, `NoOwner` for an empty or undecodable file, or a pid) and survives
crashes; `aged[a]` says whether the file is older than a day. A process is a
pid. `pc[p] = "none"` is a dead pid, which `Launch` may give to a new
process of this user and `Recycle` to another user's process (`"alien"`), whose
liveness `kill(pid, 0)` refuses to tell. On POSIX `pid_exists` raises
`PermissionError` for it; `_RunLock._stale` treats that as an unreadable lock,
and `running_watchers` then protects every watcher.

Stages follow `_dispatch`: `gate` (waiting), `check` (started), `load`, `probe`
(`exists() and _stale()`), `unlink`, `create` (`O_EXCL`), `write`, `leave`
(end of the `with`), `claim`, `run`, `release`, `record`. A write that fails
leaves the empty file and does not count as owned, so nothing releases it.
Convergence is `wait`, `intent`, `scan`: it persists new intent, reads the lock
files one per step (`scan.unread`, `scan.shielded`) and may then terminate
watchers that own no run. The process tree of `running_watchers` is abstracted:
a watcher runs its firings itself (`dispatch` is called in the watch loop), so
the owner of a run is the watcher.

### Budget

One unit of time is the thirty seconds after which a lock file may be broken.
`instant[c]` is taken in `Begin`, before the lock, as `claim` does. `ledger` is
the file; `granted` is history, what was counted and allowed. `Fail` is any
exception inside the lock (fail open), `CannotLock` one on the way to it,
`GiveUp` the two-second deadline. Entries carry their claimer so that two claims
in the same instant stay two.

### Maintenance and Intent

A trigger is an agent with a version of its definition, because a
subscription's key is a digest that includes the schedule. `world` is what
`collect` reads outside the epoch: each definition (a version, `"broken"` or
`"missing"`), whether this machine owns the agent, and whether the
repository is readable, unreadable, or of unknown ownership. `started` is
`started.json` or its absence. `Intended`, `Records`, `Wanted`, `Protected` and
`Operations` are `collect` and `diff`. A maintainer reads the epoch, its inputs,
the triggers, the world and `started.json` in five separate steps
(`plan_maintenance`), waits for the gate, and revalidates. A user's process
collects under the gate. `WriteOdd` and `WriteEven` are `handoff.commit`; an
interrupted writer leaves an odd epoch, which the next maintainer repairs and
then plans again. An activation's effect here is a request that withdraws every
trigger after adopting; it is refused when the repository is incomplete.

`Intent` is what this must implement: intent changes only by a user's request,
applied to the intent of that moment at most once, or by one adoption. The
refinement maps a request to "not yet done" until `Collect` has persisted it.

### Watchers

A process is a member of `Procs` with a state: `starting` until its loop writes
progress, `loop`, `run` (a run lock names it), `hung` (no progress in time, which
may be a moment after a long run), `retired` (its change source is stopped). An
observer that its spawner gave up waiting for is `late`, and `cancelled` until
it or its child has ended. `sub[w]` is the key in the command line by which
`supervisor.owned` finds it; `old` are those of a version that is not active.

A converger lists the processes, then judges them (`plan` reads health after the
list; `diff` keeps one owner, by `Rank`), waits for the gate, asks again which of the
watchers to stop are running (`EnterGate`), and applies its operations in the
order that `diff` produced for each key: stops, then the start. Each operation looks at the world
again: a deferred stop defers the start, a recovered watcher is not stopped, a
start looks for owners. `current` stands for the revalidation by epoch that
`Maintenance` models. Boot triggers take no gate. An activation (`Pause`, `StopIdle`,
`Switch`, `Abandon`) holds the gate, asks the loops to end, terminates what is
not draining, and moves the pointer; drained watchers find afterwards that they are
old and hand over (`Retire`, `HandOver`, `HandOverLate`, `LeaveQuietly`).

A fingerprint is a function of the key on POSIX, so a changed watch expression is
another key; the branches for other fingerprints concern launchers of older
releases and are left out. A launcher and its interpreter child are one process.

### WatchLoop

`kernel[d]` is the buffer behind a directory's handle: the records not read yet, or
the fact that some were given up. A reader thread opens, reads, and offers one
event per step; an offer to a full queue and the note of it (`Mark`, the
`dropped` flag) are two steps, between which the loop may empty the queue. The loop
is `check` (retire, and how long to wait), `poll`, `drain` (`get_nowait` until
empty), `flags`, `rescan`, `take` (collect what matches and move the deadline),
`decide` and `run`. Time is kept as what is left of each wait and as the age of each
dispatch, so that it may go on for ever. `owed`, `lost` and `unheard` are history:
changed files that no run was told of, files that a limit dropped, and removed
files that a rescan could not see.

### AttemptStore, PipelineServer, PipelineRun

A path may have a binding path (`<path>/$schema`). A value is a schema, a
reference to one, or anything else; what a schema accepts is a set. A put passes
the middleware, then the four lock sections of its body (`Enter`, `CheckFrozen`,
`ReadSchema`, `Resolve`) and `Write`. Bodies run one at a time on the event loop
(`body`), the host's thread between any two sections. `request[r].seen` is the local
variable `attempt`, `bound` is `schema_frozen`. A child that escapes the end of its
process tree keeps its token, so requests of earlier attempts arrive at any time.
`AttemptStore` says what this amounts to: a store in which a put is one step,
checked against the store it writes, in the attempt it belongs to.

`PipelineRun` is the run's thread. `Execute` starts no child without time left and
gives it what is left of its deadline; `Reserve` is what a run with an
`on_failure` post-processor keeps back. `Begin` (which may raise), `ProbeEnds`,
`AgentEnds`, `Close`, `Retry` (with its pause) and `NoRetry` are the loop over
attempts; `Settle` takes the one snapshot that the run reports and the post-processor
reads. What ending a process tree takes is not counted as time, as in the code's
own accounting.

### Selection, Generations, Activation

`dir[n]` is `absent`, `partial` (no validation record) or `sealed`. The deployment
lock is tried once and dies with its holder; the operation lock and the gate
likewise. `Held` is the inventory of the process table, taken once to list what
may be collected and again before each removal, with the rename and the `rmtree` as
later steps. A relic is what an interrupted `rmtree` leaves. A command executes
the generation that `current` led to when it was started, or none.

`Activation` follows `activate_generation`: `operation`, `gate`, `check`, `stop`
(withdraw triggers), `drain` (end idle watchers), `select` (and on Windows `link`: the
junction is removed and made again), `leave`, `converge`, `await` (the child
`internal maintain`), `report`. A step that raises (`Raises`) goes once through the same
steps with the previous generation as its goal. Triggers are the runtime's triggers as
one, since `Maintenance` follows them one by one; runs, maintenance and watchers are
processes launched through `current`. When the awaited maintenance fails or dies, its
gate goes with it before the activation turns back (`Recovers`). When it finds the gate busy
twice, or its plan changed each time, it prints that it is deferred and exits with 0
(`MaintainDefers`, `internal.py:114-135`); `install_generation._run` looks at the exit code
only, so the activation then reports success, or a complete way back, with the triggers
still withdrawn (`"ok, deferred"`, `"restored, deferred"`). The next maintenance would
install them, but its own triggers are among the withdrawn ones; a command that
converges or the next activation has to. `OutcomeIsTrue` promises triggers only for the two
other outcomes.

### Retention

A run makes its directory, its marker, its provider's directory and its files in
steps, and removes the empty ones when it ends. A pass reads the markers once, lists
the files, then examines each and prunes it in two steps (an expired envelope
becomes a tombstone, which is removed after another period), and last sweeps empty
directories. Time is the age of files and the time a pass has taken, which
may exceed the period. Any process may die.

### Release

An attempt (candidate or final) is its directory with its receipts; `head` is what its
worktree has checked out, `disk` the bytes of its artifacts, `builds` how often they
were built. Each step of a command is an action that checks what the code checks
there, and a failed check ends the command. A check of the retained bytes and the hashes that
are recorded afterwards are two steps, in the preparation (`Readiness`, `Preparation`;
`release.py:1672` and `1674`) and in the publication (`Publish`, `Evidence`; `2712` and `2730`,
with the release notes between them). `Dies` leaves a lock
directory that `Inspect` removes; `Fails` is a gate, git or the network; `Change`
alters retained bytes between any two steps. `history` is the branch with runtime
source and the manifest's approval, which `Developer` moves at any time. Of the assets of a
GitHub release, the artifacts are uploaded as they are by then, the evidence has its own
hashes and the manifest (`SHA256SUMS-*`, written from the checked preparation) has those of
the preparation. `Workflow` is `.github/workflows/publish.yml`: it runs
`sha256sum --check` on the downloaded artifacts against the manifest and verifies them with
the evidence, and only then publishes to PyPI.

## What TLC checks

| run | instance | shows |
|---|---|---|
| `dispatch` | 2 processes that fire or converge, 1 watcher, 1 agent | `OwnerIsNamed`, `RunExclusion`, `AdmissionIsCurrent`, `RunsAreShielded`, and under fairness `FiringEnds`, `AbandonedIsReclaimed` |
| `budget` | 3 claimers, limit 1, window 2 units, 4 instants | `SerialUnlessBroken`, `RefusalIsJustified`, `BoundsInOrder`, `ClaimEnds` |
| `budget_bound` | the same, 5 instants | `BudgetBounds` is violated (finding 1) |
| `maintenance` | 1 maintainer, 1 user's process, 1 agent, 1 version, epochs renumbered, 2 events | `EpochMarksWrites`, `PlanIsExact`, `RemovalsAreDue`, `InstallsAreDue`, `OneCommitConverges`, `IntentIsTheUsers` (refinement), `EventuallyConverged` |
| `maintenance_keep` | the same | `UncomputedIsKept` is violated (finding 2) |
| `watchers` | 2 processes, 1 subscription, 1 converger, 3 events | `OneLoop`, `RunsAreDeferred`, under fairness `EventuallyServed` |
| `watchloop` | 2 files of one directory, 3 changes, queue, buffer, rescan and dispatch limits of 1 | `LossHasACause`, under fairness `EventuallyFired`, `StopEnds` |
| `pipeline` | 1 request at a time, 2 attempts, 4 kinds of agent, overall timeouts up to 3, schemas bound by reference, by nothing, or by a reference to nothing | `ResultIsOfLastAttempt`, `ResultIsChecked`, `ReserveIsKept`, `PutsAreAtomic` (refinement), `RunEnds` |
| `activation` | 1 activating and 1 managing command, 2 runtime processes, 2 names, 3 builds, 1 crash or failure, junctions | `MovesAreQuiet`, `OutcomeIsTrue`, `NoOldLoop`, `SelectionIsKept` (refinement) |
| `generation_listing` | the same | `ListingLoads` is violated (finding 3) |
| `retention` | 1 run, 2 passes, period 1, stalls up to 2, 1 death | `PrunedOnlyWhenDue`, under fairness `EventuallyGone` |
| `release` | 2 shells, 1 candidate, 1 final attempt, 3 assets (an artifact, manifest and evidence), 3 commits, 2 faults, symmetric | `ReleasedAsApproved`, `ReleaseIsFinal`, `WithdrawalIsInTime`, `ReceiptsAreFinal` |

`watchers` and `release` also check their `TypeOK`, which says who holds which lock; the
types of the other modules matter only to the proofs.

### Bounds

One agent suffices for `Dispatch` because agents share only the gate,
and the exclusion is proved for any number; three processes give an owner, a
challenger and a converging process, the most that one step relates. In
`Budget` three claimers are one late, one that overtakes and one that profits;
the clock reaches past one window and past the age of a lock. In
`Maintenance` only the events are bounded: two are for instance a request and a crash in
the middle of it. Commits go on for ever. No step depends on how large the epoch is, only on
its parity and on whether a plan still has the file's value, so `MCMaintenance` renumbers
both after each step (`Renumber`): the state space is finite without a last commit, and
`EventuallyConverged` can be asked without an exception for a counter at its bound.
An event is a request, an edit, a failure or a crash; initial states are every
combination of intent, triggers and repository, so histories before the first
event are covered. Two maintainers at once were checked for `PlanIsExact` and
`OneCommitConverges` while the model was written, and are covered by the proofs.

In `Watchers` two processes are a boot start and a spawned one, or a retired
watcher and its replacement; three events are for instance an edit, a late observer and a
hang. The safety properties are proved for any number of convergers.

In `WatchLoop` limits of one make every limit bite with the second event; three
changes are one that fills the queue, one that overflows it just after it was drained, and
one that comes while the answer is under way. In `pipeline` two attempts are what a
stale request needs, and the four agents are: retry of an empty answer with a reserve;
retry of a timeout with a probe; a pre-processor that spends the time; no agent at all.
One request suffices because bodies are serial, and the refinement is proved for any number.
In `activation` one activating command is what the operation lock admits; a second
one would only be refused or begin after the first has died, which `MaxEvents` 1 and its
return to `idle` include. Its initial states are all sets of sealed generations and all selections.
In `retention` a pass that takes longer than the period is the case in which a run can
begin after the markers were read and still have an expired file. In `release` two faults
are a crash and a changed file, or two crashes of one attempt.

`CHECK_DEADLOCK FALSE` is given where the model ends: claims and runs done, the
epoch, the changes, the builds or the commits at their bounds. `Dispatch`,
`Watchers` and `Retention` never stop and are checked for deadlock.

### Fairness

`Dispatch`: a living process takes its next step, because no stage
waits for another process without a deadline (the gate is polled, the run lock
is tried once), and days pass. Nothing is assumed of the environment: firings
may stop and crashes may go on, and `AbandonedIsReclaimed` states as premises
that firings reach the lock and that crashes stop. `Budget`: a claimer that is
scheduled goes on, unless its process cannot reach the lock at all. `Maintenance`:
processes that were started take their steps; events are never forced, and neither is the
start of a maintenance: its trigger (`*/5 * * * *`) is one of those that an activation
withdraws, and one that dies leaves none. `EventuallyConverged` therefore has as premise
that maintenance is started again and again, by its trigger or by someone. `Watchers`:
maintenance runs every five minutes, processes take their steps, runs end (they have
deadlines), boot triggers run, an activation goes on, and a converger that keeps waiting
for the gate gets it some time. `EventuallyServed` has as premise that the watch rests
from some moment on: a watcher that is found running by every commit is deferred by
every commit. `WatchLoop`: threads are scheduled, time passes, and a run ends at its
deadline; that a directory fails is never forced. `PipelineRun`: the run's own steps between
its children (`Advances`), the kill of a child at the limit it was given (`Expires`), and
time (`Tick`). That a child ends by itself is an action without fairness, so `RunEnds` holds
although none ever does. `Retention`: time goes on, a pass that began goes on, and
maintenance is scheduled again and again. `Activation` and `Release` state safety only:
no document promises that an activation or a release succeeds.

## What is proved

TLAPS checks the following for any sets of processes, agents, versions, paths, files and
limits, from the named assumptions about constants only (that markers such as `Nobody`
differ from the values they stand beside, that no shell is called what a free or a
stale lock is, that limits are numbers, that a binding
path has no binding, that generation names are finitely many).

*Dispatch.* `RunExclusion` is not inductive. The invariant used adds that a
process is in an admitting or ruling stage only while it holds the gate, and
that a process that owns a run is what the lock file names
(`OwnerIsNamed`, a property of its own: `LocksAreKept`), while the process between `create` and `write` is alone
with an empty file. A reclaimer that unlinks holds the gate and saw a dead or
unreadable owner; since only the gate's holder creates lock files, the file it
unlinks is still the one it read. That is why the release without the gate and
by path is harmless: a release can only remove the releaser's own file.
`RunsAreShielded` follows from the part of the scan already done: every owner is
shielded or its lock is still unread, and nobody is admitted meanwhile.

*Budget.* `SerialUnlessBroken` counts the claimers inside the lock: without a broken lock
there is one, the one that made the file. `RefusalIsJustified` holds even with broken locks:
what the file holds was granted, and a refused claim may drop entries but keeps as many as
the limit, so a refusal always counts true grants. `BoundsInOrder` needs three facts about
the time in which no lock was broken and no claim overtaken: the last entry that was
counted is never dropped; the file has every entry that a claim made now would count; and
the one claimer inside has counted the file as it is. Cardinalities of changing sets are
handled by a few lemmas on adding and removing one element.

*Maintenance.* `PlanIsExact` rests on a sequence-lock argument: whoever writes
holds the gate and has made the epoch odd; a plan's epoch is never ahead of the
file's; and while both are equal and even, everything the plan has read so far
equals the file it was read from. `WritesAreMarked` is the writers' half of it, which also
covers commits over the odd mark of a writer that died. `RemovalsAreDue` and `InstallsAreDue` keep,
while a commit is applied, that what is left to do is part of what the plan
computed. `OneCommitConverges` relates the remaining operations to the difference
between the triggers and what is wanted, for maintainers that nothing disturbed.
`ImplementsIntent` maps every step to a step of `Intent` or a stutter; the step
that needs the invariant is `Persist`, which must not change intent that a user
has changed since the plan.

*Watchers.* For `OneLoop` the invariant adds that a late observer is marked as
cancelled, so that its child, when it appears, is not a second resident watcher. Every
other step keeps a process or ends it, except a spawn and a handover, which look
for owners in the same gate-protected step. Watchers started at boot take
no gate and are outside the statement; `EventuallyServed` covers them.
`RunsAreDeferred` needs the part of `TypeOK` that says that a converger applies
operations exactly while it holds the gate: runs begin only while the gate is free.

*WatchLoop.* `LossHasACause` follows a changed file from hand to hand: each step that
takes it from one place puts it into the next, or leaves a mark of its directory there
(a given-up buffer, a reader about to mark, the flag, an overflow event, the set to
rescan), and a rescan finds it or says why not. The invariant adds that a buffer
that gave something up is empty, that a reader that reads has offered everything it had, and
that nothing is owed before the readers are open.

*Pipeline.* `ImplementsAttemptStore` rests on `Found`: what a body has found out in its
sections holds as long as its attempt is the current one. Bodies are serial, so between
two sections only the host changes the store, and it does so by opening an attempt;
then the body's `seen` is not the current attempt any more and its write is refused.
`InputsDecide` needs in addition that the prepared inputs are frozen and still in the
store, hence that the schema a put was checked by is the one the prepared inputs
name. `ReportsLastAttempt` needs that the store holds nothing but the host's
values and those of the current attempt, and that the result is read when no attempt will
follow. `ReserveKept` needs that every child before the post-processor is limited by the
agent's deadline, and the post-processor by the overall one.

*Activation.* The invariant has one part for each lock. The operation lock makes
activations exclusive, so what one has found selected (`prev`), or has selected itself
(`Goal`), stays selected until it reports; `OutcomeIsTrue` is read off that, and for the
triggers off the exit of the awaited maintenance, which says that they are installed
unless it was deferred. The deployment
lock keeps what its holder has found out: the generation to be renamed is complete, not
selected and not executed. The gate keeps triggers and watchers as the maintenance that
holds it has converged them, which gives `NoOldLoop`. No lock protects who executes a
generation; for `ImplementsSelection` a process only ever starts from the selected
generation, or, in `Maintain`, from the goal, which is the selected one, and that is
never the one a remover works on. `MovesAreQuiet` needs what keeps the runtime stopped after
`_stop_runtime` has looked: withdrawn triggers launch nothing, the gate keeps watches from
firing and maintenance from installing triggers, and the pause, which on the way back is
taken with the gate, ends a watcher after its run. A host with no registered
repository skips that stop; there the invariant is that it has no triggers and no
watchers, and that the only maintenance is the activation's own child. `ListingLoads` is what fails (finding 3).

*Retention.* `PruningIsDue` needs that a pass that did not note a run as active
read the markers before the run had one, so that the run, while it goes on, is younger than
the pass, and so are its files: the cutoff, taken before, cannot reach them.

*Release.* Three facts carry the argument. The branch only grows and `attempt.json` is
written once, so that what the source of an attempt approved when it was chosen is what its
source approves; that it is written once follows from the allocation lock, under which a
number that nobody has consumed is reserved and recorded. What a command has checked when
it began holds when it acts, because only the holder of the mutation lock writes receipts
and rejections; a command may die in between, and then it acts no more. What
is finalized is prepared, a preparation never changes, and the manifest on GitHub has the
hashes of the preparation of the attempt it was uploaded for; since the workflow compares the
artifacts with the manifest, what PyPI serves has those hashes too. Nothing needs the disk
to stay as it is, and nothing is claimed of the evidence, which is hashed after the last
check (with a workflow that trusted only the evidence, `WorkflowByEvidence`, the theorem is
false). From these the invariant's last part follows: everything public is of the attempt
that the pushed tag names. `Push` is the only step that moves the tag. It finds the branch at
the attempt's source, where the candidate is approved, and neither rejected, which gives
`WithdrawalIsInTime`; and before it nothing is public. `ReceiptsAreFinal` needs that a
receipt that a command is going to write is still missing, or, for the evidence
of a repeated publication, is the same, since `_write_once` refuses another. All of this is proved for any number of shells, attempts, assets, commits and faults. What is taken from
outside is that git pushes both refs or none and refuses when the branch has moved, that the
workflow compares the files it downloads with the manifest, and that nobody removes the lock directory of
a living command.

## What is only model-checked

Liveness (`FiringEnds`, `AbandonedIsReclaimed`, `ClaimEnds`, `EventuallyConverged`,
`EventuallyServed`, `EventuallyFired`, `StopEnds`, `RunEnds`, `EventuallyGone`):
beyond the prover with fairness and ENABLED.

## Findings

1. `budget_bound`. The decision record says that the budget bounds dispatch
   fan-out and fails open when its bookkeeping cannot be read. A claim takes its
   time before it waits for the lock and keeps only entries that are not later,
   so a claim that is overtaken discards those that overtook it, with readable
   bookkeeping. `BoundsInOrder` shows that this and a broken lock are the only
   ways.
2. `maintenance_keep`. The architecture says that convergence never removes an
   artifact whose desired state could not be computed. In a repository that has
   not recorded intent, the trigger of a definition that does not parse is not
   adopted, hence not protected, and is removed.
3. `generation_listing`. A removal renames a generation to a hidden name inside
   `versions/` and deletes it there. When the deletion stops before it reaches the validation
   record, listings still take the directory for a complete generation and fail on its
   name, and so does every later collection, which is documented as resumable.

Also met, without a run:

- `docs/architecture.md:145` says that the budget is claimed before the
  definition loads; the code loads the definition and takes the run lock first.
- `docs/decisions/deployment-generations.md:202` says of an activation whose
  convergence failed that the selected generation is kept; `install_generation.py` goes
  back to the previous one, as `Activation` does.
- `internal.py:116-120` and `133-135`: a maintenance that is deferred exits with 0, and
  `install_generation.py:24-34` takes that for convergence. An activation, or its way back,
  is then reported as complete with the triggers withdrawn, the one of maintenance among
  them. `docs/development-release-process.md:140` says that a failed activation
  restores the previous runtime. `Activation` has the behaviour and `OutcomeIsTrue`
  leaves it out of its promise on triggers.
- `tools/release.py:2712-2730`: a retained file that changes after publish has compared it
  and before the evidence is hashed is recorded in the evidence, uploaded and published on
  GitHub; `--verify-publication-assets` compares with the evidence and accepts it. The
  manifest refuses it in the workflow, so it never reaches PyPI. In the same way the
  preparation may record a file that changed after `release.py:1672` compared it with
  `build.json`; from then on the preparation is what counts. `Release` has both.
- `tools/release.py:1026`: an attempt that died between the stable tag and
  `finalization.json` can be rejected, and its local tag then refuses every later final
  attempt until it is deleted by hand. `Release` has the behaviour.

## Hazards without a property

`PROJECT.json` lists every hazard at its line. Seven have no property, because what
could be stated is not promised and would be false, or because the cause is outside the
models: a sweep that removes the empty directory of a run that is just starting
(`obs/retention.py:225`), pending paths of a watcher that retires
(`runtime/watchloop.py:38`), a record lost with the watcher that wrote it
(`dispatch.py:91`) and the tag
above (`tools/release.py:1026`) are behaviours of the models; unlinking an open
file on Windows (`dispatch.py:925`), a pause marker whose owner's pid is used again
(`runtime/handoff.py:175`) and other programs that edit the crontab
(`runtime/hosts/crontab.py:110`) are not modelled.

## Not modelled

The map names the lines that each definition stands for, about an eighth of the
implementation. The rest is, by size: the dashboard and its scripts, the release
tool's texts, changelog and branch retirement, the Windows task scheduler and
process adapters, local deployment and readiness scripts, parsing of definitions,
cron and watch expressions, provider command lines and output formats, log queries
and rotation, the conversion of legacy installations, and package downloads. They are
sequential text processing, presentation, or calls to programs outside the
repository; the models take what they return as a choice.

Left out of modelled parts:

- the registry (one load-modify-write under a blocking lock; one repository is
  modelled) and transfers of ownership between machines (what synchronizes the shared file
  is outside the repository);
- `inotifywait` as a change source, one child with a pipe; the holder file of the
  gate and birth tokens; launchers of older releases;
- upgrade's direct installation without an activation; the classification of releases;
- rotation of logs and removal of archives, and reuse of pids, in retention;
- retirement and retention plans of release branches, requalification, the legacy
  workflow, and operational acceptance on an installation.

Steps of the code that one action stands for, and errors left out, where that adds or hides
nothing a property tells apart:

- `Dispatch`, `Budget`: an `OSError` of the budget's `unlink`, which fails open like any other
  error; the dead lock it leaves is what a crash leaves.
- `WatchLoop`: a firing is a call of `dispatch`, which may skip; an exception of it that
  ends the watch is left out.
- `Watchers`: a handover spawns the replacement and exits in one step
  (`internal.py:569-591`), so the moment in which both exist is not shown; the retired one
  has closed its change source by then and fires no more.
- `PipelineRun`: the exceptions before a child starts (`port.py:285-289`, preparation of pre-
  and post-processors) are one.
- `Activation`: a failed link on the way back counts as restoring `prev`, where the code
  puts back what it found linked (`generation.py:253-258`); a watcher that finds no
  pointer retires, where the code falls back to package metadata (`internal.py:534-537`);
  `clear_activation` does not raise.
- `Retention`: a pid used again, and `pid_exists` raising (`retention.py:237`).
- `Release`: the attempt's directory and its allocation's `approval.json` are made in one step;
  the retained files are not compared again after the probe (`2059`), nor is a missing
  baseline refused when an attempt is rejected (`1036-1039`): the model permits more there.

On Windows `unlink` of an open file fails; the models use POSIX semantics there.
