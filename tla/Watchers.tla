------------------------------ MODULE Watchers ------------------------------
(***************************************************************************)
(* Watcher processes and how convergence keeps one watch loop per wanted    *)
(* subscription (runtime/diff.py, runtime/convergence.py), while watchers   *)
(* run agents, hang, die, start at boot without asking anybody, and retire  *)
(* when the installed version moves (runtime/watcher.py, internal._watch).  *)
(*                                                                          *)
(* A plan is made without the launch gate, from the process table and the   *)
(* progress files.  That no commit of another process intervened is checked *)
(* under the gate (module Maintenance); that no process changed is not, and *)
(* cannot be: each operation looks again.                                   *)
(***************************************************************************)
EXTENDS Naturals, FiniteSets

CONSTANTS
    Procs,      \* watcher processes; an identity includes the time of birth
    Keys,       \* subscriptions
    Convergers, \* processes that plan and commit
    Nobody,     \* the gate is free
    Activator,  \* the process that activates another version
    MaxEvents   \* bound: edits, activations, boots, deaths, hangs, failures

ASSUME WatcherAssumption ==
    /\ Nobody \notin Convergers /\ Activator \notin Convergers \cup {Nobody}
    /\ MaxEvents \in Nat

VARIABLES
    gate,       \* the process that holds activation.lock
    want,       \* what the definitions ask for: wanted, unwanted, protected
    st,         \* the state of each watcher process
    sub,        \* the subscription in its command line
    old,        \* the processes of a version that is no longer installed
    booted,     \* the processes that a boot trigger started
    cancelled,  \* the processes whose spawner gave up waiting for them
    booting,    \* boot triggers that have not run yet
    draining,   \* the watchers an activation leaves to finish their runs
    pc,         \* where each converger is
    listed,     \* the processes it found
    stops,      \* its operations, as <<process, reason>>
    starts,     \* its operations, as subscriptions
    running,    \* the processes with an active run when its commit began
    deferred,   \* the subscriptions it leaves for the next time
    current,    \* the convergers whose plan no commit has overtaken
    events      \* number of events, for the bound

convergers == <<pc, listed, stops, starts, running, deferred, current>>
vars == <<gate, want, st, sub, old, booted, cancelled, booting, draining,
          convergers, events>>

\* "late" is an observer that has not launched its child yet; "hung" is a
\* loop without recent progress; "retired" has stopped its change source.
States  == {"none", "late", "starting", "loop", "run", "hung", "retired"}
Wishes  == {"wanted", "unwanted", "protected"}
Reasons == {"duplicate", "not watching", "not desired"}
Stages  == {"idle", "judge", "wait", "apply"}

Alive(w) == st[w] \notin {"none", "late"}
Healthy(w) == st[w] \in {"starting", "loop"}
Fit(w) == Healthy(w) \/ st[w] = "run"
Owners(k) == {w \in Procs : Alive(w) /\ sub[w] = k}
Stopping(c) == {s[1] : s \in stops[c]}

\* A new process is none that a plan remembers: its birth tells them apart.
Fresh(w) == st[w] = "none" /\ \A c \in Convergers : w \notin listed[c] \cup Stopping(c)

Init ==
    /\ gate = Nobody
    /\ want \in [Keys -> Wishes]
    /\ st = [w \in Procs |-> "none"]
    /\ sub \in {f \in [Procs -> Keys] : \A w, v \in Procs : f[w] = f[v]}
    /\ old = {} /\ booted = {} /\ cancelled = {}
    /\ booting \in SUBSET Keys
    /\ draining = {}
    /\ pc = [c \in Convergers |-> "idle"]
    /\ listed = [c \in Convergers |-> {}]
    /\ stops = [c \in Convergers |-> {}]
    /\ starts = [c \in Convergers |-> {}]
    /\ running = [c \in Convergers |-> {}]
    /\ deferred = [c \in Convergers |-> {}]
    /\ current = {}
    /\ events = 0

Event == events < MaxEvents /\ events' = events + 1

\* A process gets a state; when it ends, nothing is left of it.
Become(w, s) ==
    /\ st' = [st EXCEPT ![w] = s]
    /\ IF s = "none"
       THEN /\ old' = old \ {w}
            /\ booted' = booted \ {w}
            /\ cancelled' = cancelled \ {w}
       ELSE UNCHANGED <<old, booted, cancelled>>

(***************************************************************************)
(* The world.                                                               *)
(***************************************************************************)

Edit(k, wish) ==
    /\ Event
    /\ want[k] # wish
    /\ want' = [want EXCEPT ![k] = wish]
    /\ UNCHANGED <<gate, st, sub, old, booted, cancelled, booting, draining, convergers>>

\* activate_generation() under the gate, as a commit: the watch loops are asked
\* to end, and those with an active run are left to drain.
Pause ==
    /\ Event
    /\ gate = Nobody
    /\ gate' = Activator
    /\ draining' = {w \in Procs : Alive(w) /\ st[w] = "run"}
    /\ current' = {}
    /\ UNCHANGED <<want, st, sub, old, booted, cancelled, booting,
                   pc, listed, stops, starts, running, deferred>>

\* _stop_runtime(): what has not ended in its grace time is terminated.
StopIdle(w) ==
    /\ gate = Activator
    /\ Alive(w) /\ w \notin draining
    /\ Become(w, "none")
    /\ UNCHANGED <<gate, want, sub, booting, draining, convergers, events>>

\* The pointer moves, and every process left is of an older version.
Switch ==
    /\ gate = Activator
    /\ \A w \in Procs : Alive(w) => w \in draining
    /\ old' = {w \in Procs : st[w] # "none"}
    /\ gate' = Nobody
    /\ draining' = {}
    /\ UNCHANGED <<want, st, sub, booted, cancelled, booting, convergers, events>>

\* The activation is refused or dies: its marker no longer pauses anybody.
Abandon ==
    /\ Event
    /\ gate = Activator
    /\ gate' = Nobody
    /\ draining' = {}
    /\ UNCHANGED <<want, st, sub, old, booted, cancelled, booting, convergers>>

Reboot(triggers) ==
    /\ Event
    /\ gate' = Nobody
    /\ st' = [w \in Procs |-> "none"]
    /\ old' = {} /\ booted' = {} /\ cancelled' = {}
    /\ booting' = triggers
    /\ draining' = {}
    /\ pc' = [c \in Convergers |-> "idle"]
    /\ listed' = [c \in Convergers |-> {}]
    /\ stops' = [c \in Convergers |-> {}]
    /\ starts' = [c \in Convergers |-> {}]
    /\ running' = [c \in Convergers |-> {}]
    /\ deferred' = [c \in Convergers |-> {}]
    /\ current' = {}
    /\ UNCHANGED <<want, sub>>

\* `@reboot ... internal watch-supervise`: no gate, no look at other owners.
BootStart(k, w) ==
    /\ k \in booting
    /\ Fresh(w)
    /\ booting' = booting \ {k}
    /\ st' = [st EXCEPT ![w] = "starting"]
    /\ sub' = [sub EXCEPT ![w] = k]
    /\ booted' = booted \cup {w}
    /\ UNCHANGED <<gate, want, old, cancelled, draining, convergers, events>>

(***************************************************************************)
(* A watcher process.                                                       *)
(***************************************************************************)

\* The change source is started, and the loop writes its first progress.
Enter(w) ==
    /\ st[w] = "starting"
    /\ Become(w, "loop")
    /\ UNCHANGED <<gate, want, sub, booting, draining, convergers, events>>

\* Progress stops: for good, or until the next poll.
Hang(w) ==
    /\ Event
    /\ Healthy(w)
    /\ Become(w, "hung")
    /\ UNCHANGED <<gate, want, sub, booting, draining, convergers>>

Recover(w) ==
    /\ st[w] = "hung"
    /\ Become(w, "loop")
    /\ UNCHANGED <<gate, want, sub, booting, draining, convergers, events>>

\* A watch fires: the run lock is taken under the gate (module Dispatch).
BeginRun(w) ==
    /\ st[w] = "loop"
    /\ gate = Nobody
    /\ Become(w, "run")
    /\ UNCHANGED <<gate, want, sub, booting, draining, convergers, events>>

\* The run lock is released; after a long run the progress file is out of
\* date until the next poll.
EndRun(w) ==
    /\ st[w] = "run"
    /\ \E s \in {"loop", "hung"} : Become(w, s)
    /\ UNCHANGED <<gate, want, sub, booting, draining, convergers, events>>

Die(w) ==
    /\ Event
    /\ st[w] # "none"
    /\ Become(w, "none")
    /\ UNCHANGED <<gate, want, sub, booting, draining, convergers>>

\* should_continue() at the top of the loop: an activation pauses watchers ...
Withdraw(w) ==
    /\ st[w] = "loop"
    /\ gate = Activator
    /\ Become(w, "none")
    /\ UNCHANGED <<gate, want, sub, booting, draining, convergers, events>>

\* ... or the runtime is not current.
Retire(w) ==
    /\ st[w] = "loop"
    /\ gate # Activator
    /\ w \in old
    /\ Become(w, "retired")
    /\ UNCHANGED <<gate, want, sub, booting, draining, convergers, events>>

\* _restart_watcher() under the gate, and the retired process ends.
HandOver(w, r) ==
    /\ st[w] = "retired"
    /\ gate = Nobody
    /\ Owners(sub[w]) = {w}
    /\ Fresh(r)
    /\ st' = [st EXCEPT ![w] = "none", ![r] = "starting"]
    /\ sub' = [sub EXCEPT ![r] = sub[w]]
    /\ old' = old \ {w} /\ booted' = booted \ {w} /\ cancelled' = cancelled \ {w}
    /\ UNCHANGED <<gate, want, booting, draining, convergers, events>>

\* The observer of the replacement is late: the retiring process fails and
\* ends, and what it asked for is cancelled.
HandOverLate(w, r) ==
    /\ Event
    /\ st[w] = "retired"
    /\ gate = Nobody
    /\ Owners(sub[w]) = {w}
    /\ Fresh(r)
    /\ st' = [st EXCEPT ![w] = "none", ![r] = "late"]
    /\ sub' = [sub EXCEPT ![r] = sub[w]]
    /\ old' = old \ {w} /\ booted' = booted \ {w}
    /\ cancelled' = (cancelled \ {w}) \cup {r}
    /\ UNCHANGED <<gate, want, booting, draining, convergers>>

\* Another owner is there, or the gate stays busy: no replacement.
LeaveQuietly(w) ==
    /\ st[w] = "retired"
    /\ gate # Nobody \/ Owners(sub[w]) # {w}
    /\ Become(w, "none")
    /\ UNCHANGED <<gate, want, sub, booting, draining, convergers, events>>

\* supervise(): an observer that reads the cancellation launches no child, and
\* one that reads it later terminates the child, whatever that does by then.
LateStart(w) ==
    /\ st[w] = "late"
    /\ Become(w, "starting")
    /\ UNCHANGED <<gate, want, sub, booting, draining, convergers, events>>

LateEnd(w) ==
    /\ w \in cancelled
    /\ Become(w, "none")
    /\ UNCHANGED <<gate, want, sub, booting, draining, convergers, events>>

(***************************************************************************)
(* Convergence.                                                             *)
(***************************************************************************)

\* supervisor.owned(role="watcher")
List(c) ==
    /\ pc[c] = "idle"
    /\ pc' = [pc EXCEPT ![c] = "judge"]
    /\ listed' = [listed EXCEPT ![c] = {w \in Procs : Alive(w)}]
    /\ current' = current \cup {c}
    /\ UNCHANGED <<gate, want, st, sub, old, booted, cancelled, booting, draining,
                   stops, starts, running, deferred, events>>

\* The owner that diff() keeps is of the installed version if one is, and fit
\* if one of those is.
Rank(w) == (IF w \in old THEN 2 ELSE 0) + (IF Fit(w) THEN 0 ELSE 1)
Best(ws) == {w \in ws : \A v \in ws : Rank(w) <= Rank(v)}
OwnersIn(ws, k) == {w \in ws : sub[w] = k}

Wanted == {k \in Keys : want[k] = "wanted"}
Unwanted == {k \in Keys : want[k] = "unwanted"}

\* Faulty variant: an owner is kept whether it makes progress or not.
JudgeByLife(c, keep) ==
    /\ pc[c] = "judge"
    /\ keep \subseteq {w \in listed[c] : sub[w] \in Wanted}
    /\ \A k \in Wanted :
          LET owners == OwnersIn(listed[c], k)
          IN  IF owners = {} THEN OwnersIn(keep, k) = {}
              ELSE \E w \in Best(owners) : OwnersIn(keep, k) = {w}
    /\ stops' = [stops EXCEPT ![c] =
           {<<w, "duplicate">> : w \in {v \in listed[c] \ keep : sub[v] \in Wanted}}
           \cup {<<w, "not desired">> : w \in {v \in listed[c] : sub[v] \in Unwanted}}]
    /\ starts' = [starts EXCEPT ![c] = {k \in Wanted : OwnersIn(keep, k) = {}}]
    /\ listed' = [listed EXCEPT ![c] = {}]
    /\ pc' = [pc EXCEPT ![c] = "wait"]
    /\ UNCHANGED <<gate, want, st, sub, old, booted, cancelled, booting, draining,
                   running, deferred, current, events>>

\* plan() and diff(): one owner is kept for each wanted subscription, and is
\* replaced unless it is healthy or busy.
Judge(c, keep) ==
    /\ pc[c] = "judge"
    /\ keep \subseteq {w \in listed[c] : sub[w] \in Wanted}
    /\ \A k \in Wanted :
          LET owners == OwnersIn(listed[c], k)
          IN  IF owners = {} THEN OwnersIn(keep, k) = {}
              ELSE \E w \in Best(owners) : OwnersIn(keep, k) = {w}
    /\ stops' = [stops EXCEPT ![c] =
           {<<w, "duplicate">> : w \in {v \in listed[c] \ keep : sub[v] \in Wanted}}
           \cup {<<w, "not watching">> : w \in {v \in keep : ~Fit(v)}}
           \cup {<<w, "not desired">> : w \in {v \in listed[c] : sub[v] \in Unwanted}}]
    /\ starts' = [starts EXCEPT ![c] =
           {k \in Wanted : \A w \in OwnersIn(keep, k) : ~Fit(w)}]
    /\ listed' = [listed EXCEPT ![c] = {}]
    /\ pc' = [pc EXCEPT ![c] = "wait"]
    /\ UNCHANGED <<gate, want, st, sub, old, booted, cancelled, booting, draining,
                   running, deferred, current, events>>

\* Faulty variant: commit() trusts what the plan knew of active runs.
EnterGateBlindly(c) ==
    /\ pc[c] = "wait"
    /\ gate = Nobody
    /\ c \in current
    /\ gate' = c
    /\ current' = {c}
    /\ pc' = [pc EXCEPT ![c] = "apply"]
    /\ UNCHANGED <<want, st, sub, old, booted, cancelled, booting, draining,
                   listed, stops, starts, running, deferred, events>>

\* commit(): which of the watchers to stop have an active run, under the
\* gate that a new run needs.  The plans of others are out of date.
EnterGate(c) ==
    /\ pc[c] = "wait"
    /\ gate = Nobody
    /\ c \in current
    /\ gate' = c
    /\ current' = {c}
    /\ running' = [running EXCEPT ![c] = {w \in Stopping(c) : st[w] = "run"}]
    /\ pc' = [pc EXCEPT ![c] = "apply"]
    /\ UNCHANGED <<want, st, sub, old, booted, cancelled, booting, draining,
                   listed, stops, starts, deferred, events>>

\* The gate stays busy, or the plan was overtaken by another commit.
Discard(c) ==
    /\ pc[c] = "wait"
    /\ gate # Nobody \/ c \notin current
    /\ pc' = [pc EXCEPT ![c] = "idle"]
    /\ stops' = [stops EXCEPT ![c] = {}]
    /\ starts' = [starts EXCEPT ![c] = {}]
    /\ current' = current \ {c}
    /\ UNCHANGED <<gate, want, st, sub, old, booted, cancelled, booting, draining,
                   listed, running, deferred, events>>

StopDone(c, s) ==
    /\ pc[c] = "apply"
    /\ s \in stops[c]
    /\ stops' = [stops EXCEPT ![c] = @ \ {s}]

\* "stop deferred: watcher has an active run"
DeferStop(c, s) ==
    /\ StopDone(c, s)
    /\ s[1] \in running[c]
    /\ deferred' = [deferred EXCEPT ![c] = @ \cup {sub[s[1]]}]
    /\ UNCHANGED <<gate, want, st, sub, old, booted, cancelled, booting, draining,
                   pc, listed, starts, running, current, events>>

\* "stop not needed: watcher recovered"
SkipStop(c, s) ==
    /\ StopDone(c, s)
    /\ s[1] \notin running[c]
    /\ s[2] = "not watching" /\ Healthy(s[1])
    /\ UNCHANGED <<gate, want, st, sub, old, booted, cancelled, booting, draining,
                   pc, listed, starts, running, deferred, current, events>>

Terminate(c, s) ==
    /\ StopDone(c, s)
    /\ s[1] \notin running[c]
    /\ ~(s[2] = "not watching" /\ Healthy(s[1]))
    /\ Become(s[1], "none")
    /\ UNCHANGED <<gate, want, sub, booting, draining,
                   pc, listed, starts, running, deferred, current, events>>

\* "watcher did not stop", or the host refuses.
StopFails(c, s) ==
    /\ Event
    /\ StopDone(c, s)
    /\ s[1] \notin running[c]
    /\ UNCHANGED <<gate, want, st, sub, old, booted, cancelled, booting, draining,
                   pc, listed, starts, running, deferred, current>>

\* The operations of one subscription: stops first.
StartDone(c, k) ==
    /\ pc[c] = "apply"
    /\ k \in starts[c]
    /\ \A s \in stops[c] : sub[s[1]] # k
    /\ starts' = [starts EXCEPT ![c] = @ \ {k}]

\* "start deferred", "start not needed", or "replacement deferred:
\* non-watching owner is still alive", which is a failure.
SkipStart(c, k) ==
    /\ StartDone(c, k)
    /\ k \in deferred[c] \/ Owners(k) # {}
    /\ UNCHANGED <<gate, want, st, sub, old, booted, cancelled, booting, draining,
                   pc, listed, stops, running, deferred, current, events>>

\* Faulty variant: the owners are not listed again before a spawn.
SpawnUnseen(c, k, w) ==
    /\ StartDone(c, k)
    /\ k \notin deferred[c]
    /\ Fresh(w)
    /\ st' = [st EXCEPT ![w] = "starting"]
    /\ sub' = [sub EXCEPT ![w] = k]
    /\ UNCHANGED <<gate, want, old, booted, cancelled, booting, draining,
                   pc, listed, stops, running, deferred, current, events>>

Spawn(c, k, w) ==
    /\ StartDone(c, k)
    /\ k \notin deferred[c] /\ Owners(k) = {}
    /\ Fresh(w)
    /\ st' = [st EXCEPT ![w] = "starting"]
    /\ sub' = [sub EXCEPT ![w] = k]
    /\ UNCHANGED <<gate, want, old, booted, cancelled, booting, draining,
                   pc, listed, stops, running, deferred, current, events>>

\* The observer ends before it launches its child, or the host refuses.
StartFails(c, k) ==
    /\ Event
    /\ StartDone(c, k)
    /\ k \notin deferred[c] /\ Owners(k) = {}
    /\ UNCHANGED <<gate, want, st, sub, old, booted, cancelled, booting, draining,
                   pc, listed, stops, running, deferred, current>>

\* "watcher observer startup timed out": the operation fails, the observer is
\* told to give up, and may be about to launch its child.
SpawnLate(c, k, w) ==
    /\ Event
    /\ StartDone(c, k)
    /\ k \notin deferred[c] /\ Owners(k) = {}
    /\ Fresh(w)
    /\ st' = [st EXCEPT ![w] = "late"]
    /\ sub' = [sub EXCEPT ![w] = k]
    /\ cancelled' = cancelled \cup {w}
    /\ UNCHANGED <<gate, want, old, booted, booting, draining,
                   pc, listed, stops, running, deferred, current>>

\* Faulty variant: the gate is not given back.
LeaveLocked(c) ==
    /\ pc[c] = "apply"
    /\ stops[c] = {} /\ starts[c] = {}
    /\ pc' = [pc EXCEPT ![c] = "idle"]
    /\ running' = [running EXCEPT ![c] = {}]
    /\ deferred' = [deferred EXCEPT ![c] = {}]
    /\ current' = current \ {c}
    /\ UNCHANGED <<gate, want, st, sub, old, booted, cancelled, booting, draining,
                   listed, stops, starts, events>>

LeaveGate(c) ==
    /\ pc[c] = "apply"
    /\ stops[c] = {} /\ starts[c] = {}
    /\ gate' = Nobody
    /\ pc' = [pc EXCEPT ![c] = "idle"]
    /\ running' = [running EXCEPT ![c] = {}]
    /\ deferred' = [deferred EXCEPT ![c] = {}]
    /\ current' = current \ {c}
    /\ UNCHANGED <<want, st, sub, old, booted, cancelled, booting, draining,
                   listed, stops, starts, events>>

(***************************************************************************)

Operation(c) ==
    \/ \E s \in stops[c] : DeferStop(c, s) \/ SkipStop(c, s) \/ Terminate(c, s)
    \/ \E k \in starts[c] : SkipStart(c, k) \/ \E w \in Procs : Spawn(c, k, w)
Converge(c) ==
    \/ List(c) \/ EnterGate(c) \/ Discard(c) \/ LeaveGate(c) \/ Operation(c)
    \/ \E keep \in SUBSET listed[c] : Judge(c, keep)

Live(w) ==
    \/ Enter(w) \/ EndRun(w) \/ Withdraw(w) \/ Retire(w) \/ LeaveQuietly(w) \/ LateEnd(w)
    \/ \E r \in Procs : HandOver(w, r)

Environment ==
    \/ Pause \/ Abandon
    \/ \E k \in Keys, wish \in Wishes : Edit(k, wish)
    \/ \E triggers \in SUBSET Keys : Reboot(triggers)
    \/ \E w, r \in Procs : HandOverLate(w, r)
    \/ \E w \in Procs : Hang(w) \/ Recover(w) \/ BeginRun(w) \/ Die(w) \/ LateStart(w)
    \/ \E c \in Convergers :
          \/ \E s \in stops[c] : StopFails(c, s)
          \/ \E k \in starts[c] : StartFails(c, k) \/ \E w \in Procs : SpawnLate(c, k, w)

Activation == Switch \/ \E w \in Procs : StopIdle(w)
Boot == \E k \in Keys, w \in Procs : BootStart(k, w)

Next ==
    \/ Environment \/ Boot \/ Activation
    \/ \E w \in Procs : Live(w)
    \/ \E c \in Convergers : Converge(c)

Spec == Init /\ [][Next]_vars

\* Maintenance recurs and gets the gate some time, a scheduled process takes
\* its next step, runs end by their deadline, boot triggers run, and an
\* activation goes on (its waits have deadlines).
Fairness ==
    /\ WF_vars(Boot)
    /\ WF_vars(Activation)
    /\ \A w \in Procs : WF_vars(Live(w))
    /\ \A c \in Convergers :
          WF_vars(Converge(c)) /\ SF_vars(EnterGate(c))
FairSpec == Spec /\ Fairness

(***************************************************************************)
(* What convergence promises of watchers.                                   *)
(***************************************************************************)

TypeOK ==
    /\ gate \in Convergers \cup {Nobody, Activator}
    /\ want \in [Keys -> Wishes]
    /\ st \in [Procs -> States]
    /\ sub \in [Procs -> Keys]
    /\ old \subseteq Procs /\ booted \subseteq Procs /\ cancelled \subseteq Procs
    /\ booting \subseteq Keys
    /\ draining \subseteq Procs
    /\ pc \in [Convergers -> Stages]
    /\ listed \in [Convergers -> SUBSET Procs]
    /\ stops \in [Convergers -> SUBSET (Procs \X Reasons)]
    /\ starts \in [Convergers -> SUBSET Keys]
    /\ running \in [Convergers -> SUBSET Procs]
    /\ deferred \in [Convergers -> SUBSET Keys]
    /\ current \subseteq Convergers
    /\ events \in 0 .. MaxEvents
    /\ \A c \in Convergers : gate = c <=> pc[c] = "apply"

\* "Each watched definition has one resident watcher process": convergence and
\* handover never make a second one, whatever changed after the plan.  Two
\* are possible only beside one that a boot trigger started.
Resident(w) == Alive(w) /\ w \notin cancelled \cup booted
OneLoop ==
    \A w, v \in Procs : Resident(w) /\ Resident(v) /\ sub[w] = sub[v] => w = v

\* Neither a commit nor an activation terminates a watcher with an active run:
\* each one it could still stop is known to it as running, also when the run
\* began after the plan.
RunsAreDeferred ==
    /\ \A c \in Convergers :
          pc[c] = "apply" =>
              \A w \in Stopping(c) : st[w] = "run" => w \in running[c]
    /\ gate = Activator => \A w \in Procs : st[w] = "run" => w \in draining

\* "maintenance restores missing still-started watchers": when events end and
\* the watch does not fire, a wanted subscription keeps exactly one owner that
\* is watching, and an unwanted one none.
Calm == \A w \in Procs : st[w] # "run"
Served(k) == Cardinality(Owners(k)) = 1 /\ \A w \in Owners(k) : Fit(w)
EventuallyServed ==
    \A k \in Keys :
        /\ <>[](want[k] = "wanted" /\ Calm) => <>[]Served(k)
        /\ <>[](want[k] = "unwanted" /\ Calm) => <>[](Owners(k) = {})

=============================================================================
