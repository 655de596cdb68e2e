--------------------------- MODULE WatchersProofs ---------------------------
(* Safety of watcher processes and their convergence, for any number of     *)
(* processes, subscriptions and convergers.                                 *)
EXTENDS Watchers, TLAPS

\* A process that exists only because its spawner gave up is marked so.
LateIsCancelled == \A w \in Procs : st[w] = "late" => w \in cancelled

\* What a plan remembers to stop are processes.
LEMMA StopsNameProcesses ==
    ASSUME TypeOK, NEW c \in Convergers
    PROVE  /\ \A s \in stops[c] : s[1] \in Procs /\ s[2] \in Reasons
           /\ Stopping(c) \subseteq Procs
<1>1. stops[c] \subseteq Procs \X Reasons
  BY DEF TypeOK
<1>2. \A s \in Procs \X Reasons : s[1] \in Procs /\ s[2] \in Reasons
  OBVIOUS
<1> QED BY <1>1, <1>2 DEF Stopping

\* The operations diff() makes of sets of processes.
LEMMA OperationsAreTyped ==
    ASSUME NEW A \in SUBSET Procs, NEW B \in SUBSET Procs, NEW C \in SUBSET Procs
    PROVE  {<<w, "duplicate">> : w \in A} \cup {<<w, "not watching">> : w \in B}
               \cup {<<w, "not desired">> : w \in C} \in SUBSET (Procs \X Reasons)
<1>1. "duplicate" \in Reasons /\ "not watching" \in Reasons /\ "not desired" \in Reasons
  BY DEF Reasons
<1>2. ASSUME NEW r \in Reasons, NEW D \in SUBSET Procs
      PROVE  {<<w, r>> : w \in D} \subseteq Procs \X Reasons
  <2>1. \A w \in D : <<w, r>> \in Procs \X Reasons
    OBVIOUS
  <2> QED BY <2>1
<1>3. /\ {<<w, "duplicate">> : w \in A} \subseteq Procs \X Reasons
      /\ {<<w, "not watching">> : w \in B} \subseteq Procs \X Reasons
      /\ {<<w, "not desired">> : w \in C} \subseteq Procs \X Reasons
  BY <1>1, <1>2
<1> QED BY <1>3

\* Type correctness of watchers and convergence, and that a converger applies
\* operations exactly while it holds the gate (handoff.gate, commit).
THEOREM TypeCorrect == Spec => []TypeOK
<1>1. Init => TypeOK
  BY WatcherAssumption DEF Init, TypeOK, States, Wishes, Stages
<1>2. TypeOK /\ [Next]_vars => TypeOK'
  <2> SUFFICES ASSUME TypeOK, [Next]_vars PROVE TypeOK'
    OBVIOUS
  <2>0. Event => events' \in 0 .. MaxEvents
    BY WatcherAssumption DEF TypeOK, Event
  <2> USE WatcherAssumption DEF TypeOK, States, Wishes, Reasons, Stages, Become, Alive, StopDone, StartDone
  <2>1. CASE Environment
    <3>1. CASE Pause BY <2>0, <3>1 DEF Pause, convergers
    <3>2. CASE Abandon BY <2>0, <3>2 DEF Abandon, convergers
    <3>3. ASSUME NEW k \in Keys, NEW wish \in Wishes, Edit(k, wish) PROVE TypeOK'
      BY <2>0, <3>3 DEF Edit, convergers
    <3>4. ASSUME NEW triggers \in SUBSET Keys, Reboot(triggers) PROVE TypeOK'
      BY <2>0, <3>4 DEF Reboot
    <3>5. ASSUME NEW w \in Procs, NEW r \in Procs, HandOverLate(w, r) PROVE TypeOK'
      BY <2>0, <3>5 DEF HandOverLate, convergers
    <3>6. ASSUME NEW w \in Procs, Hang(w) PROVE TypeOK'
      BY <2>0, <3>6 DEF Hang, convergers
    <3>7. ASSUME NEW w \in Procs, Recover(w) PROVE TypeOK'
      BY <3>7 DEF Recover, convergers
    <3>8. ASSUME NEW w \in Procs, BeginRun(w) PROVE TypeOK'
      BY <3>8 DEF BeginRun, convergers
    <3>9. ASSUME NEW w \in Procs, Die(w) PROVE TypeOK'
      BY <2>0, <3>9 DEF Die, convergers
    <3>10. ASSUME NEW w \in Procs, LateStart(w) PROVE TypeOK'
      BY <3>10 DEF LateStart, convergers
    <3>11. ASSUME NEW c \in Convergers, NEW s \in stops[c], StopFails(c, s) PROVE TypeOK'
      BY <2>0, <3>11 DEF StopFails
    <3>12. ASSUME NEW c \in Convergers, NEW k \in starts[c], StartFails(c, k) PROVE TypeOK'
      BY <2>0, <3>12 DEF StartFails
    <3>13. ASSUME NEW c \in Convergers, NEW k \in starts[c], NEW w \in Procs, SpawnLate(c, k, w)
           PROVE TypeOK'
      BY <2>0, <3>13 DEF SpawnLate
    <3> QED BY <2>1, <3>1, <3>2, <3>3, <3>4, <3>5, <3>6, <3>7, <3>8, <3>9, <3>10, <3>11, <3>12, <3>13, ZenonT(30)
         DEF Environment
  <2>2. ASSUME NEW k \in Keys, NEW w \in Procs, BootStart(k, w) PROVE TypeOK'
    BY <2>2 DEF BootStart, convergers
  <2>3. CASE Switch BY <2>3 DEF Switch, convergers
  <2>4. ASSUME NEW w \in Procs, StopIdle(w) PROVE TypeOK'
    BY <2>4 DEF StopIdle, convergers
  <2>5. ASSUME NEW w \in Procs, Live(w) PROVE TypeOK'
    <3>1. CASE Enter(w) BY <3>1 DEF Enter, convergers
    <3>2. ASSUME EndRun(w) PROVE TypeOK'
      <4>1. PICK s \in {"loop", "hung"} : Become(w, s)
        BY <3>2 DEF EndRun
      <4>2. st' \in [Procs -> States] /\ UNCHANGED <<old, booted, cancelled>>
        BY <4>1
      <4> QED BY <3>2, <4>2 DEF EndRun, convergers
    <3>3. CASE Withdraw(w) BY <3>3 DEF Withdraw, convergers
    <3>4. CASE Retire(w) BY <3>4 DEF Retire, convergers
    <3>5. CASE LeaveQuietly(w) BY <3>5 DEF LeaveQuietly, convergers
    <3>6. CASE LateEnd(w) BY <3>6 DEF LateEnd, convergers
    <3>7. ASSUME NEW r \in Procs, HandOver(w, r) PROVE TypeOK'
      BY <3>7 DEF HandOver, convergers
    <3> QED BY <2>5, <3>1, <3>2, <3>3, <3>4, <3>5, <3>6, <3>7 DEF Live
  <2>6. ASSUME NEW c \in Convergers, Converge(c) PROVE TypeOK'
    <3>1. CASE List(c) BY <3>1 DEF List
    <3>2. ASSUME EnterGate(c) PROVE TypeOK'
      <4>1. {w \in Stopping(c) : st[w] = "run"} \in SUBSET Procs
        BY StopsNameProcesses
      <4>2. running' \in [Convergers -> SUBSET Procs]
        BY <3>2, <4>1 DEF EnterGate
      <4>3. pc' = [pc EXCEPT ![c] = "apply"] /\ gate' = c /\ gate = Nobody
        BY <3>2 DEF EnterGate
      <4>4. \A d \in Convergers : gate' = d <=> pc'[d] = "apply"
        BY <4>3
      <4>5. pc' \in [Convergers -> Stages] /\ current' = {c}
        BY <3>2 DEF EnterGate
      <4>6. UNCHANGED <<want, st, sub, old, booted, cancelled, booting, draining,
                        listed, stops, starts, deferred, events>>
        BY <3>2 DEF EnterGate
      <4> QED BY <4>2, <4>3, <4>4, <4>5, <4>6
    <3>3. CASE Discard(c) BY <3>3 DEF Discard
    <3>4. CASE LeaveGate(c) BY <3>4 DEF LeaveGate
    <3>5. ASSUME NEW s \in stops[c], DeferStop(c, s) PROVE TypeOK'
      <4>1. s[1] \in Procs
        BY StopsNameProcesses
      <4>2. deferred' \in [Convergers -> SUBSET Keys]
        <5>1. sub[s[1]] \in Keys
          BY <4>1
        <5>2. PICK k : k = sub[s[1]]
          OBVIOUS
        <5>3. deferred' = [deferred EXCEPT ![c] = @ \cup {k}]
          BY <3>5, <5>2 DEF DeferStop
        <5> QED BY <5>1, <5>2, <5>3
      <4>3. stops' \in [Convergers -> SUBSET (Procs \X Reasons)]
        BY <3>5 DEF DeferStop
      <4>4. UNCHANGED <<gate, want, st, sub, old, booted, cancelled, booting, draining,
                        pc, listed, starts, running, current, events>>
        BY <3>5 DEF DeferStop
      <4> QED BY <4>2, <4>3, <4>4
    <3>6. ASSUME NEW s \in stops[c], SkipStop(c, s) PROVE TypeOK'
      BY <3>6 DEF SkipStop
    <3>7. ASSUME NEW s \in stops[c], Terminate(c, s) PROVE TypeOK'
      BY <3>7 DEF Terminate
    <3>8. ASSUME NEW k \in starts[c], SkipStart(c, k) PROVE TypeOK'
      BY <3>8 DEF SkipStart
    <3>9. ASSUME NEW k \in starts[c], NEW w \in Procs, Spawn(c, k, w) PROVE TypeOK'
      BY <3>9 DEF Spawn
    <3>10. ASSUME NEW keep \in SUBSET listed[c], Judge(c, keep) PROVE TypeOK'
      <4> DEFINE duplicates == {v \in listed[c] \ keep : sub[v] \in Wanted}
                 unfit == {v \in keep : ~Fit(v)}
                 undesired == {v \in listed[c] : sub[v] \in Unwanted}
                 plan == {<<w, "duplicate">> : w \in duplicates}
                         \cup {<<w, "not watching">> : w \in unfit}
                         \cup {<<w, "not desired">> : w \in undesired}
      <4>1. duplicates \subseteq Procs /\ unfit \subseteq Procs /\ undesired \subseteq Procs
        OBVIOUS
      <4>2. plan \in SUBSET (Procs \X Reasons)
        BY <4>1, OperationsAreTyped
      <4>3. stops' = [stops EXCEPT ![c] = plan]
        BY <3>10 DEF Judge
      <4>4. stops' \in [Convergers -> SUBSET (Procs \X Reasons)]
        <5> HIDE DEF plan
        <5> QED BY <4>2, <4>3
      <4>5. starts' \in [Convergers -> SUBSET Keys]
        BY <3>10 DEF Judge, Wanted
      <4> HIDE DEF plan, duplicates, unfit, undesired
      <4>6. listed' \in [Convergers -> SUBSET Procs] /\ pc' = [pc EXCEPT ![c] = "wait"]
        BY <3>10 DEF Judge
      <4>7. pc[c] = "judge"
        BY <3>10 DEF Judge
      <4> QED BY <3>10, <4>4, <4>5, <4>6, <4>7 DEF Judge
    <3> QED BY <2>6, <3>1, <3>2, <3>3, <3>4, <3>5, <3>6, <3>7, <3>8, <3>9, <3>10
         DEF Converge, Operation
  <2>7. CASE UNCHANGED vars BY <2>7 DEF vars, convergers
  <2> QED BY <2>1, <2>2, <2>3, <2>4, <2>5, <2>6, <2>7 DEF Next, Boot, Activation
<1> QED BY <1>1, <1>2, PTL DEF Spec

\* Steps by which a watcher goes on or ends make no second owner.
LEMMA BecomeKeepsOne ==
    ASSUME TypeOK, LateIsCancelled, OneLoop, NEW w \in Procs, NEW s \in States \ {"late"},
           Become(w, s), sub' = sub, s = "none" \/ Alive(w) \/ w \in cancelled
    PROVE  LateIsCancelled' /\ OneLoop'
<1>1. st' = [st EXCEPT ![w] = s] /\ st \in [Procs -> States]
  BY DEF Become, TypeOK
<1>2. \A v \in Procs \ {w} : st'[v] = st[v]
                            /\ (v \in cancelled' <=> v \in cancelled)
                            /\ (v \in booted' <=> v \in booted)
  BY <1>1 DEF Become
<1>3. st'[w] = s /\ (s # "none" => cancelled' = cancelled /\ booted' = booted)
  BY <1>1 DEF Become
<1>4. \A v \in Procs : Resident(v)' => Resident(v)
  BY <1>2, <1>3 DEF Resident, Alive
<1>5. LateIsCancelled'
  BY <1>2, <1>3 DEF LateIsCancelled
<1>6. OneLoop'
  BY <1>4 DEF OneLoop
<1> QED BY <1>5, <1>6

\* Steps that leave the processes alone.
LEMMA StillKeepsOne ==
    ASSUME LateIsCancelled, OneLoop, UNCHANGED <<st, sub, booted, cancelled>>
    PROVE  LateIsCancelled' /\ OneLoop'
BY DEF LateIsCancelled, OneLoop, Resident, Alive

\* A watcher that starts where no other is alive is the only one.
LEMMA StartKeepsOne ==
    ASSUME TypeOK, LateIsCancelled, OneLoop, NEW w \in Procs, NEW k \in Keys,
           Owners(k) = {}, st' = [st EXCEPT ![w] = "starting"],
           sub' = [sub EXCEPT ![w] = k], UNCHANGED <<booted, cancelled>>
    PROVE  LateIsCancelled' /\ OneLoop'
<1>1. st \in [Procs -> States] /\ sub \in [Procs -> Keys]
  BY DEF TypeOK
<1>2. /\ st'[w] = "starting" /\ sub'[w] = k
      /\ \A v \in Procs \ {w} : st'[v] = st[v] /\ sub'[v] = sub[v]
  BY <1>1
<1>3. \A v \in Procs : ~(Alive(v) /\ sub[v] = k)
  BY DEF Owners
<1>4. LateIsCancelled'
  BY <1>2 DEF LateIsCancelled
<1>5. OneLoop'
  BY <1>2, <1>3 DEF OneLoop, Resident, Alive
<1> QED BY <1>4, <1>5

\* One whose observer is late, or that a boot trigger started, is not counted.
LEMMA AsideKeepsOne ==
    ASSUME TypeOK, LateIsCancelled, OneLoop, NEW w \in Procs, NEW k \in Keys, NEW s \in States,
           st' = [st EXCEPT ![w] = s], sub' = [sub EXCEPT ![w] = k],
           \/ s = "late" /\ booted' = booted /\ cancelled' = cancelled \cup {w}
           \/ s = "starting" /\ booted' = booted \cup {w} /\ cancelled' = cancelled
    PROVE  LateIsCancelled' /\ OneLoop'
<1>1. st \in [Procs -> States] /\ sub \in [Procs -> Keys]
  BY DEF TypeOK
<1>2. /\ st'[w] = s
      /\ \A v \in Procs \ {w} : st'[v] = st[v] /\ sub'[v] = sub[v]
  BY <1>1
<1>3. LateIsCancelled'
  BY <1>2 DEF LateIsCancelled
<1>4. ~Resident(w)'
  BY <1>2 DEF Resident, Alive
<1>5. \A v \in Procs \ {w} : Resident(v)' => Resident(v)
  BY <1>2 DEF Resident, Alive
<1>6. OneLoop'
  BY <1>2, <1>4, <1>5 DEF OneLoop
<1> QED BY <1>3, <1>6

\* The replacement of a retired watcher that is the only owner.
LEMMA HandOverKeepsOne ==
    ASSUME TypeOK, LateIsCancelled, OneLoop, NEW w \in Procs, NEW r \in Procs,
           HandOver(w, r) \/ HandOverLate(w, r)
    PROVE  LateIsCancelled' /\ OneLoop'
<1>1. st \in [Procs -> States] /\ sub \in [Procs -> Keys]
  BY DEF TypeOK
<1>2. r # w /\ Owners(sub[w]) = {w}
  BY DEF HandOver, HandOverLate, Fresh
<1>3. \A v \in Procs \ {w} : ~(Alive(v) /\ sub[v] = sub[w])
  BY <1>2 DEF Owners
<1>4. /\ st'[w] = "none" /\ sub'[r] = sub[w]
      /\ \A v \in Procs \ {w, r} : st'[v] = st[v] /\ sub'[v] = sub[v]
                                  /\ (v \in cancelled' <=> v \in cancelled)
                                  /\ (v \in booted' <=> v \in booted)
      /\ st'[r] \in {"late", "starting"}
      /\ st'[r] = "late" => r \in cancelled'
  BY <1>1, <1>2 DEF HandOver, HandOverLate
<1>5. LateIsCancelled'
  BY <1>4 DEF LateIsCancelled
<1>6. \A v \in Procs \ {w, r} : Resident(v)' => Resident(v) /\ sub'[v] # sub'[r]
  BY <1>3, <1>4 DEF Resident, Alive
<1>7. ~Resident(w)'
  BY <1>4 DEF Resident, Alive
<1>8. OneLoop'
  BY <1>4, <1>6, <1>7 DEF OneLoop
<1> QED BY <1>5, <1>8

\* Convergence and handover never make a second watcher of a subscription,
\* however plans, deaths, late observers and activations interleave
\* (convergence.commit, internal._restart_watcher).
THEOREM OneWatchLoop == Spec => []OneLoop
<1>1. Init => LateIsCancelled /\ OneLoop
  BY DEF Init, LateIsCancelled, OneLoop, Resident, Alive
<1>2. TypeOK /\ LateIsCancelled /\ OneLoop /\ [Next]_vars => (LateIsCancelled /\ OneLoop)'
  <2> SUFFICES ASSUME TypeOK, LateIsCancelled, OneLoop, [Next]_vars
               PROVE  LateIsCancelled' /\ OneLoop'
    OBVIOUS
  <2>1. CASE Environment
    <3>1. ASSUME Pause \/ Abandon \/ (\E k \in Keys, wish \in Wishes : Edit(k, wish))
                 \/ (\E c \in Convergers : \/ \E s \in stops[c] : StopFails(c, s)
                                           \/ \E k \in starts[c] : StartFails(c, k))
          PROVE  LateIsCancelled' /\ OneLoop'
      <4>1. UNCHANGED <<st, sub, booted, cancelled>>
        BY <3>1 DEF Pause, Abandon, Edit, StopFails, StartFails
      <4> QED BY <4>1, StillKeepsOne
    <3>2. ASSUME NEW triggers \in SUBSET Keys, Reboot(triggers)
          PROVE  LateIsCancelled' /\ OneLoop'
      <4>1. \A w \in Procs : st'[w] = "none"
        BY <3>2 DEF Reboot
      <4> QED BY <4>1 DEF LateIsCancelled, OneLoop, Resident, Alive
    <3>3. ASSUME NEW w \in Procs, NEW r \in Procs, HandOverLate(w, r)
          PROVE  LateIsCancelled' /\ OneLoop'
      BY <3>3, HandOverKeepsOne
    <3>4. ASSUME NEW w \in Procs, Hang(w) \/ Recover(w) \/ BeginRun(w) \/ Die(w) \/ LateStart(w)
          PROVE  LateIsCancelled' /\ OneLoop'
      <4>1. PICK s \in States \ {"late"} :
                Become(w, s) /\ sub' = sub /\ (s = "none" \/ Alive(w) \/ w \in cancelled)
        BY <3>4 DEF Hang, Recover, BeginRun, Die, LateStart, Healthy, Alive, States, LateIsCancelled
      <4> QED BY <4>1, BecomeKeepsOne
    <3>5. ASSUME NEW c \in Convergers, NEW k \in starts[c], NEW w \in Procs, SpawnLate(c, k, w)
          PROVE  LateIsCancelled' /\ OneLoop'
      <4>1. k \in Keys
        BY DEF TypeOK
      <4> QED BY <3>5, <4>1, AsideKeepsOne DEF SpawnLate, States
    <3> QED BY <2>1, <3>1, <3>2, <3>3, <3>4, <3>5 DEF Environment
  <2>2. ASSUME NEW k \in Keys, NEW w \in Procs, BootStart(k, w)
        PROVE  LateIsCancelled' /\ OneLoop'
    BY <2>2, AsideKeepsOne DEF BootStart, States
  <2>3. CASE Switch
    BY <2>3, StillKeepsOne DEF Switch
  <2>4. ASSUME NEW w \in Procs, StopIdle(w) PROVE LateIsCancelled' /\ OneLoop'
    BY <2>4, BecomeKeepsOne DEF StopIdle, States
  <2>5. ASSUME NEW w \in Procs, Live(w) PROVE LateIsCancelled' /\ OneLoop'
    <3>1. ASSUME NEW r \in Procs, HandOver(w, r) PROVE LateIsCancelled' /\ OneLoop'
      BY <3>1, HandOverKeepsOne
    <3>2. ASSUME \/ Enter(w) \/ EndRun(w) \/ Withdraw(w) \/ Retire(w)
                 \/ LeaveQuietly(w) \/ LateEnd(w)
          PROVE  LateIsCancelled' /\ OneLoop'
      <4>1. PICK s \in States \ {"late"} :
                Become(w, s) /\ sub' = sub /\ (s = "none" \/ Alive(w) \/ w \in cancelled)
        BY <3>2 DEF Enter, EndRun, Withdraw, Retire, LeaveQuietly, LateEnd, Alive, States
      <4> QED BY <4>1, BecomeKeepsOne
    <3> QED BY <2>5, <3>1, <3>2 DEF Live
  <2>6. ASSUME NEW c \in Convergers, Converge(c) PROVE LateIsCancelled' /\ OneLoop'
    <3>1. ASSUME NEW k \in starts[c], NEW w \in Procs, Spawn(c, k, w)
          PROVE  LateIsCancelled' /\ OneLoop'
      <4>1. k \in Keys
        BY DEF TypeOK
      <4> QED BY <3>1, <4>1, StartKeepsOne DEF Spawn
    <3>2. ASSUME NEW s \in stops[c], Terminate(c, s) PROVE LateIsCancelled' /\ OneLoop'
      <4>1. s[1] \in Procs
        BY StopsNameProcesses
      <4>2. Become(s[1], "none") /\ sub' = sub
        BY <3>2 DEF Terminate
      <4>3. "none" \in States \ {"late"}
        BY DEF States
      <4> QED BY <4>1, <4>2, <4>3, BecomeKeepsOne
    <3>3. ASSUME \/ List(c) \/ EnterGate(c) \/ Discard(c) \/ LeaveGate(c)
                 \/ \E s \in stops[c] : DeferStop(c, s) \/ SkipStop(c, s)
                 \/ \E k \in starts[c] : SkipStart(c, k)
                 \/ \E keep \in SUBSET listed[c] : Judge(c, keep)
          PROVE  LateIsCancelled' /\ OneLoop'
      <4>1. UNCHANGED <<st, sub, booted, cancelled>>
        BY <3>3 DEF List, EnterGate, Discard, LeaveGate, DeferStop, SkipStop, SkipStart, Judge
      <4> QED BY <4>1, StillKeepsOne
    <3> QED BY <2>6, <3>1, <3>2, <3>3 DEF Converge, Operation
  <2>7. CASE UNCHANGED vars
    BY <2>7, StillKeepsOne DEF vars
  <2> QED BY <2>1, <2>2, <2>3, <2>4, <2>5, <2>6, <2>7 DEF Next, Boot, Activation
<1> QED BY <1>1, <1>2, TypeCorrect, PTL DEF Spec

\* Steps that begin no run and add no stop.
LEMMA NoRunBegins ==
    ASSUME TypeOK, RunsAreDeferred,
           \A w \in Procs : st'[w] = "run" => st[w] = "run",
           \A c \in Convergers : pc'[c] = "apply" =>
               pc[c] = "apply" /\ stops'[c] \subseteq stops[c] /\ running'[c] = running[c],
           gate' = Activator => gate = Activator /\ draining' = draining
    PROVE  RunsAreDeferred'
<1>1. ASSUME NEW c \in Convergers, pc'[c] = "apply", NEW w \in Stopping(c)', st'[w] = "run"
      PROVE  w \in running'[c]
  <2>1. w \in Stopping(c) /\ w \in Procs
    BY <1>1, StopsNameProcesses DEF Stopping
  <2> QED BY <1>1, <2>1 DEF RunsAreDeferred
<1> QED BY <1>1 DEF RunsAreDeferred

\* No commit and no activation terminates a watcher whose run began before the
\* gate was taken: those are known as running, and others cannot begin
\* (handoff.running_watchers, convergence.commit, _stop_runtime).
THEOREM RunsDeferred == Spec => []RunsAreDeferred
<1>1. Init => RunsAreDeferred
  BY WatcherAssumption DEF Init, RunsAreDeferred
<1>2. TypeOK /\ RunsAreDeferred /\ [Next]_vars => RunsAreDeferred'
  <2> SUFFICES ASSUME TypeOK, RunsAreDeferred, [Next]_vars PROVE RunsAreDeferred'
    OBVIOUS
  <2>0. /\ st \in [Procs -> States] /\ pc \in [Convergers -> Stages]
        /\ stops \in [Convergers -> SUBSET (Procs \X Reasons)]
        /\ running \in [Convergers -> SUBSET Procs]
        /\ \A c \in Convergers : gate = c <=> pc[c] = "apply"
    BY DEF TypeOK
  <2>1. CASE Environment
    <3>1. CASE Pause
      <4>1. gate = Nobody /\ UNCHANGED <<pc, st>> /\ draining' = {w \in Procs : st[w] = "run"}
        BY <3>1 DEF Pause, Alive
      <4>2. \A c \in Convergers : pc'[c] # "apply"
        BY <2>0, <4>1, WatcherAssumption
      <4> QED BY <4>1, <4>2 DEF RunsAreDeferred
    <3>2. ASSUME NEW w \in Procs, BeginRun(w) PROVE RunsAreDeferred'
      <4>1. gate = Nobody /\ UNCHANGED <<pc, gate>>
        BY <3>2 DEF BeginRun, convergers
      <4>2. \A c \in Convergers : pc'[c] # "apply"
        BY <2>0, <4>1, WatcherAssumption
      <4> QED BY <4>1, <4>2, WatcherAssumption DEF RunsAreDeferred
    <3>3. ASSUME Abandon \/ \E k \in Keys, wish \in Wishes : Edit(k, wish)
          PROVE  RunsAreDeferred'
      BY <3>3, NoRunBegins, WatcherAssumption DEF Abandon, Edit, convergers
    <3>4. ASSUME NEW triggers \in SUBSET Keys, Reboot(triggers) PROVE RunsAreDeferred'
      BY <3>4, NoRunBegins, WatcherAssumption DEF Reboot
    <3>5. ASSUME NEW w \in Procs, NEW r \in Procs, HandOverLate(w, r) PROVE RunsAreDeferred'
      BY <2>0, <3>5, NoRunBegins DEF HandOverLate, convergers
    <3>6. ASSUME NEW w \in Procs, Hang(w) \/ Recover(w) \/ Die(w) \/ LateStart(w)
          PROVE  RunsAreDeferred'
      BY <2>0, <3>6, NoRunBegins DEF Hang, Recover, Die, LateStart, Become, convergers
    <3>7. ASSUME NEW c \in Convergers, NEW s \in stops[c], StopFails(c, s) PROVE RunsAreDeferred'
      BY <2>0, <3>7, NoRunBegins DEF StopFails, StopDone
    <3>8. ASSUME NEW c \in Convergers, NEW k \in starts[c], StartFails(c, k) PROVE RunsAreDeferred'
      BY <2>0, <3>8, NoRunBegins DEF StartFails
    <3>9. ASSUME NEW c \in Convergers, NEW k \in starts[c], NEW w \in Procs, SpawnLate(c, k, w)
          PROVE  RunsAreDeferred'
      BY <2>0, <3>9, NoRunBegins DEF SpawnLate
    <3> QED BY <2>1, <3>1, <3>2, <3>3, <3>4, <3>5, <3>6, <3>7, <3>8, <3>9 DEF Environment
  <2>2. ASSUME NEW k \in Keys, NEW w \in Procs, BootStart(k, w) PROVE RunsAreDeferred'
    BY <2>0, <2>2, NoRunBegins DEF BootStart, convergers
  <2>3. CASE Switch
    BY <2>3, NoRunBegins, WatcherAssumption DEF Switch, convergers
  <2>4. ASSUME NEW w \in Procs, StopIdle(w) PROVE RunsAreDeferred'
    BY <2>0, <2>4, NoRunBegins DEF StopIdle, Become, convergers
  <2>5. ASSUME NEW w \in Procs, Live(w) PROVE RunsAreDeferred'
    <3>1. ASSUME NEW r \in Procs, HandOver(w, r) PROVE RunsAreDeferred'
      BY <2>0, <3>1, NoRunBegins DEF HandOver, convergers
    <3>2. ASSUME \/ Enter(w) \/ EndRun(w) \/ Withdraw(w) \/ Retire(w)
                 \/ LeaveQuietly(w) \/ LateEnd(w)
          PROVE  RunsAreDeferred'
      <4>1. PICK s \in States \ {"run"} : st' = [st EXCEPT ![w] = s]
        BY <3>2 DEF Enter, EndRun, Withdraw, Retire, LeaveQuietly, LateEnd, Become, States
      <4>2. UNCHANGED <<gate, draining, convergers>>
        BY <3>2 DEF Enter, EndRun, Withdraw, Retire, LeaveQuietly, LateEnd
      <4> QED BY <2>0, <4>1, <4>2, NoRunBegins DEF convergers
    <3> QED BY <2>5, <3>1, <3>2 DEF Live
  <2>6. ASSUME NEW c \in Convergers, Converge(c) PROVE RunsAreDeferred'
    <3>1. CASE EnterGate(c)
      <4>1. /\ gate = Nobody /\ gate' = c /\ UNCHANGED <<st, stops>>
            /\ running' = [running EXCEPT ![c] = {w \in Stopping(c) : st[w] = "run"}]
            /\ pc' = [pc EXCEPT ![c] = "apply"]
        BY <3>1 DEF EnterGate
      <4>2. \A d \in Convergers \ {c} : pc'[d] # "apply"
        BY <2>0, <4>1, WatcherAssumption
      <4>3. \A w \in Stopping(c)' : st'[w] = "run" => w \in running'[c]
        BY <2>0, <4>1 DEF Stopping
      <4> QED BY <4>1, <4>2, <4>3, WatcherAssumption DEF RunsAreDeferred
    <3>2. CASE List(c) BY <2>0, <3>2, NoRunBegins DEF List
    <3>3. CASE Discard(c) BY <2>0, <3>3, NoRunBegins DEF Discard
    <3>4. CASE LeaveGate(c) BY <2>0, <3>4, NoRunBegins, WatcherAssumption DEF LeaveGate
    <3>5. ASSUME NEW s \in stops[c], DeferStop(c, s) \/ SkipStop(c, s) PROVE RunsAreDeferred'
      BY <2>0, <3>5, NoRunBegins DEF DeferStop, SkipStop, StopDone
    <3>6. ASSUME NEW s \in stops[c], Terminate(c, s) PROVE RunsAreDeferred'
      BY <2>0, <3>6, NoRunBegins DEF Terminate, StopDone, Become
    <3>7. ASSUME NEW k \in starts[c], SkipStart(c, k) PROVE RunsAreDeferred'
      BY <2>0, <3>7, NoRunBegins DEF SkipStart
    <3>8. ASSUME NEW k \in starts[c], NEW w \in Procs, Spawn(c, k, w) PROVE RunsAreDeferred'
      BY <2>0, <3>8, NoRunBegins DEF Spawn
    <3>9. ASSUME NEW keep \in SUBSET listed[c], Judge(c, keep) PROVE RunsAreDeferred'
      <4>1. pc' = [pc EXCEPT ![c] = "wait"] /\ UNCHANGED <<gate, st, draining, running>>
        BY <3>9 DEF Judge
      <4>2. \A d \in Convergers \ {c} : stops'[d] = stops[d]
        BY <2>0, <3>9 DEF Judge
      <4> QED BY <2>0, <4>1, <4>2, NoRunBegins
    <3> QED BY <2>6, <3>1, <3>2, <3>3, <3>4, <3>5, <3>6, <3>7, <3>8, <3>9
         DEF Converge, Operation
  <2>7. CASE UNCHANGED vars
    BY <2>7, NoRunBegins DEF vars, convergers
  <2> QED BY <2>1, <2>2, <2>3, <2>4, <2>5, <2>6, <2>7 DEF Next, Boot, Activation
<1> QED BY <1>1, <1>2, TypeCorrect, PTL DEF Spec

=============================================================================
