-------------------------- MODULE RetentionProofs --------------------------
(***************************************************************************)
(* Retention takes nothing before it is due, for any number of runs and    *)
(* concurrent passes, any period and any stall.                            *)
(*                                                                         *)
(* The argument: a run that is going on and that a pass has not noted as   *)
(* active has started after the pass read its marker, hence after the      *)
(* cutoff; all its files are younger than the pass, so none is found       *)
(* expired.  A file found expired is of a run that is over, which nothing  *)
(* writes any more.                                                        *)
(***************************************************************************)
EXTENDS Retention, TLAPS

\* A run's files are written under its marker.
MarkedRuns == \A r \in Runs :
    /\ run[r] = "running" => marker[r]
    /\ run[r] \in {"new", "made"} => \A k \in Kinds : file[r][k] = Nothing

\* What a pass has not noted as active is younger than the pass.
YoungRuns == \A m \in Maintainers, r \in Runs :
    pass[m].pc \in {"markers", "files"} /\ run[r] = "running" /\ r \notin pass[m].active
        /\ (pass[m].pc = "markers" => r \notin pass[m].runs)
    => \A k \in Kinds : file[r][k].age <= pass[m].elapsed

\* What a pass is about to prune is due.
DoomedIsDue == \A m \in Maintainers, r \in Runs, k \in Kinds :
    <<r, k>> \in pass[m].doomed =>
        /\ run[r] = "over"
        /\ file[r][k].holds = "content" => file[r][k].age > Period

IInv == TypeOK /\ MarkedRuns /\ YoungRuns /\ DoomedIsDue

---------------------------------------------------------------------------
(* One step *)

\* Init establishes the invariant.
LEMMA InitIInv == Init => IInv
  BY RetentionAssumption, SMT DEF Init, IInv, TypeOK, MarkedRuns, YoungRuns, DoomedIsDue, Files, Ages, Old,
     Nothing, Resting, Passes, Kinds, Artifacts

\* Ageing keeps what a file holds; its age grows by at most one, and not at all
\* for a file that is not there.
LEMMA OlderIsOlder ==
    ASSUME NEW f \in Files
    PROVE  /\ Older(f) \in Files /\ Older(f).holds = f.holds
           /\ Older(f).age \in {f.age, f.age + 1} /\ Older(f).age >= f.age
           /\ f = Nothing => Older(f) = Nothing
  <1>1. f.age \in Ages /\ f.holds \in {"nothing", "content", "tombstone"}
    BY DEF Files
  <1>2. CASE f = Nothing \/ f.age = Old
    BY <1>1, <1>2, RetentionAssumption DEF Older, Ages, Old
  <1>3. CASE f # Nothing /\ f.age # Old
    <2>1. Older(f) = [f EXCEPT !.age = f.age + 1]
      BY <1>3 DEF Older
    <2>2. f.age + 1 \in Ages
      BY <1>1, <1>3, RetentionAssumption DEF Ages, Old
    <2>3. Older(f) \in Files /\ Older(f).holds = f.holds /\ Older(f).age = f.age + 1
      BY <2>1, <2>2, <1>1 DEF Files
    <2>4. QED BY <2>3, <1>1, <1>3 DEF Ages
  <1>4. QED BY <1>2, <1>3

\* Runs: they write only while they are marked, and begin with nothing.
LEMMA RuntimeKeeps ==
    ASSUME IInv, NEW r \in Runs, Runtime(r)
    PROVE  IInv'
  <1> USE DEF IInv, fileVars
  <1>1. CASE MakeDirectory(r)
    <2>1. TypeOK' BY <1>1 DEF MakeDirectory, Goes, TypeOK
    <2>2. MarkedRuns' BY <1>1 DEF MakeDirectory, Goes, TypeOK, MarkedRuns
    <2>3. YoungRuns' BY <1>1 DEF MakeDirectory, Goes, TypeOK, YoungRuns
    <2>4. DoomedIsDue' BY <1>1 DEF MakeDirectory, Goes, TypeOK, DoomedIsDue
    <2>5. QED BY <2>1, <2>2, <2>3, <2>4
  <1>2. CASE Mark(r)
    <2>1. TypeOK' BY <1>2 DEF Mark, Goes, TypeOK
    <2>2. MarkedRuns' BY <1>2 DEF Mark, Goes, TypeOK, MarkedRuns
    <2>3. YoungRuns'
      <3> SUFFICES ASSUME NEW m \in Maintainers, NEW q \in Runs, run'[q] = "running",
                          pass[m].pc \in {"markers", "files"}, q \notin pass[m].active,
                          pass[m].pc = "markers" => q \notin pass[m].runs,
                          NEW k \in Kinds
                   PROVE  file[q][k].age <= pass[m].elapsed
        BY <1>2 DEF Mark, YoungRuns
      <3>1. CASE q = r
        <4>1. file[q][k].age = 0 BY <3>1, <1>2 DEF Mark, MarkedRuns, Nothing
        <4>2. pass[m].elapsed >= 0 BY RetentionAssumption DEF TypeOK, Passes
        <4>3. QED BY <4>1, <4>2
      <3>2. CASE q # r
        BY <3>2, <1>2 DEF Mark, Goes, TypeOK, YoungRuns
      <3>3. QED BY <3>1, <3>2
    <2>4. DoomedIsDue' BY <1>2 DEF Mark, Goes, TypeOK, DoomedIsDue
    <2>5. QED BY <2>1, <2>2, <2>3, <2>4
  <1>3. CASE MakeHome(r)
    BY <1>3 DEF MakeHome, TypeOK, MarkedRuns, YoungRuns, DoomedIsDue
  <1>4. ASSUME NEW k \in Kinds, Write(r, k) PROVE IInv'
    <2>0. Fresh("content") \in Files /\ Fresh("content").age = 0
      BY RetentionAssumption DEF Fresh, Files, Ages, Old
    <2>1. TypeOK' BY <1>4, <2>0 DEF Write, TypeOK
    <2>2. MarkedRuns' BY <1>4 DEF Write, TypeOK, MarkedRuns
    <2>3. YoungRuns'
      <3> SUFFICES ASSUME NEW m \in Maintainers, NEW q \in Runs, run[q] = "running",
                          pass[m].pc \in {"markers", "files"}, q \notin pass[m].active,
                          pass[m].pc = "markers" => q \notin pass[m].runs,
                          NEW j \in Kinds
                   PROVE  file'[q][j].age <= pass[m].elapsed
        BY <1>4 DEF Write, YoungRuns
      <3>1. pass[m].elapsed >= 0 BY RetentionAssumption DEF TypeOK, Passes
      <3>2. file'[q][j] = Fresh("content") \/ file'[q][j] = file[q][j]
        BY <1>4 DEF Write, TypeOK
      <3>3. QED BY <3>1, <3>2, <2>0 DEF YoungRuns
    <2>4. DoomedIsDue'
      BY <1>4 DEF Write, TypeOK, DoomedIsDue
    <2>5. QED BY <2>1, <2>2, <2>3, <2>4
  <1>5. CASE End(r)
    <2>1. TypeOK' BY <1>5 DEF End, Goes, TypeOK
    <2>2. MarkedRuns' BY <1>5 DEF End, Goes, TypeOK, MarkedRuns
    <2>3. YoungRuns' BY <1>5 DEF End, Goes, TypeOK, YoungRuns
    <2>4. DoomedIsDue' BY <1>5 DEF End, Goes, TypeOK, DoomedIsDue
    <2>5. QED BY <2>1, <2>2, <2>3, <2>4
  <1>6. CASE DieRun(r)
    <2>1. TypeOK' BY <1>6, RetentionAssumption DEF DieRun, Goes, TypeOK
    <2>2. MarkedRuns' BY <1>6 DEF DieRun, Goes, TypeOK, MarkedRuns
    <2>3. YoungRuns' BY <1>6 DEF DieRun, Goes, TypeOK, YoungRuns
    <2>4. DoomedIsDue' BY <1>6 DEF DieRun, Goes, TypeOK, DoomedIsDue
    <2>5. QED BY <2>1, <2>2, <2>3, <2>4
  <1>7. QED BY <1>1, <1>2, <1>3, <1>4, <1>5, <1>6 DEF Runtime

\* Passes: what they find expired is of a run that is over.
LEMMA PassKeeps ==
    ASSUME IInv, NEW m \in Maintainers, Begin(m) \/ Works(m) \/ Die(m)
    PROVE  IInv'
  <1> USE DEF IInv, fileVars
  <1>1. CASE Begin(m)
    <2>1. TypeOK'
      <3>1. Resting \in Passes BY RetentionAssumption DEF Resting, Passes
      <3>2. [Resting EXCEPT !.pc = "markers", !.runs = Runs] \in Passes
        BY <3>1 DEF Passes
      <3>3. QED BY <3>2, <1>1 DEF Begin, TypeOK
    <2>2. MarkedRuns' BY <1>1 DEF Begin, MarkedRuns
    <2>3. YoungRuns' BY <1>1 DEF Begin, Resting, TypeOK, YoungRuns
    <2>4. DoomedIsDue' BY <1>1 DEF Begin, Resting, TypeOK, DoomedIsDue
    <2>5. QED BY <2>1, <2>2, <2>3, <2>4
  <1>2. ASSUME NEW r \in Runs, ReadMarker(m, r) PROVE IInv'
    <2>1. TypeOK'
      <3> DEFINE noted == IF marker[r] /\ run[r] = "running"
                            THEN pass[m].active \cup {r} ELSE pass[m].active
      <3>1. pass[m] \in Passes BY DEF TypeOK
      <3>2. [pass[m] EXCEPT !.runs = pass[m].runs \ {r}, !.active = noted] \in Passes
        BY <3>1 DEF Passes
      <3>3. pass' = [pass EXCEPT ![m] = [pass[m] EXCEPT !.runs = pass[m].runs \ {r}, !.active = noted]]
        BY <3>1, <1>2 DEF ReadMarker, Passes
      <3>4. (marker[r] /\ run[r] = "running") \in BOOLEAN OBVIOUS
      <3>5. marker' \in [Runs -> BOOLEAN] BY <3>4, <1>2 DEF ReadMarker, TypeOK
      <3>6. QED BY <3>2, <3>3, <3>5, <1>2 DEF ReadMarker, TypeOK
    <2>2. MarkedRuns' BY <1>2 DEF ReadMarker, TypeOK, MarkedRuns
    <2>3. YoungRuns'
      <3> SUFFICES ASSUME NEW n \in Maintainers, NEW q \in Runs, run[q] = "running",
                          pass'[n].pc \in {"markers", "files"}, q \notin pass'[n].active,
                          pass'[n].pc = "markers" => q \notin pass'[n].runs,
                          NEW k \in Kinds
                   PROVE  file[q][k].age <= pass'[n].elapsed
        BY <1>2 DEF ReadMarker, YoungRuns
      <3>1. ~(n = m /\ q = r)
        BY <1>2 DEF ReadMarker, TypeOK, MarkedRuns, Passes
      <3>2. QED BY <3>1, <1>2 DEF ReadMarker, TypeOK, Passes, YoungRuns
    <2>4. DoomedIsDue' BY <1>2 DEF ReadMarker, TypeOK, Passes, DoomedIsDue
    <2>5. QED BY <2>1, <2>2, <2>3, <2>4
  <1>3. ASSUME NEW r \in Runs, Sweep(m, r) PROVE IInv'
    <2>1. TypeOK'
      <3>1. pass[m] \in Passes BY DEF TypeOK
      <3>2. [pass[m] EXCEPT !.runs = pass[m].runs \ {r}] \in Passes
        BY <3>1 DEF Passes
      <3>3. pass' = [pass EXCEPT ![m] = [pass[m] EXCEPT !.runs = pass[m].runs \ {r}]]
        BY <3>1, <1>3 DEF Sweep, Passes
      <3>4. home' \in [Runs -> BOOLEAN] /\ dir' \in [Runs -> BOOLEAN]
        <4>1. dir \in [Runs -> BOOLEAN] /\ home \in [Runs -> BOOLEAN] /\ marker[r] \in BOOLEAN
          BY DEF TypeOK
        <4>2. home' = [home EXCEPT ![r] = FALSE]
          BY <1>3 DEF Sweep
        <4>3. dir' = [dir EXCEPT ![r] = dir[r] /\ (marker[r] \/ file[r]["channel"] # Nothing)]
          BY <1>3 DEF Sweep
        <4>4. home' \in [Runs -> BOOLEAN]
          BY <4>1, <4>2
        <4>5. dir' \in [Runs -> BOOLEAN]
          BY <4>1, <4>3
        <4>6. QED BY <4>4, <4>5
      <3>5. QED BY <3>2, <3>3, <3>4, <1>3 DEF Sweep, TypeOK
    <2>2. MarkedRuns' BY <1>3 DEF Sweep, MarkedRuns
    <2>3. YoungRuns' BY <1>3 DEF Sweep, TypeOK, Passes, YoungRuns
    <2>4. DoomedIsDue' BY <1>3 DEF Sweep, TypeOK, Passes, DoomedIsDue
    <2>5. QED BY <2>1, <2>2, <2>3, <2>4
  <1>4. ASSUME NEW r \in Runs, NEW k \in Kinds, Look(m, <<r, k>>) PROVE IInv'
    <2> DEFINE a == <<r, k>>
    <2>1. TypeOK'
      <3> DEFINE found == IF r \notin pass[m].active /\ Expired(m, a) THEN {a} ELSE {}
      <3>1. pass[m] \in Passes BY DEF TypeOK
      <3>2. found \in SUBSET Artifacts BY DEF Artifacts
      <3>3. [pass[m] EXCEPT !.todo = pass[m].todo \ {a}, !.doomed = found] \in Passes
        BY <3>1, <3>2 DEF Passes
      <3>4. pass' = [pass EXCEPT ![m] = [pass[m] EXCEPT !.todo = pass[m].todo \ {a}, !.doomed = found]]
        BY <3>1, <1>4 DEF Look, Passes
      <3>5. QED BY <3>3, <3>4, <1>4 DEF Look, TypeOK
    <2>2. MarkedRuns' BY <1>4 DEF Look, MarkedRuns
    <2>3. YoungRuns' BY <1>4 DEF Look, TypeOK, Passes, YoungRuns
    <2>4. ASSUME r \notin pass[m].active, Expired(m, a)
          PROVE  run[r] = "over" /\ file[r][k].age > Period
      <3>1. file[r][k].age > Period + pass[m].elapsed BY <2>4 DEF Expired
      <3>2. /\ pass[m].elapsed \in Nat /\ file[r][k].age \in Nat
            /\ run[r] \in {"new", "made", "running", "over"}
        BY RetentionAssumption DEF TypeOK, Passes, Files, Ages, Old
      <3>3. pass[m].pc = "files" BY <1>4 DEF Look
      <3>4. run[r] # "running"
        BY <3>1, <3>2, <3>3, <2>4, RetentionAssumption DEF YoungRuns
      <3>5. run[r] \notin {"new", "made"}
        BY <3>1, <3>2, RetentionAssumption DEF MarkedRuns, Nothing
      <3>6. QED BY <3>1, <3>2, <3>4, <3>5, RetentionAssumption
    <2>5. DoomedIsDue' BY <1>4, <2>4 DEF Look, TypeOK, Passes, DoomedIsDue
    <2>6. QED BY <2>1, <2>2, <2>3, <2>5
  <1>5. ASSUME NEW r \in Runs, NEW k \in Kinds, Prune(m, <<r, k>>) PROVE IInv'
    <2>0. /\ Fresh("tombstone") \in Files /\ Nothing \in Files
          /\ Fresh("tombstone").age = 0 /\ Nothing.age = 0
          /\ Fresh("tombstone").holds # "content" /\ Nothing.holds # "content"
      BY RetentionAssumption DEF Fresh, Nothing, Files, Ages, Old
    <2>1. TypeOK'
      <3>1. pass[m] \in Passes BY DEF TypeOK
      <3>2. [pass[m] EXCEPT !.doomed = {}] \in Passes
        BY <3>1 DEF Passes
      <3>3. pass' = [pass EXCEPT ![m] = [pass[m] EXCEPT !.doomed = {}]]
        BY <3>1, <1>5 DEF Prune, Passes
      <3>4. \E new \in Files : file' = [file EXCEPT ![r][k] = new]
        <4>1. file' = [file EXCEPT ![r][k] =
                         IF k = "envelope" /\ @.holds = "content" THEN Fresh("tombstone") ELSE Nothing]
          BY <1>5 DEF Prune
        <4>2. (IF k = "envelope" /\ file[r][k].holds = "content" THEN Fresh("tombstone") ELSE Nothing) \in Files
          BY <2>0
        <4>3. QED BY <4>1, <4>2
      <3>5. file' \in [Runs -> [Kinds -> Files]]
        BY <3>4 DEF TypeOK
      <3>6. QED BY <3>2, <3>3, <3>5, <1>5 DEF Prune, TypeOK
    <2>2. run[r] = "over" BY <1>5 DEF Prune, DoomedIsDue
    <2>3. MarkedRuns' BY <1>5, <2>2 DEF Prune, TypeOK, MarkedRuns
    <2>4. YoungRuns' BY <1>5, <2>2 DEF Prune, TypeOK, Passes, YoungRuns
    <2>5. DoomedIsDue'
      <3> SUFFICES ASSUME NEW n \in Maintainers, NEW q \in Runs, NEW j \in Kinds,
                          <<q, j>> \in pass'[n].doomed
                   PROVE  run[q] = "over" /\ (file'[q][j].holds = "content" => file'[q][j].age > Period)
        BY <1>5 DEF Prune, DoomedIsDue
      <3>1. <<q, j>> \in pass[n].doomed BY <1>5 DEF Prune, TypeOK, Passes
      <3>2. file'[q][j] = file[q][j] \/ file'[q][j] \in {Fresh("tombstone"), Nothing}
        BY <1>5 DEF Prune, TypeOK
      <3>3. QED BY <3>1, <3>2, <2>0 DEF DoomedIsDue
    <2>6. QED BY <2>1, <2>3, <2>4, <2>5
  <1>6. CASE List(m)
    <2>1. TypeOK'
      <3> DEFINE there == {a \in Artifacts : file[a[1]][a[2]] # Nothing}
      <3>1. pass[m] \in Passes BY DEF TypeOK
      <3>2. there \in SUBSET Artifacts OBVIOUS
      <3> HIDE DEF there
      <3>3. [pass[m] EXCEPT !.pc = "files", !.todo = there] \in Passes
        BY <3>1, <3>2 DEF Passes
      <3>4. pass' = [pass EXCEPT ![m] = [pass[m] EXCEPT !.pc = "files", !.todo = there]]
        BY <3>1, <1>6 DEF List, Passes, there
      <3>5. QED BY <3>3, <3>4, <1>6 DEF List, TypeOK
    <2>2. MarkedRuns' BY <1>6 DEF List, MarkedRuns
    <2>3. YoungRuns' BY <1>6 DEF List, TypeOK, Passes, YoungRuns
    <2>4. DoomedIsDue' BY <1>6 DEF List, TypeOK, Passes, DoomedIsDue
    <2>5. QED BY <2>1, <2>2, <2>3, <2>4
  <1>7. CASE Visited(m)
    <2>1. TypeOK'
      <3>1. pass[m] \in Passes BY DEF TypeOK
      <3>2. [pass[m] EXCEPT !.pc = "sweep", !.runs = Runs] \in Passes
        BY <3>1 DEF Passes
      <3>3. pass' = [pass EXCEPT ![m] = [pass[m] EXCEPT !.pc = "sweep", !.runs = Runs]]
        BY <3>1, <1>7 DEF Visited, Passes
      <3>4. QED BY <3>2, <3>3, <1>7 DEF Visited, TypeOK
    <2>2. MarkedRuns' BY <1>7 DEF Visited, MarkedRuns
    <2>3. YoungRuns' BY <1>7 DEF Visited, TypeOK, Passes, YoungRuns
    <2>4. DoomedIsDue' BY <1>7 DEF Visited, TypeOK, Passes, DoomedIsDue
    <2>5. QED BY <2>1, <2>2, <2>3, <2>4
  <1>8. CASE Complete(m) \/ Die(m)
    <2>1. TypeOK'
      <3>1. Resting \in Passes BY RetentionAssumption DEF Resting, Passes
      <3>2. pass' \in [Maintainers -> Passes] BY <3>1, <1>8 DEF Complete, Die, TypeOK
      <3>3. faults' \in 0 .. MaxFaults BY <1>8, RetentionAssumption DEF Complete, Die, TypeOK
      <3>4. QED BY <3>2, <3>3, <1>8 DEF Complete, Die, TypeOK
    <2>2. MarkedRuns' BY <1>8 DEF Complete, Die, MarkedRuns
    <2>3. YoungRuns' BY <1>8 DEF Complete, Die, Resting, TypeOK, YoungRuns
    <2>4. DoomedIsDue' BY <1>8 DEF Complete, Die, Resting, TypeOK, DoomedIsDue
    <2>5. QED BY <2>1, <2>2, <2>3, <2>4
  <1>9. QED BY <1>1, <1>2, <1>3, <1>4, <1>5, <1>6, <1>7, <1>8 DEF Works, Artifacts

\* Time: files age as the passes do.
LEMMA TickKeeps ==
    ASSUME IInv, Tick
    PROVE  IInv'
  <1> USE DEF IInv
  <1>1. ASSUME NEW r \in Runs, NEW k \in Kinds
        PROVE  /\ file[r][k] \in Files /\ file'[r][k] = Older(file[r][k])
               /\ file'[r][k] \in Files /\ file'[r][k].holds = file[r][k].holds
               /\ file'[r][k].age \in {file[r][k].age, file[r][k].age + 1}
               /\ file'[r][k].age >= file[r][k].age
               /\ file[r][k] = Nothing => file'[r][k] = Nothing
               /\ file[r][k].age \in Nat
    <2>1. file[r][k] \in Files /\ file'[r][k] = Older(file[r][k])
      BY Tick, TypeOK DEF Tick, TypeOK
    <2>2. file[r][k].age \in Nat BY <2>1, RetentionAssumption DEF Files, Ages, Old
    <2>3. QED BY <2>1, <2>2, OlderIsOlder
  <1>2. ASSUME NEW m \in Maintainers
        PROVE  /\ pass[m] \in Passes /\ pass'[m] \in Passes
               /\ pass'[m].pc = pass[m].pc /\ pass'[m].runs = pass[m].runs
               /\ pass'[m].active = pass[m].active /\ pass'[m].doomed = pass[m].doomed
               /\ pass[m].pc # "idle" => pass'[m].elapsed = pass[m].elapsed + 1
               /\ pass[m].elapsed \in Nat
    <2>1. pass[m] \in Passes /\ pass[m].elapsed < MaxStall
      BY DEF Tick, TypeOK
    <2>2. pass'[m] = IF pass[m].pc = "idle" THEN pass[m]
                     ELSE [pass[m] EXCEPT !.elapsed = pass[m].elapsed + 1]
      BY DEF Tick
    <2>3. QED BY <2>1, <2>2, RetentionAssumption DEF Passes
  <1>3. TypeOK'
    <2>1. file' \in [Runs -> [Kinds -> Files]] BY <1>1 DEF Tick
    <2>2. pass' \in [Maintainers -> Passes] BY <1>2 DEF Tick
    <2>3. QED BY <2>1, <2>2 DEF Tick, TypeOK
  <1>4. MarkedRuns' BY <1>1 DEF Tick, MarkedRuns
  <1>5. YoungRuns' BY <1>1, <1>2 DEF Tick, YoungRuns
  <1>6. DoomedIsDue' BY <1>1, <1>2, RetentionAssumption DEF Tick, DoomedIsDue
  <1>7. QED BY <1>3, <1>4, <1>5, <1>6

LEMMA NextKeeps == IInv /\ [Next]_vars => IInv'
  <1> SUFFICES ASSUME IInv, [Next]_vars PROVE IInv'
    OBVIOUS
  <1>1. CASE UNCHANGED vars
    BY <1>1 DEF vars, fileVars, IInv, TypeOK, MarkedRuns, YoungRuns, DoomedIsDue
  <1>2. CASE Next
    BY <1>2, RuntimeKeeps, PassKeeps, TickKeeps DEF Next
  <1>3. QED BY <1>1, <1>2

---------------------------------------------------------------------------
(* Theorems *)

LEMMA Invariance == Spec => []IInv
  BY InitIInv, NextKeeps, PTL DEF Spec

\* Runs, files and passes keep their types.
THEOREM TypeCorrect == Spec => []TypeOK
  BY Invariance, PTL DEF IInv

\* A step that takes the content of a file is one of Prune, on a doomed file.
LEMMA OnlyPrunes ==
    ASSUME IInv, [Next]_vars, NEW r \in Runs, NEW k \in Kinds,
           file[r][k].holds = "content", file'[r][k].holds # "content"
    PROVE  \E m \in Maintainers : <<r, k>> \in pass[m].doomed
  <1>1. Next BY DEF vars, fileVars
  <1>2. ASSUME NEW q \in Runs, Runtime(q) PROVE FALSE
    BY <1>2 DEF Runtime, MakeDirectory, Mark, MakeHome, Write, End, DieRun, fileVars, Fresh, IInv, TypeOK
  <1>3. ASSUME NEW m \in Maintainers, Begin(m) \/ Works(m) \/ Die(m)
        PROVE  <<r, k>> \in pass[m].doomed
    <2>1. PICK a \in Artifacts : Prune(m, a)
      BY <1>3 DEF Begin, Works, Die, ReadMarker, Sweep, Look, List, Visited, Complete, fileVars
    <2>2. a = <<r, k>>
      BY <2>1 DEF Prune, Artifacts, IInv, TypeOK
    <2>3. QED BY <2>1, <2>2 DEF Prune
  <1>4. CASE Tick
    <2>1. file[r][k] \in Files /\ file'[r][k] = Older(file[r][k])
      BY <1>4 DEF Tick, IInv, TypeOK
    <2>2. QED BY <2>1, OlderIsOlder
  <1>5. QED BY <1>1, <1>2, <1>3, <1>4 DEF Next

\* Retention never takes the content of a file of an active run, nor of a file
\* written within the period, whatever runs and passes do meanwhile.
THEOREM PruningIsDue == Spec => PrunedOnlyWhenDue
  <1>1. IInv /\ [Next]_vars => [\A r \in Runs, k \in Kinds :
            file[r][k].holds = "content" /\ file'[r][k].holds # "content"
                => run[r] = "over" /\ file[r][k].age > Period]_vars
    BY OnlyPrunes DEF IInv, DoomedIsDue
  <1>2. QED BY <1>1, Invariance, PTL DEF Spec, PrunedOnlyWhenDue
=============================================================================
