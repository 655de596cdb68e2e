----------------------------- MODULE Retention -----------------------------
(***************************************************************************)
(* Retention of run artifacts (obs/retention.py) while runs write them     *)
(* (dispatch.py _scratch, _write_transcript, _discard_if_empty).           *)
(*                                                                         *)
(* A maintenance pass holds no lock here: it reads the markers of active   *)
(* runs once, lists the files, then looks at each and prunes it, and last  *)
(* removes empty directories.  Runs start, write and end meanwhile, other  *)
(* passes do the same, and any process may die.  Time is the age of files  *)
(* and of passes.                                                          *)
(***************************************************************************)
EXTENDS Integers, FiniteSets

CONSTANTS
    Runs,        \* run ids, each used once
    Maintainers, \* maintenance processes
    Period,      \* the retention period
    MaxStall,    \* bound on the time one pass takes
    MaxFaults    \* bound on deaths

ASSUME RetentionAssumption ==
    Period \in Nat /\ MaxStall \in Nat /\ MaxFaults \in Nat

VARIABLES
    run,    \* run id -> how far its process is
    dir,    \* run id -> its directory exists
    marker, \* run id -> the marker .active in it exists
    home,   \* run id -> its provider's directory exists and is empty, for now or for good
    file,   \* run id -> its channel file and its envelope, with their ages
    pass,   \* maintenance process -> its pass
    faults

fileVars == <<dir, marker, home, file>>
vars == <<run, fileVars, pass, faults>>

Kinds == {"channel", "envelope"}
Artifacts == Runs \X Kinds
Old == Period + MaxStall + 1
Ages == 0 .. Old
Nothing == [holds |-> "nothing", age |-> 0]
Files == [holds : {"nothing", "content", "tombstone"}, age : Ages]
Fresh(what) == [holds |-> what, age |-> 0]

\* runs: whose markers, later whose directories, are still to be visited.
\* doomed: the file found expired, if any.
Passes == [pc : {"idle", "markers", "files", "sweep"}, elapsed : 0 .. MaxStall,
           runs : SUBSET Runs, active : SUBSET Runs, todo : SUBSET Artifacts,
           doomed : SUBSET Artifacts]
Resting == [pc |-> "idle", elapsed |-> 0, runs |-> {}, active |-> {}, todo |-> {}, doomed |-> {}]

TypeOK ==
    /\ run \in [Runs -> {"new", "made", "running", "over"}]
    /\ dir \in [Runs -> BOOLEAN] /\ marker \in [Runs -> BOOLEAN] /\ home \in [Runs -> BOOLEAN]
    /\ file \in [Runs -> [Kinds -> Files]]
    /\ pass \in [Maintainers -> Passes]
    /\ faults \in 0 .. MaxFaults

Init ==
    /\ run = [r \in Runs |-> "new"]
    /\ dir = [r \in Runs |-> FALSE] /\ marker = dir /\ home = dir
    /\ file = [r \in Runs |-> [k \in Kinds |-> Nothing]]
    /\ pass = [m \in Maintainers |-> Resting]
    /\ faults = 0

---------------------------------------------------------------------------
(* Runs *)

Goes(r, state) == run' = [run EXCEPT ![r] = state]

\* Both mkdirs, of _scratch and of atomic_write_text.
MakeDirectory(r) ==
    /\ run[r] = "new"
    /\ Goes(r, "made")
    /\ dir' = [dir EXCEPT ![r] = TRUE]
    /\ UNCHANGED <<marker, home, file, pass, faults>>

\* The marker cannot be written where the directory was swept meanwhile.
Mark(r) ==
    /\ run[r] = "made"
    /\ Goes(r, IF dir[r] THEN "running" ELSE "over")
    /\ marker' = [marker EXCEPT ![r] = dir[r]]
    /\ UNCHANGED <<dir, home, file, pass, faults>>

\* _provider_files makes what the provider asked for.
MakeHome(r) ==
    /\ run[r] = "running"
    /\ home' = [home EXCEPT ![r] = TRUE]
    /\ UNCHANGED <<run, dir, marker, file, pass, faults>>

\* A child writes a channel, or dispatch the envelope of an attempt.
Write(r, k) ==
    /\ run[r] = "running"
    /\ file' = [file EXCEPT ![r][k] = Fresh("content")]
    /\ UNCHANGED <<run, dir, marker, home, pass, faults>>

\* The provider's directory goes, the marker, and the directory if empty.
End(r) ==
    /\ run[r] = "running"
    /\ Goes(r, "over")
    /\ marker' = [marker EXCEPT ![r] = FALSE]
    /\ home' = [home EXCEPT ![r] = FALSE]
    /\ dir' = [dir EXCEPT ![r] = file[r]["channel"] # Nothing]
    /\ UNCHANGED <<file, pass, faults>>

DieRun(r) ==
    /\ run[r] \in {"made", "running"}
    /\ faults < MaxFaults /\ faults' = faults + 1
    /\ Goes(r, "over")
    /\ UNCHANGED <<fileVars, pass>>

---------------------------------------------------------------------------
(* A maintenance pass *)

\* The cutoff is taken first: a file has crossed it if it was written more than
\* a period before the pass began.
Begin(m) ==
    /\ pass[m].pc = "idle"
    /\ pass' = [pass EXCEPT ![m] = [Resting EXCEPT !.pc = "markers", !.runs = Runs]]
    /\ UNCHANGED <<run, fileVars, faults>>

\* Faulty variant: the cutoff is taken when a file is looked at.
ExpiredByNow(m, a) == file[a[1]][a[2]].age > Period

Expired(m, a) == file[a[1]][a[2]].age > Period + pass[m].elapsed

\* Faulty variant: the marker of a dead process is passed over.
ReadMarkerOnly(m, r) ==
    /\ pass[m].pc = "markers" /\ r \in pass[m].runs
    /\ LET alive == marker[r] /\ run[r] = "running"
       IN pass' = [pass EXCEPT ![m].runs = @ \ {r},
                               ![m].active = IF alive THEN @ \cup {r} ELSE @]
    /\ UNCHANGED <<run, fileVars, faults>>

\* A marker protects its run while its process lives, and is removed after.
ReadMarker(m, r) ==
    /\ pass[m].pc = "markers" /\ r \in pass[m].runs
    /\ LET alive == marker[r] /\ run[r] = "running"
       IN /\ pass' = [pass EXCEPT ![m].runs = @ \ {r},
                                  ![m].active = IF alive THEN @ \cup {r} ELSE @]
          /\ marker' = [marker EXCEPT ![r] = alive]
    /\ UNCHANGED <<run, dir, home, file, faults>>

List(m) ==
    /\ pass[m].pc = "markers" /\ pass[m].runs = {}
    /\ pass' = [pass EXCEPT ![m].pc = "files",
                            ![m].todo = {a \in Artifacts : file[a[1]][a[2]] # Nothing}]
    /\ UNCHANGED <<run, fileVars, faults>>

Look(m, a) ==
    /\ pass[m].pc = "files" /\ pass[m].doomed = {} /\ a \in pass[m].todo
    /\ pass' = [pass EXCEPT ![m].todo = @ \ {a},
                  ![m].doomed = IF a[1] \notin pass[m].active /\ Expired(m, a) THEN {a} ELSE {}]
    /\ UNCHANGED <<run, fileVars, faults>>

\* An envelope leaves a tombstone, which goes the next time; what another pass
\* has removed stays removed.
Prune(m, a) ==
    /\ pass[m].pc = "files" /\ pass[m].doomed = {a}
    /\ pass' = [pass EXCEPT ![m].doomed = {}]
    /\ file' = [file EXCEPT ![a[1]][a[2]] =
                  IF a[2] = "envelope" /\ @.holds = "content" THEN Fresh("tombstone") ELSE Nothing]
    /\ UNCHANGED <<run, dir, marker, home, faults>>

Visited(m) ==
    /\ pass[m].pc = "files" /\ pass[m].todo = {} /\ pass[m].doomed = {}
    /\ pass' = [pass EXCEPT ![m].pc = "sweep", ![m].runs = Runs]
    /\ UNCHANGED <<run, fileVars, faults>>

\* Every empty directory goes, the deepest first, whether its run is active or not.
Sweep(m, r) ==
    /\ pass[m].pc = "sweep" /\ r \in pass[m].runs
    /\ pass' = [pass EXCEPT ![m].runs = @ \ {r}]
    /\ home' = [home EXCEPT ![r] = FALSE]
    /\ dir' = [dir EXCEPT ![r] = @ /\ (marker[r] \/ file[r]["channel"] # Nothing)]
    /\ UNCHANGED <<run, marker, file, faults>>

Complete(m) ==
    /\ pass[m].pc = "sweep" /\ pass[m].runs = {}
    /\ pass' = [pass EXCEPT ![m] = Resting]
    /\ UNCHANGED <<run, fileVars, faults>>

Die(m) ==
    /\ pass[m].pc # "idle"
    /\ faults < MaxFaults /\ faults' = faults + 1
    /\ pass' = [pass EXCEPT ![m] = Resting]
    /\ UNCHANGED <<run, fileVars>>

---------------------------------------------------------------------------
Older(f) == IF f = Nothing \/ f.age = Old THEN f ELSE [f EXCEPT !.age = @ + 1]

Tick ==
    /\ \A m \in Maintainers : pass[m].elapsed < MaxStall
    /\ file' = [r \in Runs |-> [k \in Kinds |-> Older(file[r][k])]]
    /\ pass' = [m \in Maintainers |->
                  IF pass[m].pc = "idle" THEN pass[m] ELSE [pass[m] EXCEPT !.elapsed = @ + 1]]
    /\ UNCHANGED <<run, dir, marker, home, faults>>

Works(m) ==
    \/ \E r \in Runs : ReadMarker(m, r) \/ Sweep(m, r)
    \/ \E a \in Artifacts : Look(m, a) \/ Prune(m, a)
    \/ List(m) \/ Visited(m) \/ Complete(m)

Runtime(r) ==
    \/ MakeDirectory(r) \/ Mark(r) \/ MakeHome(r) \/ End(r) \/ DieRun(r)
    \/ \E k \in Kinds : Write(r, k)

Next ==
    \/ \E r \in Runs : Runtime(r)
    \/ \E m \in Maintainers : Begin(m) \/ Works(m) \/ Die(m)
    \/ Tick

Spec == Init /\ [][Next]_vars

\* Time goes on, a pass that began goes on, and maintenance is scheduled.
FairSpec ==
    /\ Spec
    /\ WF_vars(Tick)
    /\ \A m \in Maintainers : WF_vars(Works(m))
    /\ WF_vars(\E m \in Maintainers : Begin(m))

---------------------------------------------------------------------------
(* What a run and its readers can rely on *)

\* Retention takes the content of a file only when its run is over and nothing
\* has written the file for a whole period: not from an active run that has been
\* silent for longer than that, and not from a run that began after the markers
\* were read, however long the pass takes (retention.py _maintain_runs, diagnostics.md
\* "Active runs carry a process-owned marker and are never pruned").
PrunedOnlyWhenDue == [][\A r \in Runs, k \in Kinds :
    file[r][k].holds = "content" /\ file'[r][k].holds # "content"
        => run[r] = "over" /\ file[r][k].age > Period]_vars

\* Whatever a run leaves, also one that died, is removed in the end: its files,
\* their tombstones, its marker and its directories (_maintain_runs).
EventuallyGone == \A r \in Runs :
    run[r] = "over" ~> /\ \A k \in Kinds : file[r][k] = Nothing
                       /\ ~dir[r] /\ ~marker[r] /\ ~home[r]
=============================================================================
