------------------------------ MODULE WatchLoop ------------------------------
(***************************************************************************)
(* A watcher on Windows: the loop that decides when an agent is fired       *)
(* (runtime/watchloop.py) over directory watches whose reader threads put   *)
(* changes into one bounded queue (runtime/hosts/windows_watch.py).         *)
(*                                                                          *)
(* Changes are lost on purpose: by the kernel when its buffer is full, by a *)
(* reader when the queue is full, by a rescan that reaches its limit, by    *)
(* the limit on dispatches.  The first two are made good by a rescan.       *)
(*                                                                          *)
(* Time is kept as what is left of each wait, so it may go on for ever.     *)
(***************************************************************************)
EXTENDS Naturals, Sequences, FiniteSets

CONSTANTS
    Files,         \* paths below the watched directories
    Dirs,          \* watched directories
    DirOf,         \* file -> its watched directory
    Matching,      \* files that are not ignored and match the expression
    QueueLimit,    \* QUEUE_LIMIT
    BufferLimit,   \* records that fit the kernel's buffer
    RescanLimit,   \* RESCAN_FILE_LIMIT
    MaxDispatches, \* max_dispatches
    Window,        \* window_s
    Debounce,      \* debounce_ms
    IdleCheck,     \* idle_check_s
    MaxChanges     \* bound on the changes to files

ASSUME WatchLoopAssumption ==
    /\ DirOf \in [Files -> Dirs] /\ Matching \subseteq Files
    /\ QueueLimit \in Nat \ {0} /\ BufferLimit \in Nat /\ RescanLimit \in Nat
    /\ MaxDispatches \in Nat \ {0} /\ Window \in Nat \ {0}
    /\ Debounce \in Nat /\ IdleCheck \in Nat \ {0} /\ MaxChanges \in Nat

VARIABLES
    exists,     \* the files there are
    changes,    \* changes made so far
    kernel,     \* directory -> records not read yet, and whether some were given up
    reader,     \* directory -> what its thread does
    names,      \* directory -> records its thread has yet to offer
    events,     \* the queue
    dropped,    \* directories whose watch has its dropped flag set
    overflowed, \* _overflowed
    paths,      \* what poll has collected
    pc,         \* where the loop is
    wait,       \* what is left of poll's timeout
    pending,    \* pending
    quiet,      \* what is left until deadline, or NoDeadline
    ages,       \* dispatches, as the time since each
    retired,    \* should_continue answers no
    owed,       \* history: changed files that no run has been fired for
    lost,       \* history: files dropped by a limit that is reported or known
    unheard     \* history: removed files that a rescan could not find

kernelVars == <<exists, changes, kernel, owed, lost, unheard>>
readerVars == <<reader, names, events, dropped>>
loopVars == <<overflowed, paths, pc, wait, pending, quiet, ages>>
vars == <<kernelVars, readerVars, loopVars, retired>>

NoDeadline == Debounce + 1
Lesser(a, b) == IF a < b THEN a ELSE b
Path(f) == [kind |-> "path", value |-> f]
Overflow(d) == [kind |-> "overflow", value |-> d]
Failed(d) == [kind |-> "failed", value |-> d]
Stopped(d) == [kind |-> "stopped", value |-> d]
Events == UNION {{Path(f) : f \in Files}, {Overflow(d) : d \in Dirs},
                 {Failed(d) : d \in Dirs}, {Stopped(d) : d \in Dirs}}
Queued == {events[i] : i \in DOMAIN events}
Full == Len(events) = QueueLimit
Looping == {"check", "poll", "drain", "flags", "rescan", "take", "decide", "run"}

TypeOK ==
    /\ exists \subseteq Files /\ changes \in 0 .. MaxChanges
    /\ kernel \in [Dirs -> [records : SUBSET Files, lost : BOOLEAN]]
    /\ reader \in [Dirs -> {"new", "open", "read", "offer", "mark", "fail", "gone"}]
    /\ names \in [Dirs -> SUBSET Files]
    /\ Queued \subseteq Events /\ Len(events) <= QueueLimit
    /\ dropped \subseteq Dirs /\ overflowed \subseteq Dirs
    /\ paths \subseteq Files /\ pending \subseteq Matching
    /\ pc \in Looping \cup {"start", "stop", "join", "stopped"}
    /\ wait \in 0 .. IdleCheck /\ quiet \in 0 .. NoDeadline
    /\ ages \in Seq(0 .. Window) /\ Len(ages) <= MaxDispatches
    /\ retired \in BOOLEAN
    /\ owed \subseteq Matching /\ lost \subseteq Files /\ unheard \subseteq Files

Init ==
    /\ exists \in SUBSET Files
    /\ changes = 0
    /\ kernel = [d \in Dirs |-> [records |-> {}, lost |-> FALSE]]
    /\ reader = [d \in Dirs |-> "new"]
    /\ names = [d \in Dirs |-> {}]
    /\ events = <<>>
    /\ dropped = {} /\ overflowed = {} /\ paths = {} /\ pending = {}
    /\ pc = "start"
    /\ wait = 0
    /\ quiet = NoDeadline
    /\ ages = <<>>
    /\ retired = FALSE
    /\ owed = {} /\ lost = {} /\ unheard = {}

---------------------------------------------------------------------------
(* The files and the kernel *)

\* The kernel records a change of a watched directory, or gives up what it
\* has when the buffer is full.
Recorded(d, f) ==
    IF kernel[d].lost \/ Cardinality(kernel[d].records \cup {f}) > BufferLimit
      THEN [records |-> {}, lost |-> TRUE]
      ELSE [kernel[d] EXCEPT !.records = @ \cup {f}]

\* A file is written, created or removed, by a run or by anyone.
Change(f) ==
    LET d == DirOf[f]
    IN /\ changes < MaxChanges /\ changes' = changes + 1
       /\ exists' \in {exists \cup {f}, exists \ {f}}
       /\ exists' # exists \/ f \in exists
       /\ IF reader[d] \in {"read", "offer", "mark"}
            THEN /\ kernel' = [kernel EXCEPT ![d] = Recorded(d, f)]
                 /\ owed' = owed \cup ({f} \cap Matching)
                 /\ lost' = lost \ {f} /\ unheard' = unheard \ {f}
            ELSE UNCHANGED <<kernel, owed, lost, unheard>>
       /\ UNCHANGED <<readerVars, loopVars, retired>>

---------------------------------------------------------------------------
(* A reader thread *)

Reads(d, stage) == reader' = [reader EXCEPT ![d] = stage]

Opens(d) ==
    /\ reader[d] = "open"
    /\ \E stage \in {"read", "fail"} : Reads(d, stage)
    /\ UNCHANGED <<kernelVars, names, events, dropped, loopVars, retired>>

\* What the reader does when it has offered what was left.
Onward(left) == IF left = {} THEN "read" ELSE "offer"

\* Faulty variant: a full queue is not remembered.
OfferAndForget(d, item, left) ==
    /\ events' = IF Full THEN events ELSE Append(events, item)
    /\ Reads(d, Onward(left))

\* Queue an event, unless the queue is full: that is remembered in a step of
\* its own, before which the loop may empty the queue.
Offer(d, item, left) ==
    IF Full THEN Reads(d, "mark") /\ UNCHANGED events
    ELSE events' = Append(events, item) /\ Reads(d, Onward(left))

Mark(d) ==
    /\ reader[d] = "mark"
    /\ dropped' = dropped \cup {d}
    /\ Reads(d, Onward(names[d]))
    /\ UNCHANGED <<kernelVars, names, events, loopVars, retired>>

\* A read completes: with records, or with none because some were given up.
ReadCompletes(d) ==
    /\ reader[d] = "read"
    /\ \/ /\ kernel[d].lost
          /\ Offer(d, Overflow(d), {})
          /\ UNCHANGED names
       \/ /\ kernel[d].records # {}
          /\ names' = [names EXCEPT ![d] = kernel[d].records]
          /\ Reads(d, "offer")
          /\ UNCHANGED events
    /\ kernel' = [kernel EXCEPT ![d] = [records |-> {}, lost |-> FALSE]]
    /\ UNCHANGED <<exists, changes, owed, lost, unheard, dropped, loopVars, retired>>

OfferNext(d) == \E f \in names[d] :
    /\ reader[d] = "offer"
    /\ Offer(d, Path(f), names[d] \ {f})
    /\ names' = [names EXCEPT ![d] = @ \ {f}]
    /\ UNCHANGED <<kernelVars, dropped, loopVars, retired>>

\* The directory goes away, or a read fails.
ReadFails(d) ==
    /\ reader[d] = "read"
    /\ Reads(d, "fail")
    /\ UNCHANGED <<kernelVars, names, events, dropped, loopVars, retired>>

\* The one event a reader waits for room for.
Fail(d) ==
    /\ reader[d] = "fail" /\ ~Full
    /\ events' = Append(events, Failed(d))
    /\ Reads(d, "gone")
    /\ UNCHANGED <<kernelVars, names, dropped, loopVars, retired>>

\* _stop is seen between reads, and cancels a pending one.
Leave(d) ==
    /\ pc \in {"join", "stopped"} /\ reader[d] = "read"
    /\ Reads(d, "gone")
    /\ UNCHANGED <<kernelVars, names, events, dropped, loopVars, retired>>

Reader(d) ==
    \/ Opens(d) \/ ReadCompletes(d) \/ OfferNext(d) \/ Mark(d) \/ Fail(d) \/ Leave(d)

---------------------------------------------------------------------------
(* poll *)

Goes(stage) == pc' = stage

StartSource ==
    /\ pc = "start"
    /\ reader' = [d \in Dirs |-> "open"]
    /\ Goes("check")
    /\ UNCHANGED <<kernelVars, names, events, dropped, overflowed, paths, wait,
                   pending, quiet, ages, retired>>

\* Each round the loop asks whether it should go on, and how long to wait.
Check ==
    /\ pc = "check"
    /\ IF retired THEN Goes("stop") /\ UNCHANGED wait
       ELSE /\ Goes("poll")
            /\ wait' = IF quiet = NoDeadline THEN IdleCheck ELSE Lesser(IdleCheck, quiet)
    /\ UNCHANGED <<kernelVars, readerVars, overflowed, paths, pending, quiet, ages, retired>>

\* _take of the oldest event; a failure ends the watch.
Take(next) ==
    LET item == Head(events)
    IN /\ events' = Tail(events)
       /\ paths' = IF item.kind = "path" THEN paths \cup {item.value} ELSE paths
       /\ overflowed' = IF item.kind = "overflow" THEN overflowed \cup {item.value}
                        ELSE overflowed
       /\ Goes(IF item.kind = "failed" THEN "stop" ELSE next)

Get ==
    /\ pc \in {"poll", "drain"} /\ events # <<>>
    /\ Take("drain")
    /\ UNCHANGED <<kernelVars, reader, names, dropped, wait, pending, quiet, ages, retired>>

Drained ==
    /\ pc = "drain" /\ events = <<>>
    /\ Goes("flags")
    /\ UNCHANGED <<kernelVars, readerVars, overflowed, paths, wait, pending, quiet, ages, retired>>

\* Faulty variant: the flags are looked at only when something was waiting.
NothingComesAtAll ==
    /\ pc = "poll" /\ events = <<>> /\ wait = 0
    /\ Goes("take")
    /\ UNCHANGED <<kernelVars, readerVars, overflowed, paths, wait, pending, quiet, ages, retired>>

NothingComes ==
    /\ pc = "poll" /\ events = <<>> /\ wait = 0
    /\ Goes("flags")
    /\ UNCHANGED <<kernelVars, readerVars, overflowed, paths, wait, pending, quiet, ages, retired>>

LookAtFlags ==
    /\ pc = "flags"
    /\ overflowed' = overflowed \cup dropped
    /\ dropped' = {}
    /\ Goes(IF overflowed' = {} THEN "take" ELSE "rescan")
    /\ UNCHANGED <<kernelVars, reader, names, events, paths, wait, pending, quiet, ages, retired>>

\* The files there are below the overflowed directories, up to the limit.
Rescan ==
    LET there == {f \in exists : DirOf[f] \in overflowed}
        missed == {f \in owed : DirOf[f] \in overflowed}
    IN /\ pc = "rescan"
       /\ \E found \in SUBSET there :
            /\ Cardinality(found) = Lesser(Cardinality(there), RescanLimit)
            /\ paths' = paths \cup found
            /\ lost' = lost \cup ((missed \cap there) \ found)
       /\ unheard' = unheard \cup (missed \ there)
       /\ overflowed' = {}
       /\ Goes("take")
       /\ UNCHANGED <<exists, changes, kernel, owed, readerVars, wait, pending, quiet, ages, retired>>

---------------------------------------------------------------------------
(* Debounce and dispatch *)

\* Every matching change moves the deadline.
Collect ==
    /\ pc = "take"
    /\ pending' = pending \cup (paths \cap Matching)
    /\ quiet' = IF paths \cap Matching = {} THEN quiet ELSE Debounce
    /\ paths' = {}
    /\ Goes("decide")
    /\ UNCHANGED <<kernelVars, readerVars, overflowed, wait, ages, retired>>

NotYet ==
    /\ pc = "decide" /\ quiet # 0
    /\ Goes("check")
    /\ UNCHANGED <<kernelVars, readerVars, overflowed, paths, wait, pending, quiet, ages, retired>>

\* Dispatches older than the window are forgotten.
Recent == SelectSeq(ages, LAMBDA age : age < Window)

Fire ==
    /\ pc = "decide" /\ quiet = 0
    /\ pending # {} /\ Len(Recent) < MaxDispatches
    /\ ages' = Append(Recent, 0)
    /\ owed' = owed \ pending
    /\ pending' = {} /\ quiet' = NoDeadline
    /\ Goes("run")
    /\ UNCHANGED <<exists, changes, kernel, lost, unheard, readerVars,
                   overflowed, paths, wait, retired>>

\* fire returns; the loop does not look at the outcome.
RunEnds ==
    /\ pc = "run"
    /\ Goes("check")
    /\ UNCHANGED <<kernelVars, readerVars, overflowed, paths, wait, pending, quiet, ages, retired>>

\* Over the limit what is pending is dropped.
OverLimit ==
    /\ pc = "decide" /\ quiet = 0
    /\ Len(Recent) >= MaxDispatches
    /\ ages' = Recent
    /\ lost' = lost \cup pending
    /\ pending' = {} /\ quiet' = NoDeadline
    /\ Goes("check")
    /\ UNCHANGED <<exists, changes, kernel, owed, unheard, readerVars,
                   overflowed, paths, wait, retired>>

---------------------------------------------------------------------------
(* The end of a watch *)

\* Faulty variant: the sentinel waits for room.
StopWithRoom ==
    /\ pc = "stop" /\ ~Full
    /\ \E d \in Dirs : events' = Append(events, Stopped(d))
    /\ Goes("join")
    /\ UNCHANGED <<kernelVars, reader, names, dropped, overflowed, paths, wait,
                   pending, quiet, ages, retired>>

\* The readers are told to stop; a full queue needs no sentinel.
Stop ==
    /\ pc = "stop"
    /\ \/ ~Full /\ \E d \in Dirs : events' = Append(events, Stopped(d))
       \/ Full /\ UNCHANGED events
    /\ Goes("join")
    /\ UNCHANGED <<kernelVars, reader, names, dropped, overflowed, paths, wait,
                   pending, quiet, ages, retired>>

\* join(2) of each reader; the process ends, and the daemons with it.
Joined ==
    /\ pc = "join"
    /\ Goes("stopped")
    /\ UNCHANGED <<kernelVars, readerVars, overflowed, paths, wait, pending, quiet, ages, retired>>

Retire ==
    /\ ~retired /\ retired' = TRUE
    /\ UNCHANGED <<kernelVars, readerVars, loopVars>>

Older(t) == IF t = 0 THEN 0 ELSE t - 1

\* A unit of time passes; it waits for nobody.
Tick ==
    /\ pc \in Looping
    /\ wait' = Older(wait)
    /\ quiet' = IF quiet = NoDeadline THEN quiet ELSE Older(quiet)
    /\ ages' = [i \in DOMAIN ages |-> Lesser(ages[i] + 1, Window)]
    /\ UNCHANGED <<kernelVars, readerVars, overflowed, paths, pc, pending, retired>>

Loop ==
    \/ StartSource \/ Check \/ Get \/ Drained \/ NothingComes \/ LookAtFlags \/ Rescan
    \/ Collect \/ NotYet \/ Fire \/ RunEnds \/ OverLimit
    \/ Stop \/ Joined

Next ==
    \/ Loop \/ Tick \/ Retire
    \/ \E f \in Files : Change(f)
    \/ \E d \in Dirs : Reader(d) \/ ReadFails(d)

\* Threads are scheduled, time passes, and a run ends at its deadline.
Fairness ==
    /\ WF_vars(Loop) /\ WF_vars(Tick)
    /\ \A d \in Dirs : WF_vars(Reader(d))

Spec == Init /\ [][Next]_vars
FairSpec == Spec /\ Fairness

---------------------------------------------------------------------------
(* What a watched file's owner can rely on *)

\* Something on the way to a run still leads to f: a record, an event, what
\* is pending, or a mark that will be answered by a rescan of its directory.
Carried(f) ==
    LET d == DirOf[f]
    IN \/ f \in kernel[d].records \cup names[d] \cup paths \cup pending
       \/ Path(f) \in Queued
       \/ kernel[d].lost
       \/ reader[d] = "mark" \/ d \in dropped \cup overflowed
       \/ Overflow(d) \in Queued

\* A change of a matching file is never lost without a cause: while the loop
\* goes on it is carried towards a run, or a limit dropped it, or the file was
\* removed before a rescan looked for it (DirectoryWatch._offer, poll, rescan).
LossHasACause == pc \in Looping =>
    \A f \in owed : Carried(f) \/ f \in lost \cup unheard

\* A change of a file that stays is followed by a run that was told of it, or
\* dropped by a limit, unless the watch ends: also when the queue overflows
\* just after the loop has drained it and no other change follows.
EventuallyFired == \A f \in Matching :
    (f \in owed) ~> (f \notin owed \/ f \in lost \cup unheard \/ pc = "stopped")

\* A watch that is retired or has failed ends, however full the queue is and
\* whatever its readers wait for (stop).
StopEnds == (pc = "stop") ~> (pc = "stopped")
=============================================================================
