------------------------------- MODULE Budget -------------------------------
(***************************************************************************)
(* The dispatch budget of one repository (runtime/budget.py): a JSON file   *)
(* of timestamps under a lock file that is created exclusively, broken when *)
(* it is older than thirty seconds, and unlinked by path.  A claim that     *)
(* cannot use the file is allowed: the budget fails open.                   *)
(*                                                                          *)
(* One unit of time is the age at which a lock may be broken (30 s); the    *)
(* window is then two units.                                                *)
(***************************************************************************)
EXTENDS Naturals, FiniteSets

CONSTANTS
    Claimers,  \* dispatching processes, each claims once
    Limit,     \* claims allowed in a window
    Window,    \* length of the window
    MaxTime,   \* bound on the clock
    Unlocked   \* the lock file does not exist

ASSUME BudgetAssumption ==
    /\ Limit \in Nat \ {0} /\ Window \in Nat \ {0} /\ MaxTime \in Nat
    /\ Unlocked \notin Nat

VARIABLES
    now,        \* time.time()
    lockfile,   \* modification time of dispatch-budget.json.lock
    ledger,     \* the list in dispatch-budget.json, as <<claimer, instant>>
    phase,      \* where each claimer is
    instant,    \* the time a claimer's claim began
    kept,       \* the entries a claimer read and did not discard
    verdict,    \* allowed and counted, refused, or allowed uncounted ("open")
    granted,    \* history: the entries of the claims counted and allowed
    broken,     \* history: some lock was broken by its age
    overtaken   \* history: some claimer discarded an entry later than its own

budgetVars == <<now, lockfile, ledger, phase, instant, kept, verdict,
                granted, broken, overtaken>>

Time == 0 .. MaxTime
Entries == Claimers \X Time
Inside == {"count", "save", "unlock"}
Phases == {"idle", "acquire", "break", "done", "dead"} \cup Inside
Verdicts == {"none", "allowed", "refused", "open"}

Enters(c, ph) == phase' = [phase EXCEPT ![c] = ph]
Answer(c, v) == verdict' = [verdict EXCEPT ![c] = v]
Entry(c) == <<c, instant[c]>>

\* The entries that the claim made at time t keeps.
InWindow(entries, t) == {e \in entries : t < e[2] + Window /\ e[2] <= t}

BudgetInit ==
    /\ now = 0
    /\ lockfile = Unlocked
    /\ ledger = {}
    /\ phase = [c \in Claimers |-> "idle"]
    /\ instant = [c \in Claimers |-> 0]
    /\ kept = [c \in Claimers |-> {}]
    /\ verdict = [c \in Claimers |-> "none"]
    /\ granted = {}
    /\ broken = FALSE
    /\ overtaken = FALSE

Tick ==
    /\ now < MaxTime
    /\ now' = now + 1
    /\ UNCHANGED <<lockfile, ledger, phase, instant, kept, verdict,
                   granted, broken, overtaken>>

Begin(c) ==
    /\ phase[c] = "idle"
    /\ instant' = [instant EXCEPT ![c] = now]
    /\ Enters(c, "acquire")
    /\ UNCHANGED <<now, lockfile, ledger, kept, verdict, granted, broken, overtaken>>

\* Faulty variant: the lock file is opened without O_EXCL.
AcquireAnyway(c) ==
    /\ phase[c] = "acquire"
    /\ lockfile' = now
    /\ Enters(c, "count")
    /\ UNCHANGED <<now, ledger, instant, kept, verdict, granted, broken, overtaken>>

\* os.open(O_CREAT | O_EXCL) succeeds.
Acquire(c) ==
    /\ phase[c] = "acquire"
    /\ lockfile = Unlocked
    /\ lockfile' = now
    /\ Enters(c, "count")
    /\ UNCHANGED <<now, ledger, instant, kept, verdict, granted, broken, overtaken>>

\* The file exists and its age says stale.  The unlink is a later step.
FindStale(c) ==
    /\ phase[c] = "acquire"
    /\ lockfile # Unlocked
    /\ now > lockfile + 1
    /\ Enters(c, "break")
    /\ UNCHANGED <<now, lockfile, ledger, instant, kept, verdict,
                   granted, broken, overtaken>>

\* unlink(missing_ok=True): whatever lock is at the path by now.
Break(c) ==
    /\ phase[c] = "break"
    /\ lockfile' = Unlocked
    /\ broken' = TRUE
    /\ Enters(c, "acquire")
    /\ UNCHANGED <<now, ledger, instant, kept, verdict, granted, overtaken>>

\* Faulty variant: polling has no deadline.
GiveUpNever(c) ==
    /\ phase[c] = "acquire"
    /\ FALSE
    /\ UNCHANGED budgetVars

\* Two seconds of polling a lock that is not stale: TimeoutError, fail open.
GiveUp(c) ==
    /\ phase[c] = "acquire"
    /\ lockfile # Unlocked
    /\ now <= lockfile + 1
    /\ Enters(c, "done")
    /\ Answer(c, "open")
    /\ UNCHANGED <<now, lockfile, ledger, instant, kept, granted, broken, overtaken>>

\* os.open, the write into the new file, or the unlink of a stale one raises:
\* fail open, without the finally clause.  A new file may stay.
CannotLock(c) ==
    /\ phase[c] \in {"acquire", "break"}
    /\ lockfile' \in {lockfile, IF lockfile = Unlocked THEN now ELSE lockfile}
    /\ Enters(c, "done")
    /\ Answer(c, "open")
    /\ UNCHANGED <<now, ledger, instant, kept, granted, broken, overtaken>>

\* Faulty variant: entries that left the window still count.
CountForever(c) ==
    /\ phase[c] = "count"
    /\ kept' = [kept EXCEPT ![c] = {e \in ledger : e[2] <= instant[c]}]
    /\ overtaken' = (overtaken \/ \E e \in ledger : e[2] > instant[c])
    /\ Enters(c, "save")
    /\ UNCHANGED <<now, lockfile, ledger, instant, verdict, granted, broken>>

Count(c) ==
    /\ phase[c] = "count"
    /\ kept' = [kept EXCEPT ![c] = InWindow(ledger, instant[c])]
    /\ overtaken' = (overtaken \/ \E e \in ledger : e[2] > instant[c])
    /\ Enters(c, "save")
    /\ UNCHANGED <<now, lockfile, ledger, instant, verdict, granted, broken>>

\* Faulty variant: one claim more than the limit.
SaveOneMore(c) ==
    /\ phase[c] = "save"
    /\ LET allowed == Cardinality(kept[c]) <= Limit
           new == IF allowed THEN {Entry(c)} ELSE {}
       IN  /\ ledger' = kept[c] \cup new
           /\ granted' = granted \cup new
           /\ Answer(c, IF allowed THEN "allowed" ELSE "refused")
    /\ Enters(c, "unlock")
    /\ UNCHANGED <<now, lockfile, instant, kept, broken, overtaken>>

\* os.replace of the file that was written: the kept entries, and this one
\* when it is allowed.  A refusal also writes.
Save(c) ==
    /\ phase[c] = "save"
    /\ LET allowed == Cardinality(kept[c]) < Limit
           new == IF allowed THEN {Entry(c)} ELSE {}
       IN  /\ ledger' = kept[c] \cup new
           /\ granted' = granted \cup new
           /\ Answer(c, IF allowed THEN "allowed" ELSE "refused")
    /\ Enters(c, "unlock")
    /\ UNCHANGED <<now, lockfile, instant, kept, broken, overtaken>>

\* The file cannot be read, decoded or replaced: fail open, still unlock.
Fail(c) ==
    /\ phase[c] \in {"count", "save"}
    /\ Answer(c, "open")
    /\ Enters(c, "unlock")
    /\ UNCHANGED <<now, lockfile, ledger, instant, kept, granted, broken, overtaken>>

\* The finally clause unlinks the path, whoever made the file there.
Unlock(c) ==
    /\ phase[c] = "unlock"
    /\ lockfile' = Unlocked
    /\ kept' = [kept EXCEPT ![c] = {}]
    /\ Enters(c, "done")
    /\ UNCHANGED <<now, ledger, instant, verdict, granted, broken, overtaken>>

ClaimerCrash(c) ==
    /\ phase[c] \in {"acquire", "break"} \cup Inside
    /\ Enters(c, "dead")
    /\ kept' = [kept EXCEPT ![c] = {}]
    /\ UNCHANGED <<now, lockfile, ledger, instant, verdict, granted, broken, overtaken>>

Step(c) ==
    \/ Acquire(c) \/ FindStale(c) \/ Break(c) \/ GiveUp(c)
    \/ Count(c) \/ Save(c) \/ Fail(c) \/ Unlock(c)

BudgetNext == Tick \/ \E c \in Claimers : Begin(c) \/ Step(c) \/ CannotLock(c) \/ ClaimerCrash(c)

BudgetSpec == BudgetInit /\ [][BudgetNext]_budgetVars

\* A claimer that is scheduled goes on; every wait of it has a deadline.
FairBudgetSpec == BudgetSpec /\ \A c \in Claimers : WF_budgetVars(Step(c))

(***************************************************************************)
(* What the budget promises.                                                *)
(***************************************************************************)

BudgetTypeOK ==
    /\ now \in Time
    /\ lockfile \in Time \cup {Unlocked}
    /\ ledger \subseteq Entries
    /\ phase \in [Claimers -> Phases]
    /\ instant \in [Claimers -> Time]
    /\ kept \in [Claimers -> SUBSET Entries]
    /\ verdict \in [Claimers -> Verdicts]
    /\ granted \subseteq Entries
    /\ broken \in BOOLEAN /\ overtaken \in BOOLEAN

\* Without a lock broken by age, one claimer at a time reads and replaces the
\* file, although locks outlive a crash and are unlinked by path.
SerialUnlessBroken ==
    ~broken =>
        \A c, d \in Claimers : phase[c] \in Inside /\ phase[d] \in Inside => c = d

\* A refusal is never spurious: whatever races on the file, as many claims as
\* the limit were counted and allowed within the window before it.
RefusalIsJustified ==
    \A c \in Claimers :
        verdict[c] = "refused" =>
            Cardinality(InWindow(granted, instant[c])) >= Limit

\* "A durable project/host budget bounds dispatch fan-out": the claims counted
\* and allowed in any window are at most the limit.
BudgetBounds ==
    \A t \in Time : Cardinality(InWindow(granted, t)) <= Limit

\* The bound holds as long as no lock was broken and no claimer entered after
\* one that began later.
BoundsInOrder == ~broken /\ ~overtaken => BudgetBounds

\* A claim ends with an answer, also when a crashed claimer left its lock.
ClaimEnds == \A c \in Claimers : phase[c] = "acquire" ~> phase[c] \in {"done", "dead"}

=============================================================================
