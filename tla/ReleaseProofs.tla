---------------------------- MODULE ReleaseProofs ----------------------------
(***************************************************************************)
(* What Release promises, for any shells, numbers of attempts, assets and   *)
(* faults.                                                                  *)
(*                                                                          *)
(* Three things carry the argument.  The branch only grows and an attempt   *)
(* is recorded once, so that what its source approved when it was chosen is *)
(* what its source approves.  The allocation lock makes that one shell      *)
(* records an attempt.  The mutation lock makes that what a command has     *)
(* checked when it began is so when it acts, although it may die in between *)
(* and others may take the lock after it.                                   *)
(***************************************************************************)
EXTENDS Release, SequenceTheorems, TLAPS

ShellType == [op : Ops, a : Attempts \cup {None}, rc : Attempts \cup {None},
              source : Nat, todo : SUBSET Assets]
CommitType == [runtime : 0 .. MaxHistory, approved : Attempts \cup {None},
               release : Attempts \cup {None}]
AttemptType == [source : Nat, accepted : Attempts \cup {None},
    commit : BOOLEAN, build : Nat, preparation : Nat, acceptance : Nat,
    approval : BOOLEAN, finalization : BOOLEAN, evidence : Nat, rejected : BOOLEAN, reserved : BOOLEAN]

\* Who holds the two locks: the allocation lock while an identity is reserved
\* and recorded, the mutation lock in every command on an attempt.
Shells ==
    /\ proc \in [Procs -> ShellType]
    /\ allocation \in Procs \cup {Free, Stale} /\ mutation \in Procs \cup {Free, Stale}
    /\ \A p \in Procs : proc[p].op \in Mutating <=> mutation = p
    /\ \A p \in Procs : proc[p].op \in {"reserve", "record"} <=> allocation = p

Branch ==
    /\ history \in Seq(CommitType) /\ Tip \in 1 .. MaxHistory + 1
    /\ stable.origin = None => Tip <= MaxHistory
    /\ \A i \in 1 .. Tip : history[i].runtime < i

Retentions ==
    /\ attempts \in [Attempts -> AttemptType]
    /\ head \in [Attempts -> {"none", "source", "release"}]
    /\ disk \in [Attempts -> {Absent, 1, Altered}] /\ builds \in [Attempts -> 0 .. 1]

Services ==
    /\ rcTags \in [local : SUBSET Attempts, origin : SUBSET Attempts]
    /\ stable \in [local : Attempts \cup {None}, origin : Attempts \cup {None}]
    /\ github.state \in {"none", "draft", "published"} /\ DOMAIN github.assets \subseteq Assets
    /\ github = [state |-> github.state, assets |-> github.assets]
    /\ github.assets \in [DOMAIN github.assets -> [attempt : Attempts, bytes : Nat]]
    /\ pypi \in Attempts \cup {None}

Types == Shells /\ Branch /\ Retentions /\ Services /\ faults \in 0 .. MaxFaults

\* A commit of the branch approves the candidate and has its runtime source.
Chosen(r, s) ==
    /\ r \in Attempts /\ r.kind = "rc" /\ Exists(r) /\ s \in 1 .. Tip
    /\ history[s].approved = r
    /\ history[s].runtime = history[attempts[r].source].runtime

\* An attempt that exists keeps its source, and a final one has been chosen.
Recorded == \A a \in Attempts : Exists(a) =>
    /\ attempts[a].source \in 1 .. Tip /\ attempts[a].reserved
    /\ a.kind = "final" => Chosen(attempts[a].accepted, attempts[a].source)

\* What is finalized is a prepared final attempt, and not a rejected one.
Receipts == \A a \in Attempts :
    attempts[a].finalization =>
         Exists(a) /\ a.kind = "final" /\ attempts[a].preparation # Absent /\ ~attempts[a].rejected

\* What a command has found out, and holds under its lock.
Preparing == {"metadata", "receipt", "tag", "push-tag", "build", "preserve",
              "record-build", "readiness", "preparation"}
Publishing == {"evidence", "push", "draft", "upload", "undraft"}
Pushed == {"draft", "upload", "undraft"}

Chooses(p) == proc[p].op \in {"lock", "reserve", "record"} =>
    /\ proc[p].source \in 1 .. Tip
    /\ IF proc[p].rc = None THEN proc[p].a \in Attempts /\ proc[p].a.kind = "rc"
                            ELSE Chosen(proc[p].rc, proc[p].source)

Names(p) ==
    LET a == proc[p].a
    IN /\ proc[p].op \in {"record", "checkout", "prepare"} \cup Mutating => a \in Attempts
       /\ proc[p].op = "record" =>
            /\ ~Exists(a) /\ attempts[a].reserved
            /\ a.kind = "final" => proc[p].rc # None

Checked(p) ==
    LET op == proc[p].op
        a == proc[p].a
    IN /\ op \in Mutating => Exists(a)
       /\ op \in Preparing => attempts[a].preparation = Absent
       /\ op \in {"preserve", "record-build"} => attempts[a].build = Absent
       /\ op = "probe" => attempts[a].acceptance = Absent
       /\ op = "rejection" => ~attempts[a].finalization
       /\ op \in {"stable-tag", "finalization"} =>
            a.kind = "final" /\ attempts[a].preparation # Absent /\ ~attempts[a].rejected
       /\ op \in Publishing => attempts[a].finalization
       /\ op \in {"evidence", "push"} => /\ stable.origin \in {None, a} /\ ~attempts[a].rejected
                                         /\ ~attempts[attempts[a].accepted].rejected
       /\ op = "push" => stable.origin = None
       /\ op \in Pushed => stable.origin = a
       /\ op = "upload" => Assets \ proc[p].todo \subseteq DOMAIN github.assets
       /\ op = "undraft" => DOMAIN github.assets = Assets

Commands == \A p \in Procs : Chooses(p) /\ Names(p) /\ Checked(p)

\* What is out is of the attempt that the pushed tag names; the manifest has the
\* hashes of its preparation, and what PyPI serves has been compared with it.
Out ==
    /\ stable.origin # None => attempts[stable.origin].finalization
    /\ \A x \in DOMAIN github.assets : github.assets[x].attempt = stable.origin
    /\ "manifest" \in DOMAIN github.assets =>
         github.assets["manifest"].bytes = attempts[stable.origin].preparation
    /\ github.state = "published" => DOMAIN github.assets = Assets
    /\ pypi # None => /\ pypi = stable.origin /\ DOMAIN github.assets = Assets
                      /\ \A x \in Artifacts : github.assets[x] =
                            [attempt |-> pypi, bytes |-> attempts[pypi].preparation]

IInv == Types /\ Recorded /\ Receipts /\ Commands /\ Out

\* The named parts of the type invariant are TypeOK.
LEMMA TypesAreTypeOK == Types => TypeOK
  <1> SUFFICES ASSUME Types PROVE TypeOK
    OBVIOUS
  <1>1. /\ proc \in [Procs -> [op : Ops, a : Attempts \cup {None}, rc : Attempts \cup {None},
                               source : Nat, todo : SUBSET Assets]]
        /\ allocation \in Procs \cup {Free, Stale} /\ mutation \in Procs \cup {Free, Stale}
        /\ \A p \in Procs : proc[p].op \in Mutating <=> mutation = p
    BY DEF Types, Shells, ShellType
  <1>2. /\ history \in Seq([runtime : 0 .. MaxHistory, approved : Attempts \cup {None},
                            release : Attempts \cup {None}])
        /\ Len(history) \in 1 .. MaxHistory + 1
    BY DEF Types, Branch, CommitType, Tip
  <1>3. attempts \in [Attempts -> [source : Nat, accepted : Attempts \cup {None},
         commit : BOOLEAN, build : Nat, preparation : Nat, acceptance : Nat,
         approval : BOOLEAN, finalization : BOOLEAN, evidence : Nat, rejected : BOOLEAN,
         reserved : BOOLEAN]]
    BY DEF Types, Retentions, AttemptType
  <1>4. QED BY <1>1, <1>2, <1>3 DEF Types, Retentions, Services, TypeOK

---------------------------------------------------------------------------
(* Shells and their locks *)

\* No attempt is None, no shell is a lock marker, and attempts are what they are called.
LEMMA Distinct ==
    /\ None \notin Attempts /\ Free \notin Procs /\ Stale \notin Procs /\ Free # Stale
    /\ \A a \in Attempts : a.n \in Nat /\ a.kind \in {"rc", "final"}
    /\ \A n \in RCs : Rc(n) \in Attempts /\ Rc(n).kind = "rc" /\ Rc(n).n = n
    /\ \A n \in Finals : Final(n) \in Attempts /\ Final(n).kind = "final" /\ Final(n).n = n
  <1>1. Free \notin Procs /\ Stale \notin Procs /\ Free # Stale
    BY ReleaseAssumption DEF Free, Stale
  <1>2. ASSUME NEW n \in RCs PROVE Rc(n) \in Attempts /\ Rc(n).kind = "rc" /\ Rc(n).n = n
    BY DEF Attempts, Rc
  <1>3. ASSUME NEW n \in Finals
        PROVE  Final(n) \in Attempts /\ Final(n).kind = "final" /\ Final(n).n = n
    BY DEF Attempts, Final
  <1>4. ASSUME NEW a \in Attempts PROVE a.n \in Nat /\ a.kind \in {"rc", "final"}
    BY ReleaseAssumption DEF Attempts, Rc, Final
  <1>5. None \notin Attempts
    <2>1. None.kind = "none"
      BY DEF None
    <2>2. QED BY <2>1, <1>4
  <1>6. QED BY <1>1, <1>2, <1>3, <1>4, <1>5

\* A command goes on.
Onward(p, op) ==
    /\ proc'[p].op = op /\ proc'[p].a = proc[p].a /\ proc'[p].rc = proc[p].rc
    /\ proc'[p].source = proc[p].source /\ proc'[p].todo = proc[p].todo
    /\ \A q \in Procs \ {p} : proc'[q] = proc[q]

\* A command ends or dies.
Over(p) == proc'[p] = Idle /\ \A q \in Procs \ {p} : proc'[q] = proc[q]

\* Goes changes what p is about to do, and nothing else of any shell.
LEMMA GoesDoes ==
    ASSUME Shells, NEW p \in Procs, NEW op \in Ops, Goes(p, op)
    PROVE  Onward(p, op) /\ proc' \in [Procs -> ShellType]
  <1>1. proc[p] \in ShellType
    BY DEF Shells
  <1>2. [proc[p] EXCEPT !.op = op] \in ShellType
    BY <1>1 DEF ShellType
  <1>3. proc' = [proc EXCEPT ![p] = [proc[p] EXCEPT !.op = op]]
    BY DEF Goes
  <1>4. QED BY <1>1, <1>2, <1>3 DEF Shells, Onward, ShellType

\* A command that neither takes nor gives back a lock keeps them consistent.
LEMMA GoesKeeps ==
    ASSUME Shells, NEW p \in Procs, NEW op \in Ops, Goes(p, op), Keeps,
           op \in Mutating <=> proc[p].op \in Mutating,
           op \in {"reserve", "record"} <=> proc[p].op \in {"reserve", "record"}
    PROVE  Shells' /\ Onward(p, op)
  BY GoesDoes DEF Keeps, locks, Shells, Onward

\* An idle shell is a shell.
LEMMA IdleType == Idle \in ShellType
  BY DEF Idle, ShellType, Ops

\* A command that ends frees what it held, or leaves it stale, and nothing else.
LEMMA OverKeeps ==
    ASSUME Shells, NEW p \in Procs, NEW f \in {Free, Stale},
           proc' = [proc EXCEPT ![p] = Idle],
           mutation' = IF mutation = p THEN f ELSE mutation,
           allocation' = IF allocation = p THEN f ELSE allocation
    PROVE  Shells' /\ Over(p)
  <1>1. Idle.op = "idle" /\ "idle" \notin Mutating
    BY DEF Idle, Mutating
  <1>2. Over(p) /\ proc' \in [Procs -> ShellType]
    BY IdleType DEF Shells, Over
  <1>3. QED BY <1>1, <1>2, Distinct DEF Shells, Over

\* ... which is what Ends does.
LEMMA EndsKeeps ==
    ASSUME Shells, NEW p \in Procs, Ends(p) PROVE Shells' /\ Over(p)
  BY OverKeeps DEF Ends

\* A command on an attempt begins with the mutation lock, on a live attempt.
LEMMA BeginsKeeps ==
    ASSUME Shells, NEW p \in Procs, NEW a \in Attempts, NEW op \in Mutating, Begins(p, a, op)
    PROVE  /\ Shells' /\ Live(a) /\ mutation = Free
           /\ proc'[p] = [Idle EXCEPT !.op = op, !.a = a]
           /\ proc'[p].op = op /\ proc'[p].a = a
           /\ \A q \in Procs \ {p} : proc'[q] = proc[q]
  <1>1. [Idle EXCEPT !.op = op, !.a = a] \in ShellType
    BY DEF Idle, ShellType, Ops
  <1>2. /\ proc'[p] = [Idle EXCEPT !.op = op, !.a = a] /\ proc' \in [Procs -> ShellType]
        /\ \A q \in Procs \ {p} : proc'[q] = proc[q]
    BY <1>1 DEF Begins, Shells
  <1>3. proc'[p].op = op /\ proc'[p].a = a
    BY <1>2 DEF Idle
  <1>4. proc[p].op \notin {"reserve", "record"} /\ op \notin {"reserve", "record"}
    BY DEF Begins, Idle, Mutating
  <1>5. QED BY <1>2, <1>3, <1>4, Distinct DEF Begins, Shells

---------------------------------------------------------------------------
(* What steps leave as it was *)

\* The branch only grows, and what has been recorded stays.
Steady ==
    /\ Tip' \in Nat /\ Tip <= Tip' /\ \A i \in 1 .. Tip : history'[i] = history[i]
    /\ \A a \in Attempts :
         /\ attempts[a].reserved => attempts'[a].reserved
         /\ Exists(a) => /\ attempts'[a].source = attempts[a].source
                         /\ attempts'[a].accepted = attempts[a].accepted

\* The receipts are as they were, and so are the stable tag and the release.
SameReceipts == \A a \in Attempts :
    /\ attempts'[a].build = attempts[a].build
    /\ attempts'[a].preparation = attempts[a].preparation
    /\ attempts'[a].acceptance = attempts[a].acceptance
    /\ attempts'[a].evidence = attempts[a].evidence
    /\ attempts'[a].finalization = attempts[a].finalization
    /\ attempts'[a].rejected = attempts[a].rejected
SameOut == UNCHANGED <<stable, github>>

\* A choice that was made stays made.
LEMMA SteadyChosen ==
    ASSUME Types, Recorded, Steady, NEW r, NEW s, Chosen(r, s)
    PROVE  /\ r \in Attempts /\ r.kind = "rc" /\ attempts'[r].source # 0
           /\ s \in 1 .. Tip' /\ history'[s].approved = r
           /\ history'[s].runtime = history'[attempts'[r].source].runtime
  <1>1. /\ r \in Attempts /\ Exists(r) /\ s \in 1 .. Tip
        /\ attempts[r].source \in 1 .. Tip /\ Tip \in Nat
    BY DEF Chosen, Recorded, Types, Branch
  <1>2. attempts'[r].source = attempts[r].source
    BY <1>1 DEF Steady
  <1>3. /\ Tip' \in Nat /\ Tip <= Tip' /\ history'[s] = history[s]
        /\ history'[attempts[r].source] = history[attempts[r].source]
    BY <1>1 DEF Steady
  <1>4. QED BY <1>1, <1>2, <1>3 DEF Chosen, Exists

\* A recorded attempt stays recorded.
LEMMA RecordedKeeps ==
    ASSUME Types, Recorded, Steady, NEW a \in Attempts, Exists(a)
    PROVE  /\ Exists(a)' /\ attempts'[a].source \in 1 .. Tip' /\ attempts'[a].reserved
           /\ a.kind = "final" => Chosen(attempts[a].accepted, attempts[a].source)'
  <1>1. /\ attempts[a].source \in 1 .. Tip /\ attempts[a].reserved /\ Tip \in Nat
        /\ a.kind = "final" => Chosen(attempts[a].accepted, attempts[a].source)
    BY DEF Recorded, Types, Branch
  <1>2. /\ attempts'[a].source = attempts[a].source /\ attempts'[a].reserved
        /\ attempts'[a].accepted = attempts[a].accepted
        /\ Tip' \in Nat /\ Tip <= Tip'
    BY <1>1 DEF Steady
  <1>3. a.kind = "final" => Chosen(attempts[a].accepted, attempts[a].source)'
    BY <1>1, <1>2, SteadyChosen DEF Chosen, Exists
  <1>4. QED BY <1>1, <1>2, <1>3 DEF Exists

\* A shell that does nothing still knows what it knew.
LEMMA OthersKeep ==
    ASSUME IInv, Steady, NEW q \in Procs, proc'[q] = proc[q],
           proc[q].op = "record" =>
                attempts'[proc[q].a].source = attempts[proc[q].a].source,
           proc[q].op \in Mutating => SameReceipts /\ SameOut
    PROVE  Chooses(q)' /\ Names(q)' /\ Checked(q)'
  <1>1. Chooses(q) /\ Names(q) /\ Checked(q) /\ Types /\ Recorded
    BY DEF IInv, Commands
  <1>2. Chooses(q)'
    <2>1. ASSUME proc[q].op \in {"lock", "reserve", "record"}
          PROVE  /\ proc[q].source \in 1 .. Tip'
                 /\ IF proc[q].rc = None THEN proc[q].a \in Attempts /\ proc[q].a.kind = "rc"
                    ELSE Chosen(proc[q].rc, proc[q].source)'
      <3>1. proc[q].source \in 1 .. Tip'
        BY <1>1, <2>1 DEF Chooses, Steady, Types, Branch
      <3>2. CASE proc[q].rc = None
        BY <1>1, <2>1, <3>1, <3>2 DEF Chooses
      <3>3. CASE proc[q].rc # None
        <4>1. Chosen(proc[q].rc, proc[q].source)
          BY <1>1, <2>1, <3>3 DEF Chooses
        <4>2. Chosen(proc[q].rc, proc[q].source)'
          BY <4>1, <1>1, SteadyChosen DEF Chosen, Exists
        <4>3. QED BY <3>1, <3>3, <4>2
      <3>4. QED BY <3>2, <3>3
    <2>2. QED BY <2>1 DEF Chooses
  <1>3. Names(q)'
    BY <1>1 DEF Names, Exists, Steady
  <1>4. Checked(q)'
    <2>1. CASE proc[q].op \notin Mutating
      BY <2>1 DEF Checked, Mutating, Preparing, Publishing, Pushed
    <2>2. CASE proc[q].op \in Mutating
      <3>1. SameReceipts /\ SameOut /\ proc[q].a \in Attempts /\ Exists(proc[q].a)
        BY <2>2, <1>1 DEF Names, Checked
      <3>2. Exists(proc[q].a)'
        BY <3>1, <1>1, RecordedKeeps
      <3>3. proc[q].op \in {"evidence", "push"} =>
                ~attempts'[attempts'[proc[q].a].accepted].rejected
        <4> SUFFICES ASSUME proc[q].op \in {"evidence", "push"}
                     PROVE  ~attempts'[attempts'[proc[q].a].accepted].rejected
          OBVIOUS
        <4>1. attempts[proc[q].a].finalization /\ ~attempts[attempts[proc[q].a].accepted].rejected
          BY <1>1 DEF Checked, Publishing
        <4>2. attempts[proc[q].a].accepted \in Attempts
          BY <4>1, <3>1 DEF IInv, Receipts, Recorded, Chosen
        <4>3. attempts'[proc[q].a].accepted = attempts[proc[q].a].accepted
          BY <3>1 DEF Steady
        <4>4. QED BY <4>1, <4>2, <4>3, <3>1 DEF SameReceipts
      <3>4. QED BY <3>1, <3>2, <3>3, <1>1 DEF Checked, SameReceipts, SameOut
    <2>3. QED BY <2>1, <2>2
  <1>5. QED BY <1>2, <1>3, <1>4

\* Steps that leave the branch, the receipts and what is out as they were.
LEMMA SilentKeeps ==
    ASSUME IInv, UNCHANGED <<history, attempts, stable, github, pypi>>
    PROVE  Steady /\ SameReceipts /\ SameOut /\ Branch' /\ Recorded' /\ Receipts' /\ Out'
  <1>1. Steady /\ SameReceipts /\ SameOut
    BY DEF Steady, SameReceipts, SameOut, Tip, Exists, IInv, Types, Branch
  <1>2. Branch'
    BY DEF IInv, Types, Branch, Tip
  <1>3. Recorded'
    BY DEF IInv, Recorded, Chosen, Exists, Tip
  <1>4. Receipts' /\ Out'
    BY DEF IInv, Receipts, Out, Exists
  <1>5. QED BY <1>1, <1>2, <1>3, <1>4

\* A command that ends knows nothing.
LEMMA OverKnows ==
    ASSUME NEW p \in Procs, proc'[p] = Idle
    PROVE  Chooses(p)' /\ Names(p)' /\ Checked(p)'
  BY DEF Idle, Chooses, Names, Checked, Mutating, Preparing, Publishing, Pushed

\* One shell acts: the others know what they knew.
LEMMA OneActs ==
    ASSUME IInv, NEW p \in Procs, Steady,
           Shells', Branch', Retentions', Services', faults' \in 0 .. MaxFaults,
           Recorded', Receipts', Out',
           Chooses(p)' /\ Names(p)' /\ Checked(p)',
           \A q \in Procs \ {p} :
               /\ proc'[q] = proc[q]
               /\ proc[q].op = "record" =>
                    attempts'[proc[q].a].source = attempts[proc[q].a].source
               /\ proc[q].op \in Mutating => SameReceipts /\ SameOut
    PROVE  IInv'
  <1>1. \A q \in Procs \ {p} : Chooses(q)' /\ Names(q)' /\ Checked(q)'
    BY OthersKeep
  <1>2. Commands'
    BY <1>1 DEF Commands
  <1>3. QED BY <1>2 DEF IInv, Types

\* One shell acts, and only on the disk, the worktrees and the tags of candidates.
LEMMA OneActsSilently ==
    ASSUME IInv, NEW p \in Procs, UNCHANGED <<history, attempts, stable, github, pypi>>,
           Shells', faults' \in 0 .. MaxFaults,
           head' \in [Attempts -> {"none", "source", "release"}],
           disk' \in [Attempts -> {Absent, 1, Altered}], builds' \in [Attempts -> 0 .. 1],
           rcTags' \in [local : SUBSET Attempts, origin : SUBSET Attempts],
           \A q \in Procs \ {p} : proc'[q] = proc[q],
           Chooses(p)' /\ Names(p)' /\ Checked(p)'
    PROVE  IInv'
  <1>1. /\ Steady /\ SameReceipts /\ SameOut
        /\ Branch' /\ Recorded' /\ Receipts' /\ Out'
    BY SilentKeeps
  <1>2. Retentions' /\ Services'
    BY DEF IInv, Types, Retentions, Services
  <1>3. \A q \in Procs \ {p} : proc[q].op = "record" =>
                    attempts'[proc[q].a].source = attempts[proc[q].a].source
    OBVIOUS
  <1>4. QED BY <1>1, <1>2, <1>3, OneActs

\* ... or on nothing but its own state.
LEMMA OneThinks ==
    ASSUME IInv, NEW p \in Procs, UNCHANGED <<files, public>>,
           Shells', faults' \in 0 .. MaxFaults,
           \A q \in Procs \ {p} : proc'[q] = proc[q],
           Chooses(p)' /\ Names(p)' /\ Checked(p)'
    PROVE  IInv'
  <1>1. UNCHANGED <<history, attempts, stable, github, pypi, head, disk, builds, rcTags>>
    BY DEF files, public
  <1>2. /\ head' \in [Attempts -> {"none", "source", "release"}]
        /\ disk' \in [Attempts -> {Absent, 1, Altered}] /\ builds' \in [Attempts -> 0 .. 1]
        /\ rcTags' \in [local : SUBSET Attempts, origin : SUBSET Attempts]
    BY <1>1 DEF IInv, Types, Retentions, Services
  <1>3. QED BY <1>1, <1>2, OneActsSilently

---------------------------------------------------------------------------
(* How a command begins and ends *)

\* A command that ends, fails or dies leaves what it has done.
LEMMA EndingKeeps ==
    ASSUME IInv, NEW p \in Procs,
           (Ends(p) /\ UNCHANGED <<files, public, faults>>) \/ Fails(p) \/ Dies(p)
    PROVE  IInv'
  <1>1. Shells /\ faults \in 0 .. MaxFaults /\ MaxFaults \in Nat
    BY ReleaseAssumption DEF IInv, Types
  <1>2. Shells' /\ Over(p)
    BY <1>1, OverKeeps DEF Ends, Fails, Dies
  <1>3. UNCHANGED <<files, public>>
    BY DEF Fails, Dies
  <1>4. faults' \in 0 .. MaxFaults
    BY <1>1 DEF Fails, Dies, Fault
  <1>5. QED BY <1>2, <1>3, <1>4, OverKnows, OneThinks DEF Over

\* A candidate or a source is chosen, before any lock.
LEMMA ChoosingKeeps ==
    ASSUME IInv, NEW p \in Procs, NEW n \in RCs, PrepareRc(p, n) \/ PrepareFinal(p, Rc(n))
    PROVE  IInv'
  <1>1. /\ Shells /\ Tip \in 1 .. MaxHistory + 1 /\ MaxHistory \in Nat /\ faults \in 0 .. MaxFaults
    BY ReleaseAssumption DEF IInv, Types, Branch
  <1>2. Rc(n) \in Attempts /\ Rc(n).kind = "rc" /\ None \notin Attempts
    BY Distinct
  <1>3. UNCHANGED <<files, public, faults>> /\ UNCHANGED locks /\ proc[p].op = "idle"
    BY DEF PrepareRc, PrepareFinal
  <1>4. PICK c \in ShellType : /\ proc' = [proc EXCEPT ![p] = c]
                               /\ c.op = "lock" /\ c.source = Tip
                               /\ \/ c.rc = None /\ c.a = Rc(n)
                                  \/ c.rc = Rc(n) /\ Approved(Rc(n), Tip)
    <2>1. CASE PrepareRc(p, n)
      <3>1. [op |-> "lock", a |-> Rc(n), rc |-> None, source |-> Tip, todo |-> {}] \in ShellType
        BY <1>1, <1>2 DEF ShellType, Ops
      <3>2. QED BY <2>1, <3>1 DEF PrepareRc
    <2>2. CASE PrepareFinal(p, Rc(n))
      <3>1. [op |-> "lock", a |-> None, rc |-> Rc(n), source |-> Tip, todo |-> {}] \in ShellType
        BY <1>1, <1>2 DEF ShellType, Ops
      <3>2. QED BY <2>2, <3>1 DEF PrepareFinal
    <2>3. QED BY <2>1, <2>2
  <1>5. proc'[p] = c /\ \A q \in Procs \ {p} : proc'[q] = proc[q]
    BY <1>1, <1>4 DEF Shells
  <1>6. Shells'
    BY <1>1, <1>3, <1>4, <1>5 DEF Shells, locks, Mutating
  <1>7. Chosen(Rc(n), Tip) \/ (c.rc = None /\ c.a = Rc(n))
    BY <1>1, <1>2, <1>4 DEF Approved, Live, Chosen
  <1>8. /\ history' = history /\ attempts' = attempts
    BY <1>3 DEF files, public
  <1>9. Chooses(p)'
    BY <1>1, <1>2, <1>4, <1>5, <1>7, <1>8 DEF Chooses, Chosen, Exists, Tip
  <1>10. Names(p)' /\ Checked(p)'
    BY <1>4, <1>5 DEF Names, Checked, Mutating, Preparing, Publishing, Pushed
  <1>11. QED BY <1>1, <1>3, <1>5, <1>6, <1>9, <1>10, OneThinks

\* The allocation lock is taken.
LEMMA AllocateKeeps ==
    ASSUME IInv, NEW p \in Procs, Allocate(p) PROVE IInv'
  <1>1. Shells /\ faults \in 0 .. MaxFaults /\ UNCHANGED <<files, public, faults>>
    BY DEF IInv, Types, Allocate
  <1>2. CASE Ends(p)
    BY <1>1, <1>2, EndingKeeps
  <1>3. CASE /\ allocation = Free /\ allocation' = p /\ Goes(p, "reserve")
             /\ UNCHANGED mutation /\ proc[p].op = "lock"
    <2>1. Onward(p, "reserve") /\ proc' \in [Procs -> ShellType]
      BY <1>1, <1>3, GoesDoes DEF Ops
    <2>2. Shells'
      BY <1>1, <1>3, <2>1, Distinct DEF Shells, Onward, Mutating
    <2>3. Chooses(p)'
      <3>1. Chooses(p) /\ history' = history /\ attempts' = attempts
        BY <1>1 DEF IInv, Commands, files, public
      <3>2. QED BY <1>3, <2>1, <3>1 DEF Chooses, Onward, Chosen, Exists, Tip
    <2>4. Names(p)' /\ Checked(p)'
      BY <2>1 DEF Onward, Names, Checked, Mutating, Preparing, Publishing, Pushed
    <2>5. QED BY <1>1, <2>1, <2>2, <2>3, <2>4, OneThinks DEF Onward
  <1>4. QED BY <1>2, <1>3 DEF Allocate

\* The attempt's own script, and every command on an attempt, takes the mutation
\* lock and has looked at the attempt under it.
LEMMA BeginningKeeps ==
    ASSUME IInv, NEW p \in Procs, NEW a \in Attempts, NEW op \in Mutating, Begins(p, a, op),
           UNCHANGED <<files, public, faults>>,
           op \in Preparing => attempts[a].preparation = Absent,
           op = "probe" => attempts[a].acceptance = Absent,
           op = "rejection" => ~attempts[a].finalization,
           op \in {"stable-tag", "finalization"} =>
                a.kind = "final" /\ attempts[a].preparation # Absent,
           op = "evidence" => /\ attempts[a].finalization /\ stable.origin \in {None, a}
                              /\ ~attempts[attempts[a].accepted].rejected,
           op \notin (Publishing \ {"evidence"}) \cup {"preserve", "record-build"}
    PROVE  IInv'
  <1>1. Shells /\ faults \in 0 .. MaxFaults
    BY DEF IInv, Types
  <1>2. /\ Shells' /\ Live(a) /\ proc'[p].op = op /\ proc'[p].a = a
        /\ \A q \in Procs \ {p} : proc'[q] = proc[q]
    <2>1. Begins(p, a, op)
      OBVIOUS
    <2>2. /\ Shells' /\ Live(a) /\ mutation = Free
          /\ proc'[p] = [Idle EXCEPT !.op = op, !.a = a]
          /\ proc'[p].op = op /\ proc'[p].a = a
          /\ \A q \in Procs \ {p} : proc'[q] = proc[q]
      BY ONLY <1>1, <2>1, p \in Procs, a \in Attempts, op \in Mutating, BeginsKeeps
    <2>3. QED BY <2>2
  <1>3. attempts' = attempts /\ stable' = stable /\ op \notin {"lock", "reserve", "record"}
    BY DEF files, public, Mutating
  <1>4. Chooses(p)' /\ Names(p)'
    BY <1>2, <1>3 DEF Chooses, Names
  <1>5. Checked(p)'
    BY <1>2, <1>3 DEF Checked, Live, Exists, Publishing, Pushed
  <1>6. QED BY <1>1, <1>2, <1>4, <1>5, OneThinks

\* The commands that look before they change anything.
LEMMA CommandsBegin ==
    ASSUME IInv, NEW p \in Procs, NEW a \in Attempts,
           \/ BeginPrepare(p, a) \/ BeginAccept(p, a) \/ BeginReject(p, a)
           \/ Finalize(p, a) \/ Publish(p, a)
    PROVE  IInv'
  <1> USE DEF Mutating, Preparing, Publishing
  <1>1. CASE BeginPrepare(p, a)
    BY <1>1, BeginningKeeps DEF BeginPrepare
  <1>2. CASE BeginAccept(p, a)
    BY <1>2, BeginningKeeps DEF BeginAccept
  <1>3. CASE BeginReject(p, a)
    BY <1>3, BeginningKeeps DEF BeginReject
  <1>4. CASE Finalize(p, a)
    <2>1. attempts[a].preparation # Absent /\ a.kind = "final"
      BY <1>4 DEF Finalize, Prepared, Retained
    <2>2. CASE stable.local = a
      BY <1>4, <2>1, <2>2, BeginningKeeps DEF Finalize
    <2>3. CASE stable.local # a
      BY <1>4, <2>1, <2>3, BeginningKeeps DEF Finalize
    <2>4. QED BY <2>2, <2>3
  <1>5. CASE Publish(p, a)
    <2>1. attempts[a].finalization /\ AcceptedRc(a)
      BY <1>5 DEF Publish, Finalized, Prepared, CheckedOut
    <2>2. a.kind = "final"
      BY <2>1 DEF IInv, Receipts
    <2>3. ~attempts[attempts[a].accepted].rejected
      BY <2>1, <2>2 DEF AcceptedRc, Approved, Live
    <2>4. QED BY <1>5, <2>1, <2>3, BeginningKeeps DEF Publish
  <1>6. QED BY <1>1, <1>2, <1>3, <1>4, <1>5

\* The script that finds the lock taken or its attempt rejected ends.
LEMMA RefusedKeeps ==
    ASSUME IInv, NEW p \in Procs, Refused(p) PROVE IInv'
  BY EndingKeeps DEF Refused

\* git worktree add, for the attempt that was recorded.
LEMMA CheckOutKeeps ==
    ASSUME IInv, NEW p \in Procs, CheckOut(p) PROVE IInv'
  <1>1. /\ Shells /\ Retentions /\ Services /\ faults' \in 0 .. MaxFaults /\ proc[p].a \in Attempts
    BY DEF IInv, Types, CheckOut, Commands, Names
  <1>2. Goes(p, "prepare") /\ Keeps /\ proc[p].op = "checkout"
    BY DEF CheckOut, Keeps
  <1>3. Shells' /\ Onward(p, "prepare")
    BY <1>1, <1>2, GoesKeeps DEF Ops, Mutating
  <1>4. head' \in [Attempts -> {"none", "source", "release"}]
    BY <1>1 DEF CheckOut, Retentions
  <1>5. /\ UNCHANGED <<history, attempts, stable, github, pypi, disk, builds, rcTags>>
    BY DEF CheckOut, public
  <1>6. /\ disk' \in [Attempts -> {Absent, 1, Altered}] /\ builds' \in [Attempts -> 0 .. 1]
        /\ rcTags' \in [local : SUBSET Attempts, origin : SUBSET Attempts]
    BY <1>1, <1>5 DEF Retentions, Services
  <1>7. Chooses(p)' /\ Names(p)' /\ Checked(p)'
    BY <1>1, <1>3 DEF Onward, Chooses, Names, Checked, Mutating, Preparing, Publishing, Pushed
  <1>8. QED BY <1>1, <1>3, <1>4, <1>5, <1>6, <1>7, OneActsSilently DEF Onward

---------------------------------------------------------------------------
(* Preparation *)

\* One of its steps that leaves the receipts alone.
LEMMA PreparingOn ==
    ASSUME IInv, NEW p \in Procs, NEW op \in Preparing, proc[p].op \in Preparing,
           Goes(p, op), Keeps,
           op \in {"preserve", "record-build"} => attempts[proc[p].a].build = Absent,
           UNCHANGED <<history, attempts, stable, github, pypi, faults>>,
           head' \in [Attempts -> {"none", "source", "release"}],
           disk' \in [Attempts -> {Absent, 1, Altered}], builds' \in [Attempts -> 0 .. 1],
           rcTags' \in [local : SUBSET Attempts, origin : SUBSET Attempts]
    PROVE  IInv'
  <1>1. Shells /\ faults' \in 0 .. MaxFaults /\ Names(p) /\ Checked(p)
    BY DEF IInv, Types, Commands
  <1>2. Shells' /\ Onward(p, op)
    BY <1>1, GoesKeeps DEF Preparing, Ops, Mutating
  <1>3. Chooses(p)' /\ Names(p)'
    BY <1>1, <1>2 DEF Onward, Chooses, Names, Mutating, Preparing
  <1>4. Checked(p)'
    BY <1>1, <1>2 DEF Onward, Checked, Mutating, Preparing, Publishing, Pushed, Exists
  <1>5. QED BY <1>1, <1>2, <1>3, <1>4, OneActsSilently DEF Onward

\* The steps of a preparation that write no receipt.
LEMMA PreparationSilent ==
    ASSUME IInv, NEW p \in Procs,
           \/ Metadata(p) \/ Tag(p) \/ PushTag(p) \/ Build(p) \/ Preserve(p) \/ Readiness(p)
    PROVE  IInv'
  <1>1. CASE proc[p].op \in Preparing /\ Ends(p) /\ UNCHANGED <<files, public, faults>>
    BY <1>1, EndingKeeps
  <1>2. /\ head \in [Attempts -> {"none", "source", "release"}]
        /\ disk \in [Attempts -> {Absent, 1, Altered}] /\ builds \in [Attempts -> 0 .. 1]
        /\ rcTags \in [local : SUBSET Attempts, origin : SUBSET Attempts]
    BY DEF IInv, Types, Retentions, Services
  <1>3. proc[p].op \in Preparing => proc[p].a \in Attempts
    BY DEF IInv, Commands, Names, Preparing, Mutating
  <1> USE DEF Step, files, public, Preparing
  <1>4. CASE Metadata(p)
    BY <1>1, <1>2, <1>3, <1>4, PreparingOn DEF Metadata, Stops
  <1>5. CASE Tag(p)
    BY <1>1, <1>2, <1>3, <1>5, PreparingOn DEF Tag, Stops
  <1>6. CASE PushTag(p)
    BY <1>2, <1>3, <1>6, PreparingOn DEF PushTag
  <1>7. CASE Build(p)
    <2> DEFINE a == proc[p].a
               recorded == attempts[a].build # Absent
               fresh == disk[a] = Absent /\ builds[a] = 0
    <2>1. CASE /\ Step(p, "build", recorded /\ attempts[a].build = disk[a], "readiness")
               /\ UNCHANGED <<files, public, faults>>
      BY <1>2, <2>1, PreparingOn
    <2>2. CASE /\ Step(p, "build", ~recorded /\ fresh, "preserve")
               /\ builds' = [builds EXCEPT ![a] = @ + 1]
               /\ UNCHANGED <<attempts, head, disk, public, faults>>
      <3>1. builds' \in [Attempts -> 0 .. 1]
        BY <1>2, <1>3, <2>2
      <3>2. QED BY <1>2, <2>2, <3>1, PreparingOn
    <2>3. QED BY <1>1, <1>7, <2>1, <2>2 DEF Build, Stops
  <1>8. CASE Preserve(p)
    <2>1. disk' \in [Attempts -> {Absent, 1, Altered}]
      BY <1>2, <1>3, <1>8 DEF Preserve, Absent
    <2>2. proc[p].op = "preserve" => attempts[proc[p].a].build = Absent
      BY DEF IInv, Commands, Checked
    <2>3. QED BY <1>2, <2>1, <2>2, <1>8, PreparingOn DEF Preserve
  <1>9. CASE Readiness(p)
    BY <1>1, <1>2, <1>3, <1>9, PreparingOn DEF Readiness, Stops
  <1>10. QED BY <1>4, <1>5, <1>6, <1>7, <1>8, <1>9

---------------------------------------------------------------------------
(* Receipts *)

\* Whoever has or takes the mutation lock is alone with the attempts.
LEMMA Alone ==
    ASSUME Shells, NEW p \in Procs, mutation \in {p, Free}
    PROVE  \A q \in Procs \ {p} : proc[q].op \notin Mutating
  BY Distinct DEF Shells

\* A command writes a receipt into its attempt, under the lock.
LEMMA ReceiptKeeps ==
    ASSUME IInv, NEW p \in Procs, NEW a \in Attempts, NEW c \in AttemptType,
           mutation \in {p, Free}, attempts' = [attempts EXCEPT ![a] = c],
           c.source = attempts[a].source, c.accepted = attempts[a].accepted,
           c.reserved = attempts[a].reserved,
           UNCHANGED <<head, disk, builds, public, faults>>,
           Shells', \A q \in Procs \ {p} : proc'[q] = proc[q],
           Chooses(p)' /\ Names(p)' /\ Checked(p)',
           c.finalization => Exists(a) /\ a.kind = "final" /\ c.preparation # Absent /\ ~c.rejected,
           attempts[a].finalization =>
                c.finalization /\ c.preparation = attempts[a].preparation
    PROVE  IInv'
  <1>1. /\ Types /\ Shells /\ Branch /\ Retentions /\ Services /\ faults' \in 0 .. MaxFaults
        /\ UNCHANGED <<history, stable, github, pypi, rcTags>>
    BY DEF IInv, Types, public
  <1>2. /\ attempts'[a] = c /\ \A b \in Attempts \ {a} : attempts'[b] = attempts[b]
        /\ attempts' \in [Attempts -> AttemptType]
    BY <1>1 DEF Retentions
  <1>3. Branch' /\ Retentions' /\ Services'
    BY <1>1, <1>2 DEF Branch, Retentions, Services, Tip
  <1>4. \A b \in Attempts : /\ attempts'[b].source = attempts[b].source
                            /\ attempts'[b].accepted = attempts[b].accepted
                            /\ attempts'[b].reserved = attempts[b].reserved
    BY <1>2
  <1>5. Steady
    BY <1>1, <1>4 DEF Steady, Branch, Tip
  <1>6. Recorded'
    <2>1. ASSUME NEW b \in Attempts, Exists(b)'
          PROVE  /\ attempts'[b].source \in 1 .. Tip' /\ attempts'[b].reserved
                 /\ b.kind = "final" => Chosen(attempts[b].accepted, attempts[b].source)'
      <3>1. Exists(b)
        BY <2>1, <1>4 DEF Exists
      <3>2. QED BY <3>1, <1>1, <1>5, RecordedKeeps DEF IInv
    <2>2. QED BY <2>1 DEF Recorded
  <1>7. Receipts'
    <2>1. ASSUME NEW b \in Attempts
          PROVE  attempts'[b].finalization =>
                      /\ Exists(b)' /\ b.kind = "final"
                      /\ attempts'[b].preparation # Absent /\ ~attempts'[b].rejected
      <3>1. CASE b = a
        BY <3>1, <1>2, <1>4 DEF Exists
      <3>2. CASE b # a
        BY <3>2, <1>2 DEF IInv, Receipts, Exists
      <3>3. QED BY <3>1, <3>2
    <2>2. QED BY <2>1 DEF Receipts
  <1>8. Out'
    <2>1. stable.origin # None =>
            /\ stable.origin \in Attempts /\ attempts'[stable.origin].finalization
            /\ attempts'[stable.origin].preparation = attempts[stable.origin].preparation
      BY <1>1, <1>2 DEF IInv, Out, Services
    <2>2. "manifest" \in DOMAIN github.assets => stable.origin # None
      BY <1>1, Distinct DEF IInv, Out, Services
    <2>3. QED BY <1>1, <2>1, <2>2 DEF IInv, Out
  <1>9. \A q \in Procs \ {p} : proc[q].op \notin Mutating
    BY <1>1, Alone
  <1>10. \A q \in Procs \ {p} : proc[q].op = "record" =>
                    attempts'[proc[q].a].source = attempts[proc[q].a].source
    BY <1>4 DEF IInv, Commands, Names
  <1>11. QED BY <1>1, <1>3, <1>5, <1>6, <1>7, <1>8, <1>9, <1>10, OneActs

\* The last receipt of a command: it ends.
LEMMA LastReceiptKeeps ==
    ASSUME IInv, NEW p \in Procs, NEW c \in AttemptType, proc[p].op \in Mutating,
           attempts' = [attempts EXCEPT ![proc[p].a] = c], Ends(p),
           c.source = attempts[proc[p].a].source, c.accepted = attempts[proc[p].a].accepted,
           c.reserved = attempts[proc[p].a].reserved,
           UNCHANGED <<head, disk, builds, public, faults>>,
           c.finalization => proc[p].a.kind = "final" /\ c.preparation # Absent /\ ~c.rejected,
           attempts[proc[p].a].finalization =>
                c.finalization /\ c.preparation = attempts[proc[p].a].preparation
    PROVE  IInv'
  <1>1. Shells /\ proc[p].a \in Attempts /\ mutation = p /\ Exists(proc[p].a)
    BY DEF IInv, Types, Shells, Commands, Names, Checked
  <1>2. Shells' /\ Over(p)
    BY <1>1, EndsKeeps
  <1>3. Chooses(p)' /\ Names(p)' /\ Checked(p)'
    BY <1>2, OverKnows DEF Over
  <1>4. PICK a \in Attempts : a = proc[p].a
    BY <1>1
  <1>5. QED BY <1>1, <1>2, <1>3, <1>4, ReceiptKeeps DEF Over

\* The metadata commit and the build are recorded, and preparation goes on.
LEMMA PreparationReceipts ==
    ASSUME IInv, NEW p \in Procs, CommitReceipt(p) \/ RecordBuild(p)
    PROVE  IInv'
  <1>1. /\ Shells /\ Retentions /\ Receipts /\ Names(p) /\ Checked(p)
    BY DEF IInv, Types, Commands
  <1>2. PICK op \in Preparing \ {"preserve", "record-build"} :
          proc[p].op \in Preparing /\ Goes(p, op) /\ Keeps
    BY DEF CommitReceipt, RecordBuild, Step, Preparing
  <1>3. /\ Shells' /\ Onward(p, op) /\ mutation = p
    <2>1. /\ op \in Mutating /\ op \in Ops /\ proc[p].op \in Mutating
          /\ op \notin {"reserve", "record"} /\ proc[p].op \notin {"reserve", "record"}
      BY <1>2 DEF Preparing, Ops, Mutating
    <2>2. Shells' /\ Onward(p, op)
      BY <1>1, <1>2, <2>1, GoesKeeps
    <2>3. mutation = p
      BY <1>1, <2>1 DEF Shells
    <2>4. QED BY <2>2, <2>3
  <1>4. PICK a \in Attempts : a = proc[p].a
    BY <1>1, <1>2 DEF Names, Preparing, Mutating
  <1>5. attempts[a] \in AttemptType /\ attempts[a].preparation = Absent /\ Exists(a)
    BY <1>1, <1>2, <1>4 DEF Retentions, Checked, Preparing, Mutating
  <1>6. ~attempts[a].finalization
    BY <1>1, <1>5 DEF Receipts
  <1>7. PICK c \in AttemptType :
          /\ attempts' = [attempts EXCEPT ![a] = c]
          /\ c.source = attempts[a].source /\ c.accepted = attempts[a].accepted
          /\ c.reserved = attempts[a].reserved /\ c.preparation = Absent
          /\ ~c.finalization
    <2>1. CASE CommitReceipt(p)
      <3>1. [attempts[a] EXCEPT !.commit = TRUE] \in AttemptType
        BY <1>5 DEF AttemptType
      <3>2. attempts' = [attempts EXCEPT ![a] = [attempts[a] EXCEPT !.commit = TRUE]]
        BY <2>1, <1>4 DEF CommitReceipt
      <3>3. QED BY <3>1, <3>2, <1>5, <1>6 DEF AttemptType
    <2>2. CASE RecordBuild(p)
      <3>1. disk[a] \in Nat
        BY <1>1 DEF Retentions, Absent, Altered
      <3>2. [attempts[a] EXCEPT !.build = disk[a]] \in AttemptType
        BY <1>5, <3>1 DEF AttemptType
      <3>3. attempts' = [attempts EXCEPT ![a] = [attempts[a] EXCEPT !.build = disk[a]]]
        BY <2>2, <1>4 DEF RecordBuild
      <3>4. QED BY <3>2, <3>3, <1>5, <1>6 DEF AttemptType
    <2>3. QED BY <2>1, <2>2
  <1>8. attempts'[a] = c
    BY <1>7, <1>1 DEF Retentions
  <1>9. /\ proc'[p].op \in Preparing \ {"preserve", "record-build"} /\ proc'[p].a = a
        /\ \A q \in Procs \ {p} : proc'[q] = proc[q]
    BY <1>3, <1>4 DEF Onward
  <1>10. Chooses(p)' /\ Names(p)' /\ Checked(p)'
    BY <1>5, <1>7, <1>8, <1>9
       DEF Chooses, Names, Checked, Mutating, Preparing, Publishing, Pushed, Exists
  <1>11. UNCHANGED <<head, disk, builds, public, faults>>
    BY DEF CommitReceipt, RecordBuild
  <1>12. QED BY <1>3, <1>5, <1>6, <1>7, <1>9, <1>10, <1>11, ReceiptKeeps

\* Preparation, acceptance, rejection and finalization end with their receipt.
LEMMA LastReceipts ==
    ASSUME IInv, NEW p \in Procs, Preparation(p) \/ Acceptance(p) \/ Reject(p) \/ Finalization(p)
    PROVE  IInv'
  <1>1. Shells /\ Retentions /\ Receipts /\ Names(p) /\ Checked(p)
    BY DEF IInv, Types, Commands
  <1>2. Ends(p) /\ UNCHANGED <<head, disk, builds, public, faults>>
    BY DEF Preparation, Acceptance, Reject, Finalization
  <1>3. proc[p].op \in Mutating
    BY DEF Preparation, Acceptance, Reject, Finalization, Mutating
  <1>4. PICK a \in Attempts : a = proc[p].a
    BY <1>1, <1>3 DEF Names
  <1>5. /\ attempts[a] \in AttemptType /\ disk[a] \in Nat
        /\ attempts[a].finalization =>
             a.kind = "final" /\ attempts[a].preparation # Absent /\ ~attempts[a].rejected
    BY <1>1, <1>4 DEF Retentions, Receipts, Absent, Altered
  <1>6. CASE Preparation(p)
    <2>1. attempts[a].preparation = Absent
      BY <1>1, <1>4, <1>6 DEF Checked, Preparing, Preparation
    <2>2. ~attempts[a].finalization
      BY <2>1, <1>5
    <2>3. PICK c \in AttemptType : c = [attempts[a] EXCEPT !.preparation = disk[a]]
      BY <1>5 DEF AttemptType
    <2>4. /\ c.source = attempts[a].source /\ c.accepted = attempts[a].accepted
          /\ c.reserved = attempts[a].reserved /\ ~c.finalization
      BY <2>2, <2>3, <1>5 DEF AttemptType
    <2>5. attempts' = [attempts EXCEPT ![proc[p].a] = c]
      BY <1>4, <1>6, <2>3 DEF Preparation
    <2>6. QED BY <2>2, <2>4, <2>5, <1>2, <1>3, <1>4, LastReceiptKeeps
  <1>7. ASSUME NEW c \in AttemptType, Ends(p),
               attempts' = [attempts EXCEPT ![a] = c],
               UNCHANGED <<head, disk, builds, public, faults>>,
               c.source = attempts[a].source, c.accepted = attempts[a].accepted,
               c.reserved = attempts[a].reserved,
               c.preparation = attempts[a].preparation,
               c.finalization => a.kind = "final" /\ c.preparation # Absent /\ ~c.rejected,
               attempts[a].finalization => c.finalization
        PROVE  IInv'
    BY <1>3, <1>4, <1>5, <1>7, LastReceiptKeeps
  <1>8. CASE Acceptance(p)
    <2>1. PICK c \in AttemptType : c = [attempts[a] EXCEPT !.acceptance = attempts[a].preparation]
      BY <1>5 DEF AttemptType
    <2>2. QED BY <1>4, <1>5, <1>7, <1>8, <2>1 DEF Acceptance, AttemptType
  <1>9. CASE Reject(p)
    <2>1. PICK c \in AttemptType : c = [attempts[a] EXCEPT !.rejected = TRUE]
      BY <1>5 DEF AttemptType
    <2>2. ~attempts[a].finalization
      BY <1>1, <1>4, <1>9 DEF Checked, Reject
    <2>3. QED BY <1>4, <1>5, <1>7, <1>9, <2>1, <2>2 DEF Reject, AttemptType
  <1>10. CASE Finalization(p)
    <2>1. PICK c \in AttemptType : c = [attempts[a] EXCEPT !.finalization = TRUE]
      BY <1>5 DEF AttemptType
    <2>2. a.kind = "final" /\ attempts[a].preparation # Absent /\ ~attempts[a].rejected
      BY <1>1, <1>4, <1>10 DEF Checked, Finalization
    <2>3. QED BY <1>4, <1>5, <1>7, <1>10, <2>1, <2>2 DEF Finalization, AttemptType
  <1>11. QED BY <1>6, <1>8, <1>9, <1>10

---------------------------------------------------------------------------
(* Finalization and publication *)

\* The stable tag is set here, not yet at origin.
LEMMA StableTagKeeps ==
    ASSUME IInv, NEW p \in Procs, StableTag(p) PROVE IInv'
  <1>1. /\ Shells /\ Types /\ Names(p) /\ Checked(p) /\ faults' \in 0 .. MaxFaults
        /\ proc[p].op = "stable-tag"
    BY DEF IInv, Types, Commands, StableTag, Step
  <1>2. Shells' /\ Onward(p, "finalization") /\ mutation = p
    BY <1>1, GoesKeeps DEF StableTag, Step, Ops, Mutating, Shells
  <1>3. proc[p].a \in Attempts
    BY <1>1 DEF Names, Mutating
  <1>4. /\ UNCHANGED <<attempts, head, disk, builds, history, rcTags, github, pypi>>
        /\ stable' = [stable EXCEPT !.local = proc[p].a]
    BY DEF StableTag, files
  <1>5. /\ stable' \in [local : Attempts \cup {None}, origin : Attempts \cup {None}]
        /\ stable'.origin = stable.origin
    BY <1>1, <1>3, <1>4 DEF Types, Services
  <1>6. Branch' /\ Retentions' /\ Services'
    <2>1. Branch' /\ Retentions'
      BY <1>1, <1>4, <1>5 DEF Types, Branch, Retentions, Tip
    <2>2. Services'
      BY <1>1, <1>4, <1>5 DEF Types, Services
    <2>3. QED BY <2>1, <2>2
  <1>7. Steady /\ Recorded' /\ Receipts' /\ Out'
    <2>1. Steady
      BY <1>1, <1>4 DEF Types, Branch, Steady, Exists, Tip
    <2>2. Recorded' /\ Receipts'
      BY <1>4 DEF IInv, Recorded, Chosen, Receipts, Exists, Tip
    <2>3. Out'
      BY <1>4, <1>5 DEF IInv, Out
    <2>4. QED BY <2>1, <2>2, <2>3
  <1>8. Chooses(p)' /\ Names(p)' /\ Checked(p)'
    BY <1>1, <1>2, <1>3, <1>4
       DEF Onward, Chooses, Names, Checked, Mutating, Preparing, Publishing, Pushed, Exists
  <1>9. \A q \in Procs \ {p} : proc[q].op \notin Mutating
    BY <1>1, <1>2, Alone
  <1>10. QED BY <1>1, <1>2, <1>4, <1>6, <1>7, <1>8, <1>9, OneActs DEF Onward

\* The evidence is recorded, and the publication goes on to push or to resume.
LEMMA EvidenceKeeps ==
    ASSUME IInv, NEW p \in Procs, Evidence(p) PROVE IInv'
  <1>1. CASE Ends(p) /\ UNCHANGED <<files, public, faults>>
    BY <1>1, EndingKeeps
  <1>2. CASE ~(Ends(p) /\ UNCHANGED <<files, public, faults>>)
    <2>1. /\ Shells /\ Retentions /\ Receipts /\ Recorded /\ Names(p) /\ Checked(p)
      BY DEF IInv, Types, Commands
    <2>2. PICK op \in {"draft", "push"} :
            /\ proc[p].op = "evidence" /\ Goes(p, op) /\ Keeps
            /\ op = "draft" <=> stable.origin = proc[p].a
            /\ attempts' = [attempts EXCEPT ![proc[p].a].evidence = disk[proc[p].a]]
            /\ UNCHANGED <<head, disk, builds, public, faults>>
      BY <1>2 DEF Evidence, Step, Stops
    <2>3. Shells' /\ Onward(p, op) /\ mutation = p
      BY <2>1, <2>2, GoesKeeps DEF Ops, Mutating, Shells
    <2>4. PICK a \in Attempts : a = proc[p].a
      BY <2>1, <2>2 DEF Names, Mutating
    <2>5. /\ Exists(a) /\ attempts[a].finalization /\ stable.origin \in {None, a}
          /\ ~attempts[a].rejected /\ ~attempts[attempts[a].accepted].rejected
      BY <2>1, <2>2, <2>4 DEF Checked, Publishing, Mutating
    <2>6. a.kind = "final" /\ attempts[a].preparation # Absent /\ attempts[a].accepted \in Attempts
      BY <2>1, <2>5 DEF Receipts, Recorded, Chosen
    <2>7. attempts[a] \in AttemptType /\ disk[a] \in Nat
      BY <2>1 DEF Retentions, Absent, Altered
    <2>8. PICK c \in AttemptType : c = [attempts[a] EXCEPT !.evidence = disk[a]]
      BY <2>7 DEF AttemptType
    <2>9. /\ c.source = attempts[a].source /\ c.accepted = attempts[a].accepted
          /\ c.reserved = attempts[a].reserved /\ c.preparation = attempts[a].preparation
          /\ c.finalization = attempts[a].finalization /\ c.rejected = attempts[a].rejected
      BY <2>7, <2>8 DEF AttemptType
    <2>10. attempts' = [attempts EXCEPT ![a] = c]
      BY <2>2, <2>4, <2>8
    <2>11. attempts'[a] = c /\ attempts'[c.accepted].rejected = attempts[c.accepted].rejected
      BY <2>1, <2>6, <2>9, <2>10 DEF Retentions
    <2>12. proc'[p].op = op /\ proc'[p].a = a /\ stable' = stable
      BY <2>2, <2>3, <2>4 DEF Onward, public
    <2>13. Chooses(p)' /\ Names(p)'
      BY <2>12 DEF Chooses, Names
    <2>14. Checked(p)'
      <3>1. /\ Exists(a)' /\ attempts'[a].finalization /\ ~attempts'[a].rejected
            /\ ~attempts'[attempts'[a].accepted].rejected
        BY <2>5, <2>9, <2>11 DEF Exists
      <3>2. CASE op = "draft"
        <4>1. stable'.origin = a
          BY <2>2, <2>4, <2>12, <3>2
        <4>2. proc'[p].op = "draft" /\ proc'[p].a = a
          BY <2>12, <3>2
        <4>3. QED BY <3>1, <4>1, <4>2 DEF Checked, Preparing, Publishing, Pushed
      <3>3. CASE op = "push"
        <4>1. stable'.origin = None
          BY <2>2, <2>4, <2>5, <2>12, <3>3
        <4>2. proc'[p].op = "push" /\ proc'[p].a = a
          BY <2>12, <3>3
        <4>3. QED BY <3>1, <4>1, <4>2 DEF Checked, Preparing, Publishing, Pushed
      <3>4. QED BY <3>2, <3>3
    <2>15. \A q \in Procs \ {p} : proc'[q] = proc[q]
      BY <2>3 DEF Onward
    <2>16. QED BY <2>2, <2>3, <2>5, <2>6, <2>9, <2>10, <2>13, <2>14, <2>15, ReceiptKeeps
  <1>3. QED BY <1>1, <1>2

\* Commit and tag are pushed together.  Nothing was out before.
LEMMA PushKeeps ==
    ASSUME IInv, NEW p \in Procs, Push(p) PROVE IInv'
  <1>1. CASE Ends(p) /\ UNCHANGED <<files, public, faults>>
    BY <1>1, EndingKeeps
  <1>2. CASE ~(Ends(p) /\ UNCHANGED <<files, public, faults>>)
    <2> DEFINE a == proc[p].a
    <2>1. /\ Step(p, "push", Tip = attempts[a].source, "draft")
          /\ history' = Append(history, [history[Tip] EXCEPT !.release = a])
          /\ stable' = [stable EXCEPT !.origin = a]
          /\ UNCHANGED <<files, rcTags, github, pypi, faults>>
      BY <1>2 DEF Push, Stops
    <2>2. /\ Types /\ Shells /\ Names(p) /\ Checked(p) /\ faults' \in 0 .. MaxFaults
          /\ proc[p].op = "push"
      BY <2>1 DEF IInv, Types, Commands, Step
    <2>3. Shells' /\ Onward(p, "draft") /\ mutation = p
      BY <2>1, <2>2, GoesKeeps DEF Step, Ops, Mutating, Shells
    <2>4. /\ a \in Attempts /\ Exists(a) /\ attempts[a].finalization
          /\ stable.origin = None
      BY <2>2 DEF Names, Checked, Mutating, Publishing
    <2>5. UNCHANGED <<attempts, head, disk, builds, rcTags, github, pypi>>
      BY <2>1 DEF files
    <2>6. /\ history \in Seq(CommitType) /\ Tip \in 1 .. MaxHistory /\ MaxHistory \in Nat
          /\ history[Tip] \in CommitType
      BY <2>2, <2>4, ReleaseAssumption, ElementOfSeq DEF Types, Branch, Tip
    <2>7. PICK c \in CommitType : /\ c = [history[Tip] EXCEPT !.release = a]
                                  /\ c.runtime = history[Tip].runtime
      <3>1. [history[Tip] EXCEPT !.release = a] \in CommitType
        BY <2>4, <2>6 DEF CommitType
      <3>2. [history[Tip] EXCEPT !.release = a].runtime = history[Tip].runtime
        BY <2>6 DEF CommitType
      <3>3. QED BY <3>1, <3>2
    <2>8. /\ history' \in Seq(CommitType) /\ Tip' = Tip + 1 /\ history'[Tip + 1] = c
          /\ \A i \in 1 .. Tip : history'[i] = history[i]
      BY <2>1, <2>6, <2>7, AppendProperties DEF Tip
    <2>9. /\ stable' \in [local : Attempts \cup {None}, origin : Attempts \cup {None}]
          /\ stable'.origin = a /\ a # None
      BY <2>1, <2>2, <2>4, Distinct DEF Types, Services
    <2>10. Branch'
      <3>1. ASSUME NEW i \in 1 .. Tip + 1 PROVE history'[i].runtime < i
        <4>1. CASE i \in 1 .. Tip
          BY <4>1, <2>2, <2>8 DEF Types, Branch
        <4>2. CASE i = Tip + 1
          <5>1. c.runtime < Tip /\ c.runtime \in Nat
            BY <2>2, <2>6, <2>7 DEF Types, Branch, CommitType
          <5>2. QED BY <4>2, <5>1, <2>6, <2>8
        <4>3. QED BY <4>1, <4>2, <2>6
      <3>2. QED BY <3>1, <2>6, <2>8, <2>9 DEF Branch, Tip
    <2>11. Retentions' /\ Services'
      BY <2>2, <2>5, <2>9 DEF Types, Retentions, Services
    <2>12. Steady
      BY <2>5, <2>6, <2>8 DEF Steady
    <2>13. Recorded'
      <3>1. ASSUME NEW b \in Attempts, Exists(b)'
            PROVE  /\ attempts'[b].source \in 1 .. Tip' /\ attempts'[b].reserved
                   /\ b.kind = "final" => Chosen(attempts[b].accepted, attempts[b].source)'
        BY <3>1, <2>5, <2>12, RecordedKeeps DEF IInv, Exists
      <3>2. QED BY <3>1 DEF Recorded
    <2>14. Receipts'
      BY <2>5 DEF IInv, Receipts, Exists
    <2>15. DOMAIN github.assets = {} /\ pypi = None
      BY <2>2, <2>4, Distinct DEF IInv, Out, Types, Services
    <2>16. github.state # "published"
      BY <2>15, ReleaseAssumption DEF IInv, Out
    <2>17. Out'
      BY <2>4, <2>5, <2>9, <2>15, <2>16 DEF Out
    <2>18. Chooses(p)' /\ Names(p)' /\ Checked(p)'
      BY <2>3, <2>4, <2>5, <2>9
         DEF Onward, Chooses, Names, Checked, Mutating, Preparing, Publishing, Pushed, Exists
    <2>19. \A q \in Procs \ {p} : proc[q].op \notin Mutating
      BY <2>2, <2>3, Alone
    <2>20. QED BY <2>2, <2>3, <2>5, <2>10, <2>11, <2>12, <2>13, <2>14, <2>17, <2>18, <2>19,
                  OneActs DEF Onward
  <1>3. QED BY <1>1, <1>2

\* The GitHub release grows under the lock, with files of the attempt that the
\* pushed tag names; what was there stays.
LEMMA ReleaseGrows ==
    ASSUME IInv, NEW p \in Procs, mutation = p,
           UNCHANGED <<files, history, rcTags, stable, pypi, faults>>,
           NEW st \in {"none", "draft", "published"}, NEW f,
           github' = [state |-> st, assets |-> f],
           DOMAIN f \subseteq Assets, f \in [DOMAIN f -> [attempt : Attempts, bytes : Nat]],
           \A x \in DOMAIN github.assets : x \in DOMAIN f /\ f[x] = github.assets[x],
           \A x \in DOMAIN f : f[x].attempt = stable.origin,
           "manifest" \in DOMAIN f => f["manifest"].bytes = attempts[stable.origin].preparation,
           st = "published" => DOMAIN f = Assets,
           Shells', \A q \in Procs \ {p} : proc'[q] = proc[q],
           Chooses(p)' /\ Names(p)' /\ Checked(p)'
    PROVE  IInv'
  <1>1. /\ Types /\ Shells /\ faults' \in 0 .. MaxFaults
        /\ UNCHANGED <<attempts, head, disk, builds, history, rcTags, stable, pypi>>
    BY DEF IInv, Types, files
  <1>2. github'.state = st /\ github'.assets = f
    OBVIOUS
  <1>3. Services'
    BY <1>1, <1>2 DEF Types, Services
  <1>4. Branch' /\ Retentions'
    BY <1>1 DEF Types, Branch, Retentions, Tip
  <1>5. Steady /\ Recorded' /\ Receipts'
    BY <1>1 DEF IInv, Types, Branch, Steady, Recorded, Chosen, Receipts, Exists, Tip
  <1>6. pypi # None => DOMAIN f = Assets /\ \A x \in Assets : f[x] = github.assets[x]
    BY <1>1 DEF IInv, Out
  <1>7. Out'
    BY <1>1, <1>2, <1>6 DEF IInv, Out, Artifacts
  <1>8. \A q \in Procs \ {p} : proc[q].op \notin Mutating
    BY <1>1, Alone
  <1>9. QED BY <1>1, <1>3, <1>4, <1>5, <1>7, <1>8, OneActs

\* What a step of a publication after the push can count on.
LEMMA AfterPush ==
    ASSUME IInv, NEW p \in Procs, proc[p].op \in Pushed
    PROVE  /\ Types /\ Shells /\ Services /\ Out /\ mutation = p
           /\ proc[p] \in ShellType /\ proc[p].a \in Attempts /\ Exists(proc[p].a)
           /\ attempts[proc[p].a].finalization /\ stable.origin = proc[p].a
           /\ proc[p].op = "upload" => Assets \ proc[p].todo \subseteq DOMAIN github.assets
           /\ proc[p].op = "undraft" => DOMAIN github.assets = Assets
  <1>1. Types /\ Shells /\ Services /\ Out /\ Names(p) /\ Checked(p)
    BY DEF IInv, Types, Commands
  <1>2. proc[p].op \in Mutating /\ proc[p].op \in Publishing
    BY DEF Pushed, Publishing, Mutating
  <1>3. mutation = p /\ proc[p] \in ShellType
    BY <1>1, <1>2 DEF Shells
  <1>4. QED BY <1>1, <1>2, <1>3 DEF Names, Checked

\* A command goes on under the mutation lock with another list of things to do.
LEMMA GoesOnKeeps ==
    ASSUME Shells, NEW p \in Procs, NEW c \in ShellType, proc' = [proc EXCEPT ![p] = c],
           proc[p].op \in Mutating, c.op \in Mutating, UNCHANGED locks
    PROVE  Shells' /\ proc'[p] = c /\ \A q \in Procs \ {p} : proc'[q] = proc[q]
  <1>1. proc'[p] = c /\ \A q \in Procs \ {p} : proc'[q] = proc[q]
    BY DEF Shells
  <1>2. proc[p].op \notin {"reserve", "record"} /\ c.op \notin {"reserve", "record"}
    BY DEF Mutating
  <1>3. QED BY <1>1, <1>2 DEF Shells, locks

\* A draft is made or resumed; every file is to be uploaded or compared.
LEMMA DraftKeeps ==
    ASSUME IInv, NEW p \in Procs, Draft(p) PROVE IInv'
  <1>1. proc[p].op = "draft" /\ proc[p].op \in Pushed
    BY DEF Draft, Pushed
  <1>2. /\ Shells /\ Services /\ Out /\ mutation = p /\ proc[p] \in ShellType
        /\ proc[p].a \in Attempts /\ Exists(proc[p].a) /\ attempts[proc[p].a].finalization
        /\ stable.origin = proc[p].a
    BY <1>1, AfterPush
  <1>3. PICK c \in ShellType :
          /\ proc' = [proc EXCEPT ![p] = c]
          /\ c.op = "upload" /\ c.a = proc[p].a /\ c.todo = Assets
    <2>1. [proc[p] EXCEPT !.op = "upload", !.todo = Assets] \in ShellType
      BY <1>2 DEF ShellType, Ops, Mutating
    <2>2. proc' = [proc EXCEPT ![p] = [proc[p] EXCEPT !.op = "upload", !.todo = Assets]]
      BY DEF Draft
    <2>3. QED BY <2>1, <2>2, <1>2 DEF ShellType
  <1>4. Keeps /\ proc[p].op \in Mutating /\ c.op \in Mutating
    BY <1>1, <1>3 DEF Draft, Mutating
  <1>5. Shells' /\ proc'[p] = c /\ \A q \in Procs \ {p} : proc'[q] = proc[q]
    BY <1>2, <1>3, <1>4, GoesOnKeeps DEF Keeps
  <1>6. attempts' = attempts /\ stable' = stable
    BY DEF Draft, files
  <1>7. Chooses(p)' /\ Names(p)' /\ Checked(p)'
    BY <1>2, <1>3, <1>5, <1>6 DEF Chooses, Names, Checked, Mutating, Preparing, Publishing, Pushed, Exists
  <1>8. github' = [state |-> "draft", assets |-> github.assets]
    BY <1>2 DEF Draft, Services
  <1>9. UNCHANGED <<files, history, rcTags, stable, pypi, faults>>
    BY DEF Draft
  <1>10. QED BY <1>2, <1>5, <1>7, <1>8, <1>9, ReleaseGrows DEF Services, Out

\* The release is published with every file.
LEMMA UndraftKeeps ==
    ASSUME IInv, NEW p \in Procs, Undraft(p) PROVE IInv'
  <1>1. proc[p].op = "undraft" /\ proc[p].op \in Pushed
    BY DEF Undraft, Pushed
  <1>2. /\ Shells /\ Services /\ Out /\ mutation = p /\ DOMAIN github.assets = Assets
    BY <1>1, AfterPush
  <1>3. Shells' /\ Over(p)
    BY <1>2, EndsKeeps DEF Undraft
  <1>4. Chooses(p)' /\ Names(p)' /\ Checked(p)'
    BY <1>3, OverKnows DEF Over
  <1>5. github' = [state |-> "published", assets |-> github.assets]
    BY <1>2 DEF Undraft, Services
  <1>6. UNCHANGED <<files, history, rcTags, stable, pypi, faults>>
    BY DEF Undraft
  <1>7. QED BY <1>2, <1>3, <1>4, <1>5, <1>6, ReleaseGrows DEF Services, Out, Over

\* A file is uploaded, or was there and is the same.
LEMMA UploadKeeps ==
    ASSUME IInv, NEW p \in Procs, Upload(p) PROVE IInv'
  <1>1. CASE Ends(p) /\ UNCHANGED <<files, public, faults>>
    BY <1>1, EndingKeeps
  <1>2. proc[p].op = "upload" /\ proc[p].op \in Pushed
    BY DEF Upload, Step, Stops, Pushed
  <1>3. /\ Types /\ Shells /\ Services /\ Out /\ mutation = p /\ proc[p] \in ShellType
        /\ proc[p].a \in Attempts /\ Exists(proc[p].a) /\ attempts[proc[p].a].finalization
        /\ stable.origin = proc[p].a
        /\ Assets \ proc[p].todo \subseteq DOMAIN github.assets
    BY <1>2, AfterPush
  <1>4. CASE Step(p, "upload", proc[p].todo = {}, "undraft") /\ UNCHANGED <<files, public, faults>>
    <2>1. Shells' /\ Onward(p, "undraft")
      BY <1>3, <1>4, GoesKeeps DEF Step, Ops, Mutating
    <2>2. DOMAIN github.assets = Assets
      BY <1>3, <1>4 DEF Step, Services
    <2>3. UNCHANGED <<attempts, stable, github>>
      BY <1>4 DEF files, public
    <2>4. Chooses(p)' /\ Names(p)' /\ Checked(p)'
      BY <1>3, <2>1, <2>2, <2>3
         DEF Onward, Chooses, Names, Checked, Mutating, Preparing, Publishing, Pushed, Exists
    <2>5. faults' \in 0 .. MaxFaults
      BY <1>3, <1>4 DEF Types
    <2>6. QED BY <1>4, <2>1, <2>4, <2>5, OneThinks DEF Onward
  <1>5. ASSUME NEW x \in proc[p].todo, Keeps,
               x \in DOMAIN github.assets => github.assets[x] = File(proc[p].a, x),
               proc' = [proc EXCEPT ![p].todo = @ \ {x}],
               github' = [github EXCEPT !.assets =
                            [y \in DOMAIN github.assets \cup {x} |->
                                IF y = x THEN File(proc[p].a, x) ELSE @[y]]],
               UNCHANGED <<files, history, rcTags, stable, pypi, faults>>
        PROVE  IInv'
    <2> DEFINE a == proc[p].a
               there == DOMAIN github.assets
               f == [y \in there \cup {x} |->
                        IF y = x THEN File(a, x) ELSE github.assets[y]]
    <2>1. github' = [state |-> github.state, assets |-> f]
      BY <1>3, <1>5 DEF Services
    <2>2. x \in Assets /\ there \subseteq Assets /\ there \cup {x} \subseteq Assets
      BY <1>3, <1>5 DEF ShellType, Services
    <2>3. File(a, x) \in [attempt : Attempts, bytes : Nat] /\ File(a, x).attempt = stable.origin
          /\ (x = "manifest" => File(a, x).bytes = attempts[stable.origin].preparation)
      <3>1. disk[a] \in Nat /\ attempts[a].evidence \in Nat /\ attempts[a].preparation \in Nat
        BY <1>3 DEF Types, Retentions, AttemptType, Absent, Altered
      <3>2. QED BY <1>3, <3>1 DEF File
    <2>4. /\ DOMAIN f = there \cup {x} /\ f[x] = File(a, x)
          /\ \A y \in there : f[y] = github.assets[y]
      BY <1>5
    <2>5. f \in [DOMAIN f -> [attempt : Attempts, bytes : Nat]]
      BY <1>3, <2>3 DEF Services
    <2>6. \A y \in DOMAIN f : f[y].attempt = stable.origin
      BY <1>3, <2>3, <2>4 DEF Out
    <2>7. "manifest" \in DOMAIN f => f["manifest"].bytes = attempts[stable.origin].preparation
      BY <1>3, <2>3, <2>4 DEF Out
    <2>8. github.state = "published" => DOMAIN f = Assets
      BY <1>3, <2>2, <2>4 DEF Out
    <2>9. PICK c \in ShellType : /\ proc' = [proc EXCEPT ![p] = c] /\ c.op = "upload"
                                 /\ c.a = a /\ c.todo = proc[p].todo \ {x}
      <3>1. [proc[p] EXCEPT !.todo = proc[p].todo \ {x}] \in ShellType
        BY <1>3 DEF ShellType
      <3>2. proc' = [proc EXCEPT ![p] = [proc[p] EXCEPT !.todo = proc[p].todo \ {x}]]
        BY <1>5
      <3>3. QED BY <3>1, <3>2, <1>2, <1>3 DEF ShellType
    <2>10. Keeps /\ proc[p].op \in Mutating /\ c.op \in Mutating
      BY <1>2, <1>5, <2>9 DEF Mutating
    <2>11. Shells' /\ proc'[p] = c /\ \A q \in Procs \ {p} : proc'[q] = proc[q]
      BY <1>3, <2>9, <2>10, GoesOnKeeps DEF Keeps
    <2>12. UNCHANGED <<attempts, stable>> /\ github'.assets = f
      BY <1>5, <2>1 DEF files
    <2>13. Assets \ c.todo \subseteq DOMAIN f
      BY <1>3, <2>4, <2>9
    <2> HIDE DEF f
    <2>14. Chooses(p)' /\ Names(p)' /\ Checked(p)'
      BY <1>3, <2>9, <2>11, <2>12, <2>13
         DEF Chooses, Names, Checked, Mutating, Preparing, Publishing, Pushed, Exists
    <2>15. DOMAIN f \subseteq Assets /\ \A y \in there : y \in DOMAIN f /\ f[y] = github.assets[y]
      BY <2>2, <2>4
    <2>16. github.state \in {"none", "draft", "published"}
      BY <1>3 DEF Services
    <2>17. QED BY <1>3, <1>5, <2>1, <2>5, <2>6, <2>7, <2>8, <2>11, <2>14, <2>15, <2>16,
                  ReleaseGrows
  <1>6. QED BY <1>1, <1>4, <1>5 DEF Upload, Stops

---------------------------------------------------------------------------
(* Identities *)

\* A number that is free is not that of an attempt that exists.
LEMMA FreeIsNew ==
    ASSUME IInv, NEW a \in Attempts, a \notin Consumed
    PROVE  ~Exists(a)
  BY DEF IInv, Recorded, Consumed

\* The identity is reserved by its directory; the shell keeps what it has chosen.
LEMMA ReserveKeeps ==
    ASSUME IInv, NEW p \in Procs, Reserve(p) PROVE IInv'
  <1> DEFINE r == proc[p].rc
             final == {n \in Finals : \A c \in Consumed : c.kind = "final" => c.n < n}
             free == IF r = None
                       THEN {proc[p].a} \ {b \in Attempts : \E c \in Consumed :
                                                            c.kind = "rc" /\ c.n >= b.n}
                       ELSE {Final(n) : n \in {m \in final : \A k \in final : m <= k}}
  <1>1. /\ Types /\ Shells /\ Chooses(p) /\ proc[p].op = "reserve" /\ proc[p] \in ShellType
        /\ allocation = p /\ Consumed \subseteq Attempts
    BY DEF IInv, Types, Commands, Reserve, Shells, Consumed, Services
  <1>2. UNCHANGED <<head, disk, builds, public, faults>>
    BY DEF Reserve
  <1>3. CASE Ends(p) /\ UNCHANGED attempts
    BY <1>2, <1>3, EndingKeeps DEF files
  <1>4. ASSUME NEW a \in free,
               attempts' = [b \in Attempts |->
                    [attempts[b] EXCEPT !.reserved = @ \/ b = a, !.approval = @ \/ b = r]],
               proc' = [proc EXCEPT ![p].op = "record", ![p].a = a], Keeps
        PROVE  IInv'
    <2>1. a \in Attempts /\ (r = None => a.kind = "rc") /\ ~Exists(a)
      <3>1. CASE r = None
        <4>1. a = proc[p].a /\ a \in Attempts /\ a.kind = "rc"
          BY <1>1, <3>1 DEF Chooses
        <4>2. a \notin Consumed
          BY <3>1, <4>1, Distinct
        <4>3. QED BY <4>1, <4>2, FreeIsNew
      <3>2. CASE r # None
        <4>1. PICK n \in final : a = Final(n)
          BY <3>2
        <4>2. a \in Attempts /\ a.kind = "final" /\ a.n = n /\ n \in Nat
          BY <4>1, Distinct
        <4>3. a \notin Consumed
          BY <4>1, <4>2
        <4>4. QED BY <3>2, <4>2, <4>3, FreeIsNew
      <3>3. QED BY <3>1, <3>2
    <2> HIDE DEF free
    <2>2. ASSUME NEW b \in Attempts
          PROVE  /\ attempts'[b] \in AttemptType
                 /\ attempts'[b].source = attempts[b].source
                 /\ attempts'[b].accepted = attempts[b].accepted
                 /\ attempts'[b].build = attempts[b].build
                 /\ attempts'[b].preparation = attempts[b].preparation
                 /\ attempts'[b].acceptance = attempts[b].acceptance
                 /\ attempts'[b].evidence = attempts[b].evidence
                 /\ attempts'[b].finalization = attempts[b].finalization
                 /\ attempts'[b].rejected = attempts[b].rejected
                 /\ attempts'[b].reserved = (attempts[b].reserved \/ b = a)
      <3>1. attempts[b] \in AttemptType
        BY <1>1 DEF Types, Retentions
      <3>2. attempts'[b] = [attempts[b] EXCEPT !.reserved = attempts[b].reserved \/ b = a,
                                               !.approval = attempts[b].approval \/ b = r]
        BY <1>4
      <3>3. QED BY <3>1, <3>2 DEF AttemptType
    <2>3. /\ attempts' = [b \in Attempts |-> attempts'[b]]
          /\ UNCHANGED <<history, rcTags, stable, github, pypi>>
      BY <1>2, <1>4 DEF public
    <2>4. attempts' \in [Attempts -> AttemptType]
      BY <2>2, <2>3
    <2>5. Branch' /\ Retentions' /\ Services' /\ faults' \in 0 .. MaxFaults
      BY <1>1, <1>2, <2>3, <2>4 DEF Types, Branch, Retentions, Services, Tip
    <2>6. Steady /\ SameReceipts
      <3>1. SameReceipts
        BY <2>2 DEF SameReceipts
      <3>2. \A b \in Attempts : attempts[b].reserved => attempts'[b].reserved
        BY <2>2, Zenon
      <3>3. Tip' = Tip /\ Tip \in Nat /\ history' = history
        BY <1>1, <2>3 DEF Types, Branch, Tip
      <3>4. QED BY <2>2, <3>1, <3>2, <3>3 DEF Steady
    <2>7. Recorded'
      <3>1. ASSUME NEW b \in Attempts, Exists(b)'
            PROVE  /\ attempts'[b].source \in 1 .. Tip' /\ attempts'[b].reserved
                   /\ b.kind = "final" => Chosen(attempts[b].accepted, attempts[b].source)'
        BY <3>1, <1>1, <2>2, <2>6, RecordedKeeps DEF IInv, Exists
      <3>2. QED BY <3>1 DEF Recorded
    <2>8. Receipts'
      BY <2>2 DEF IInv, Receipts, Exists
    <2>9. Out'
      <3>1. stable.origin # None => stable.origin \in Attempts
        BY <1>1 DEF Types, Services
      <3>2. "manifest" \in DOMAIN github.assets => stable.origin # None
        BY <1>1, Distinct DEF IInv, Out, Types, Services
      <3>3. QED BY <2>2, <2>3, <3>1, <3>2 DEF IInv, Out
    <2>10. PICK c \in ShellType : /\ proc' = [proc EXCEPT ![p] = c] /\ c.op = "record"
                                  /\ c.a = a /\ c.rc = r /\ c.source = proc[p].source
      <3>1. [proc[p] EXCEPT !.op = "record", !.a = a] \in ShellType
        BY <1>1, <2>1 DEF ShellType, Ops
      <3>2. proc' = [proc EXCEPT ![p] = [proc[p] EXCEPT !.op = "record", !.a = a]]
        BY <1>4
      <3>3. QED BY <3>1, <3>2, <1>1 DEF ShellType
    <2>11. proc'[p] = c /\ \A q \in Procs \ {p} : proc'[q] = proc[q]
      BY <1>1, <2>10 DEF Shells
    <2>12. UNCHANGED <<allocation, mutation>> /\ "reserve" \notin Mutating /\ "record" \notin Mutating
      BY <1>4 DEF Keeps, locks, Mutating
    <2>13. Shells'
      BY <1>1, <2>10, <2>11, <2>12 DEF Shells
    <2>14. Chooses(p)'
      <3>1. CASE r = None
        BY <1>1, <2>1, <2>3, <2>10, <2>11, <3>1 DEF Chooses, Tip
      <3>2. CASE r # None
        <4>1. Chosen(r, proc[p].source) /\ proc[p].source \in 1 .. Tip
          BY <1>1, <3>2 DEF Chooses
        <4>2. Chosen(c.rc, c.source)'
          BY <4>1, <2>6, <2>10, <1>1, SteadyChosen DEF IInv, Chosen, Exists
        <4>3. QED BY <2>3, <2>10, <2>11, <3>2, <4>1, <4>2 DEF Chooses, Chosen, Exists, Tip
      <3>3. QED BY <3>1, <3>2
    <2>15. Names(p)' /\ Checked(p)'
      <3>1. attempts'[a].source = 0 /\ attempts'[a].reserved
        BY <2>1, <2>2 DEF Exists
      <3>2. proc'[p].op = "record" /\ proc'[p].a = a /\ proc'[p].rc = r
        BY <2>10, <2>11
      <3>3. a.kind = "final" => r # None
        BY <2>1
      <3>4. Names(p)'
        BY <2>1, <3>1, <3>2, <3>3 DEF Names, Exists
      <3>5. Checked(p)'
        BY <3>2 DEF Checked, Mutating, Preparing, Publishing, Pushed
      <3>6. QED BY <3>4, <3>5
    <2>16. \A q \in Procs \ {p} : proc[q].op = "record" =>
                    attempts'[proc[q].a].source = attempts[proc[q].a].source
      BY <2>2 DEF IInv, Commands, Names
    <2>17. QED BY <2>3, <2>5, <2>6, <2>7, <2>8, <2>9, <2>11, <2>13, <2>14, <2>15, <2>16,
                  OneActs DEF SameOut
  <1>5. QED BY <1>3, <1>4 DEF Reserve

\* attempt.json: what was chosen becomes what the attempt was made from.
LEMMA RecordKeeps ==
    ASSUME IInv, NEW p \in Procs, Record(p) PROVE IInv'
  <1>1. /\ Types /\ Shells /\ Chooses(p) /\ Names(p) /\ proc[p].op = "record"
        /\ proc[p] \in ShellType /\ allocation = p
    BY DEF IInv, Types, Commands, Record, Shells
  <1>2. PICK a \in Attempts : a = proc[p].a
    BY <1>1 DEF Names
  <1>3. /\ ~Exists(a) /\ attempts[a].reserved /\ (a.kind = "final" => proc[p].rc # None)
        /\ proc[p].source \in 1 .. Tip /\ Tip \in Nat
        /\ proc[p].rc # None => Chosen(proc[p].rc, proc[p].source)
    BY <1>1, <1>2 DEF Names, Chooses, Types, Branch
  <1>4. UNCHANGED <<head, disk, builds, history, rcTags, stable, github, pypi, faults, mutation>>
    BY DEF Record, public
  <1>5. PICK c \in AttemptType :
          /\ attempts' = [attempts EXCEPT ![a] = c]
          /\ c.source = proc[p].source /\ c.accepted = proc[p].rc /\ c.build = attempts[a].build
          /\ c.reserved = attempts[a].reserved /\ c.preparation = attempts[a].preparation
          /\ c.evidence = attempts[a].evidence /\ c.finalization = attempts[a].finalization
          /\ c.rejected = attempts[a].rejected /\ c.acceptance = attempts[a].acceptance
    <2>1. attempts[a] \in AttemptType
      BY <1>1 DEF Types, Retentions
    <2>2. [attempts[a] EXCEPT !.source = proc[p].source, !.accepted = proc[p].rc] \in AttemptType
      BY <1>1, <2>1 DEF AttemptType, ShellType
    <2>3. attempts' = [attempts EXCEPT ![a] =
              [attempts[a] EXCEPT !.source = proc[p].source, !.accepted = proc[p].rc]]
      BY <1>2 DEF Record
    <2>4. QED BY <2>1, <2>2, <2>3 DEF AttemptType
  <1>6. /\ attempts'[a] = c /\ \A b \in Attempts \ {a} : attempts'[b] = attempts[b]
        /\ attempts' \in [Attempts -> AttemptType]
    BY <1>1, <1>5 DEF Types, Retentions
  <1>7. Branch' /\ Retentions' /\ Services' /\ faults' \in 0 .. MaxFaults
    BY <1>1, <1>4, <1>6 DEF Types, Branch, Retentions, Services, Tip
  <1>8. Steady /\ SameReceipts /\ SameOut
    <2>1. \A b \in Attempts : attempts[b].reserved => attempts'[b].reserved
      BY <1>5, <1>6
    <2>2. \A b \in Attempts : Exists(b) => attempts'[b] = attempts[b]
      BY <1>3, <1>6
    <2>3. SameReceipts
      BY <1>5, <1>6 DEF SameReceipts
    <2>4. QED BY <1>3, <1>4, <2>1, <2>2, <2>3 DEF Steady, SameOut, Tip
  <1>9. Recorded'
    <2>1. ASSUME NEW b \in Attempts, Exists(b)'
          PROVE  /\ attempts'[b].source \in 1 .. Tip' /\ attempts'[b].reserved
                 /\ b.kind = "final" => Chosen(attempts[b].accepted, attempts[b].source)'
      <3>1. CASE b = a
        <4>1. attempts'[b].source \in 1 .. Tip' /\ attempts'[b].reserved
          BY <3>1, <1>3, <1>4, <1>5, <1>6 DEF Tip
        <4>2. b.kind = "final" => Chosen(attempts[b].accepted, attempts[b].source)'
          BY <3>1, <1>1, <1>3, <1>5, <1>6, <1>8, SteadyChosen DEF IInv, Chosen, Exists
        <4>3. QED BY <4>1, <4>2
      <3>2. CASE b # a
        <4>1. Exists(b)
          BY <2>1, <3>2, <1>6 DEF Exists
        <4>2. QED BY <4>1, <1>1, <1>8, RecordedKeeps DEF IInv
      <3>3. QED BY <3>1, <3>2
    <2>2. QED BY <2>1 DEF Recorded
  <1>10. \A b \in Attempts : Exists(b) => Exists(b)'
    BY <1>1, <1>8, RecordedKeeps DEF IInv
  <1>11. Receipts'
    BY <1>8, <1>10 DEF IInv, Receipts, SameReceipts
  <1>12. Out'
    <2>1. stable.origin # None => stable.origin \in Attempts
      BY <1>1 DEF Types, Services
    <2>2. "manifest" \in DOMAIN github.assets => stable.origin # None
      BY <1>1, Distinct DEF IInv, Out, Types, Services
    <2>3. QED BY <1>4, <1>8, <2>1, <2>2 DEF IInv, Out, SameReceipts
  <1>13. Onward(p, "checkout") /\ proc' \in [Procs -> ShellType]
    BY <1>1, GoesDoes DEF Record, Ops
  <1>14. Shells'
    BY <1>1, <1>4, <1>13, Distinct DEF Record, Shells, Onward, Mutating
  <1>15. Chooses(p)' /\ Names(p)' /\ Checked(p)'
    BY <1>2, <1>13 DEF Onward, Chooses, Names, Checked, Mutating, Preparing, Publishing, Pushed
  <1>16. \A q \in Procs \ {p} : proc[q].op # "record"
    BY <1>1 DEF Shells
  <1>17. QED BY <1>7, <1>8, <1>9, <1>11, <1>12, <1>13, <1>14, <1>15, <1>16, OneActs DEF Onward

---------------------------------------------------------------------------
(* The branch, the workflow, and what happens to locks and disks *)

\* No shell acts: all know what they knew.
LEMMA NobodyActs ==
    ASSUME IInv, Steady, UNCHANGED proc, SameReceipts, SameOut,
           \A a \in Attempts : attempts'[a].source = attempts[a].source,
           Shells', Branch', Retentions', Services', faults' \in 0 .. MaxFaults,
           Recorded', Receipts', Out'
    PROVE  IInv'
  <1>1. \A q \in Procs : proc[q].op = "record" =>
            attempts'[proc[q].a].source = attempts[proc[q].a].source
    BY DEF IInv, Commands, Names
  <1>2. \A q \in Procs : Chooses(q)' /\ Names(q)' /\ Checked(q)'
    BY <1>1, OthersKeep
  <1>3. Commands'
    BY <1>2 DEF Commands
  <1>4. QED BY <1>3 DEF IInv, Types

\* The branch grows by a commit whose runtime is at most one further.
LEMMA CommitKeeps ==
    ASSUME IInv, NEW c \in CommitType, c.runtime <= history[Tip].runtime + 1,
           Tip < MaxHistory, history' = Append(history, c),
           UNCHANGED <<files, rcTags, stable, github, pypi, proc, locks, faults>>
    PROVE  IInv'
  <1>1. /\ Types /\ Shells /\ Branch /\ MaxHistory \in Nat
        /\ UNCHANGED <<files, rcTags, stable, github, pypi, proc, locks, faults>>
    BY ReleaseAssumption DEF IInv, Types
  <1>2. UNCHANGED <<attempts, head, disk, builds, allocation, mutation>>
    BY <1>1 DEF files, locks
  <1>3. /\ history \in Seq(CommitType) /\ Tip \in 1 .. MaxHistory /\ Tip < MaxHistory
        /\ history[Tip].runtime < Tip /\ history[Tip].runtime \in Nat /\ c.runtime \in Nat
    <2>1. /\ history \in Seq(CommitType) /\ Tip \in 1 .. MaxHistory /\ Tip < MaxHistory
          /\ history[Tip].runtime < Tip
      BY <1>1 DEF Branch
    <2>2. history[Tip] \in CommitType
      BY <2>1, ElementOfSeq DEF Tip
    <2>3. QED BY <1>1, <2>1, <2>2 DEF CommitType
  <1>4. /\ history' \in Seq(CommitType) /\ Tip' = Tip + 1 /\ history'[Tip + 1] = c
        /\ \A i \in 1 .. Tip : history'[i] = history[i]
    BY <1>3, AppendProperties DEF Tip
  <1>5. Branch'
    <2>1. ASSUME NEW i \in 1 .. Tip + 1 PROVE history'[i].runtime < i
      <3>1. CASE i \in 1 .. Tip
        <4>1. \A k \in 1 .. Tip : history[k].runtime < k
          BY <1>1 DEF Branch
        <4>2. history[i].runtime < i
          BY <3>1, <4>1
        <4>3. history'[i] = history[i]
          BY <3>1, <1>4
        <4>4. QED BY <4>2, <4>3
      <3>2. CASE i = Tip + 1
        BY <3>2, <1>3, <1>4
      <3>3. i \in 1 .. Tip \/ i = Tip + 1
        BY <1>1, <1>3
      <3>4. QED BY <3>1, <3>2, <3>3
    <2>2. QED BY <2>1, <1>1, <1>3, <1>4 DEF Branch, Tip
  <1>6. Shells' /\ Retentions' /\ Services' /\ faults' \in 0 .. MaxFaults
    BY <1>1, <1>2 DEF Types, Shells, Retentions, Services
  <1>7. Steady /\ SameReceipts /\ SameOut
    <2>1. SameReceipts /\ SameOut
      BY <1>1, <1>2 DEF SameReceipts, SameOut
    <2>2. Tip' \in Nat /\ Tip <= Tip'
      BY <1>3, <1>4
    <2>3. QED BY <1>2, <1>4, <2>1, <2>2 DEF Steady
  <1>8. Recorded'
    <2>1. ASSUME NEW b \in Attempts, Exists(b)'
          PROVE  /\ attempts'[b].source \in 1 .. Tip' /\ attempts'[b].reserved
                 /\ b.kind = "final" => Chosen(attempts[b].accepted, attempts[b].source)'
      BY <2>1, <1>1, <1>2, <1>7, RecordedKeeps DEF IInv, Exists
    <2>2. QED BY <2>1 DEF Recorded
  <1>9. Receipts' /\ Out'
    BY <1>1, <1>2 DEF IInv, Receipts, Out, Exists
  <1>10. QED BY <1>1, <1>2, <1>5, <1>6, <1>7, <1>8, <1>9, NobodyActs

\* Merges, approvals and withdrawals are such commits.
LEMMA DeveloperKeeps ==
    ASSUME IInv, Developer PROVE IInv'
  <1>1. Tip < MaxHistory /\ history[Tip] \in CommitType /\ history[Tip].runtime + 1 \in 0 .. MaxHistory
    <2>1. Tip < MaxHistory
      BY DEF Developer, Merge, Approve, Withdraw, Commit, Tip
    <2>2. /\ history \in Seq(CommitType) /\ Tip \in 1 .. MaxHistory /\ MaxHistory \in Nat
          /\ history[Tip].runtime < Tip
      BY <2>1, ReleaseAssumption DEF IInv, Types, Branch
    <2>3. history[Tip] \in CommitType
      BY <2>2, ElementOfSeq DEF Tip
    <2>4. history[Tip].runtime \in Nat
      BY <2>2, <2>3 DEF CommitType
    <2>5. QED BY <2>1, <2>2, <2>3, <2>4
  <1>2. CASE Merge
    <2>1. PICK c : c = [history[Tip] EXCEPT !.runtime = history[Tip].runtime + 1, !.release = None]
      OBVIOUS
    <2>2. c \in CommitType /\ c.runtime = history[Tip].runtime + 1
      BY <1>1, <2>1 DEF CommitType
    <2>3. c.runtime <= history[Tip].runtime + 1
      BY <2>2, <1>1
    <2>4. /\ history' = Append(history, c)
          /\ UNCHANGED <<files, rcTags, stable, github, pypi, proc, locks, faults>>
      BY <1>2, <2>1 DEF Merge, Commit
    <2>5. QED BY <1>1, <2>2, <2>3, <2>4, CommitKeeps
  <1>3. ASSUME NEW r \in Attempts \cup {None},
               history' = Append(history, [history[Tip] EXCEPT !.approved = r, !.release = None]),
               UNCHANGED <<files, rcTags, stable, github, pypi, proc, locks, faults>>
        PROVE  IInv'
    <2>1. PICK c : c = [history[Tip] EXCEPT !.approved = r, !.release = None]
      OBVIOUS
    <2>2. c \in CommitType /\ c.runtime = history[Tip].runtime
      BY <1>1, <2>1 DEF CommitType
    <2>3. c.runtime <= history[Tip].runtime + 1
      BY <1>1, <2>2 DEF CommitType
    <2>4. QED BY <1>1, <1>3, <2>1, <2>2, <2>3, CommitKeeps
  <1>4. ASSUME NEW n \in RCs, Approve(Rc(n)) PROVE IInv'
    BY <1>3, <1>4, Distinct DEF Approve, Commit
  <1>5. CASE Withdraw
    BY <1>3, <1>5 DEF Withdraw, Commit
  <1>6. QED BY <1>2, <1>4, <1>5 DEF Developer

\* The artifacts of a published release are equal to its manifest, which has the
\* hashes of the preparation.
LEMMA WorkflowKeeps ==
    ASSUME IInv, Workflow PROVE IInv'
  <1>1. /\ Types /\ Services /\ Out /\ pypi' = stable.origin
        /\ UNCHANGED <<files, history, rcTags, stable, github, proc, locks, faults>>
        /\ DOMAIN github.assets = Assets
    BY DEF IInv, Types, Workflow, Out
  <1>2. UNCHANGED <<attempts, head, disk, builds, allocation, mutation>>
    BY <1>1 DEF files, locks
  <1>3. "manifest" \in Assets
    BY ReleaseAssumption
  <1>4. stable.origin \in Attempts
    BY <1>1, <1>3 DEF Out, Services
  <1>5. ASSUME NEW x \in Artifacts
        PROVE  github.assets[x]
                  = [attempt |-> stable.origin, bytes |-> attempts[stable.origin].preparation]
    <2>1. github.assets[x] = github.assets["manifest"]
      BY <1>3 DEF Workflow
    <2>2. /\ github.assets["manifest"] \in [attempt : Attempts, bytes : Nat]
          /\ github.assets["manifest"].attempt = stable.origin
          /\ github.assets["manifest"].bytes = attempts[stable.origin].preparation
      BY <1>1, <1>3 DEF Services, Out
    <2>3. QED BY <2>1, <2>2
  <1>6. Out'
    BY <1>1, <1>2, <1>5 DEF Out
  <1>7. Shells' /\ Branch' /\ Retentions' /\ Services' /\ faults' \in 0 .. MaxFaults
    BY <1>1, <1>2, <1>4 DEF Types, Shells, Branch, Retentions, Services, Tip
  <1>8. Steady /\ SameReceipts /\ SameOut /\ Recorded' /\ Receipts'
    BY <1>1, <1>2 DEF IInv, Types, Branch, Steady, SameReceipts, SameOut, Recorded, Chosen,
       Receipts, Exists, Tip
  <1>9. QED BY <1>1, <1>2, <1>6, <1>7, <1>8, NobodyActs

\* Stale locks are removed, artifacts altered.
LEMMA OutsideKeeps ==
    ASSUME IInv, Inspect \/ \E a \in Attempts : Change(a) PROVE IInv'
  <1>1. /\ Types /\ Shells
        /\ UNCHANGED <<history, attempts, stable, github, pypi, rcTags, proc, head, builds>>
    BY DEF IInv, Types, Inspect, Change, files, public
  <1>2. /\ Steady /\ SameReceipts /\ SameOut /\ Branch' /\ Recorded' /\ Receipts' /\ Out'
    BY <1>1, SilentKeeps
  <1>3. Shells'
    <2>1. CASE Inspect
      BY <2>1, <1>1, Distinct DEF Inspect, Shells
    <2>2. CASE UNCHANGED locks
      BY <2>2, <1>1 DEF locks, Shells
    <2>3. QED BY <2>1, <2>2 DEF Change
  <1>4. disk' \in [Attempts -> {Absent, 1, Altered}] /\ faults' \in 0 .. MaxFaults
    BY <1>1, ReleaseAssumption DEF Types, Retentions, Inspect, Change, Fault, files
  <1>5. Retentions' /\ Services'
    BY <1>1, <1>4 DEF Types, Retentions, Services
  <1>6. QED BY <1>1, <1>2, <1>3, <1>4, <1>5, NobodyActs

---------------------------------------------------------------------------
(* The invariant *)

\* The empty clone.
LEMMA InitIInv == Init => IInv
  <1> SUFFICES ASSUME Init PROVE IInv
    OBVIOUS
  <1>1. Shells
    BY IdleType, Distinct DEF Init, Shells, Idle, Mutating
  <1>2. Branch
    <2>1. [runtime |-> 0, approved |-> None, release |-> None] \in CommitType
      BY ReleaseAssumption DEF CommitType
    <2>2. history \in Seq(CommitType) /\ Tip = 1 /\ history[1].runtime = 0
      BY <2>1 DEF Init, Tip
    <2>3. QED BY <2>2, ReleaseAssumption DEF Branch
  <1>3. Retentions
    <2>1. Empty \in AttemptType
      BY DEF Empty, AttemptType, Absent
    <2>2. QED BY <2>1 DEF Init, Retentions
  <1>4. Services /\ faults \in 0 .. MaxFaults
    BY ReleaseAssumption DEF Init, Services
  <1>5. Recorded /\ Receipts
    BY DEF Init, Recorded, Receipts, Exists, Empty
  <1>6. Commands
    BY DEF Init, Commands, Chooses, Names, Checked, Idle, Mutating, Preparing, Publishing, Pushed
  <1>7. Out
    BY DEF Init, Out
  <1>8. QED BY <1>1, <1>2, <1>3, <1>4, <1>5, <1>6, <1>7 DEF IInv, Types

\* A command that is under way.
LEMMA WorkKeeps ==
    ASSUME IInv, NEW p \in Procs, Works(p) PROVE IInv'
  <1>1. CASE Allocate(p) \/ Reserve(p) \/ Record(p) \/ CheckOut(p) \/ Refused(p)
    BY <1>1, AllocateKeeps, ReserveKeeps, RecordKeeps, CheckOutKeeps, RefusedKeeps
  <1>2. CASE proc[p].op = "prepare" /\ BeginPrepare(p, proc[p].a)
    <2>1. PICK a \in Attempts : a = proc[p].a
      BY <1>2 DEF IInv, Commands, Names
    <2>2. QED BY <1>2, <2>1, CommandsBegin
  <1>3. CASE Metadata(p) \/ CommitReceipt(p) \/ Tag(p) \/ PushTag(p)
             \/ Build(p) \/ Preserve(p) \/ RecordBuild(p)
    BY <1>3, PreparationSilent, PreparationReceipts
  <1>4. CASE \/ Readiness(p) \/ Preparation(p) \/ Acceptance(p) \/ Reject(p)
             \/ StableTag(p) \/ Finalization(p)
    BY <1>4, PreparationSilent, LastReceipts, StableTagKeeps
  <1>5. CASE Evidence(p) \/ Push(p) \/ Draft(p) \/ Upload(p) \/ Undraft(p)
    BY <1>5, EvidenceKeeps, PushKeeps, DraftKeeps, UploadKeeps, UndraftKeeps
  <1>6. QED BY <1>1, <1>2, <1>3, <1>4, <1>5 DEF Works

\* A step of nobody.
LEMMA StutterKeeps == IInv /\ UNCHANGED vars => IInv'
  <1> SUFFICES ASSUME IInv, UNCHANGED vars PROVE IInv'
    OBVIOUS
  <1>1. /\ UNCHANGED <<history, attempts, stable, github, pypi, rcTags, proc, head, disk, builds>>
        /\ UNCHANGED <<allocation, mutation, faults>>
    BY DEF vars, files, public, locks
  <1>2. /\ Steady /\ SameReceipts /\ SameOut /\ Branch' /\ Recorded' /\ Receipts' /\ Out'
    BY <1>1, SilentKeeps
  <1>3. Shells' /\ Retentions' /\ Services' /\ faults' \in 0 .. MaxFaults
    BY <1>1 DEF IInv, Types, Shells, Retentions, Services
  <1>4. QED BY <1>1, <1>2, <1>3, NobodyActs

\* Any step.
LEMMA NextIInv == IInv /\ [Next]_vars => IInv'
  <1> SUFFICES ASSUME IInv, [Next]_vars PROVE IInv'
    OBVIOUS
  <1>1. ASSUME NEW p \in Procs, Works(p) \/ Fails(p) \/ Dies(p) PROVE IInv'
    BY <1>1, WorkKeeps, EndingKeeps
  <1>2. ASSUME NEW p \in Procs, NEW n \in RCs, PrepareRc(p, n) \/ PrepareFinal(p, Rc(n))
        PROVE  IInv'
    BY <1>2, ChoosingKeeps
  <1>3. ASSUME NEW p \in Procs, NEW a \in Attempts, Command(p, a) PROVE IInv'
    BY <1>3, CommandsBegin DEF Command
  <1>4. CASE Developer \/ Workflow \/ Inspect \/ \E a \in Attempts : Change(a)
    BY <1>4, DeveloperKeeps, WorkflowKeeps, OutsideKeeps
  <1>5. CASE UNCHANGED vars
    BY <1>5, StutterKeeps
  <1>6. QED BY <1>1, <1>2, <1>3, <1>4, <1>5 DEF Next

\* The inductive invariant holds of every behaviour of the release commands
\* (tools/release.py) in any shells, with any faults.
THEOREM Invariance == Spec => []IInv
  BY InitIInv, NextIInv, PTL DEF Spec

---------------------------------------------------------------------------
(* What users of a release and its developer can rely on *)

\* Every value that tools/release.py keeps has its type, and a shell holds the
\* mutation lock exactly while it runs a command on an attempt.
THEOREM TypeCorrect == Spec => []TypeOK
  <1>1. IInv => TypeOK
    BY TypesAreTypeOK DEF IInv
  <1>2. QED BY <1>1, Invariance, PTL

\* The invariant says what ReleasedAsApproved says.
LEMMA InvIsReleasedAsApproved == IInv => ReleasedAsApproved
  <1> SUFFICES ASSUME IInv PROVE ReleasedAsApproved
    OBVIOUS
  <1>1. stable.origin # None => attempts[stable.origin].finalization
    BY DEF IInv, Out
  <1>2. ASSUME pypi # None
        PROVE  LET r == attempts[pypi].accepted
               IN /\ pypi.kind = "final" /\ stable.origin = pypi
                  /\ \A x \in Artifacts : github.assets[x] =
                          [attempt |-> pypi, bytes |-> attempts[pypi].preparation]
                  /\ history[attempts[pypi].source].approved = r
                  /\ history[attempts[pypi].source].runtime = history[attempts[r].source].runtime
    <2>1. pypi \in Attempts /\ pypi = stable.origin /\ attempts[pypi].finalization
      BY <1>2 DEF IInv, Out, Types, Services
    <2>2. Exists(pypi) /\ pypi.kind = "final"
      BY <2>1 DEF IInv, Receipts
    <2>3. Chosen(attempts[pypi].accepted, attempts[pypi].source)
      BY <2>1, <2>2 DEF IInv, Recorded
    <2>4. QED BY <1>2, <2>1, <2>2, <2>3 DEF Chosen, IInv, Out
  <1>3. \A a \in Attempts : attempts[a].rejected => ~attempts[a].finalization
    BY DEF IInv, Receipts
  <1>4. QED BY <1>1, <1>2, <1>3 DEF ReleasedAsApproved

\* What PyPI serves are the bytes that the preparation of a final attempt vouches
\* for (_write_preparation, _write_artifact_manifest and the publish workflow),
\* made from the runtime source of the candidate that the manifest approved in
\* the commit the attempt was made from (_check_final_source), whatever dies,
\* fails or changes, after the last check of publish too.
THEOREM ReleasesAreApproved == Spec => []ReleasedAsApproved
  BY InvIsReleasedAsApproved, Invariance, PTL

\* Nothing that is public is replaced.
NothingReplaced ==
    /\ stable.origin # None => stable'.origin = stable.origin
    /\ \A x \in DOMAIN github.assets : x \in DOMAIN github'.assets
                                       /\ github'.assets[x] = github.assets[x]
    /\ pypi # None => pypi' = pypi

\* The tag that appears names an attempt, and its candidate, still wanted.
StillWanted ==
    stable'.origin # stable.origin =>
        LET r == attempts[stable'.origin].accepted
        IN history[Tip].approved = r /\ ~attempts[r].rejected /\ ~attempts[stable'.origin].rejected

\* A step that leaves the public alone.
LEMMA NothingPublic ==
    ASSUME stable'.origin = stable.origin, github' = github, pypi' = pypi
    PROVE  NothingReplaced /\ StillWanted
  BY DEF NothingReplaced, StillWanted

\* The tag goes out at the tip the attempt was made from, which approves its
\* candidate; neither has been rejected since the publication began.
LEMMA PushInTime ==
    ASSUME IInv, NEW p \in Procs, Push(p) PROVE NothingReplaced /\ StillWanted
  <1>1. CASE UNCHANGED <<files, public>>
    BY <1>1, NothingPublic DEF public
  <1>2. CASE ~UNCHANGED <<files, public>>
    <2> DEFINE a == proc[p].a
    <2>1. /\ Step(p, "push", Tip = attempts[a].source, "draft")
          /\ stable' = [stable EXCEPT !.origin = a]
          /\ UNCHANGED <<github, pypi>>
      BY <1>2 DEF Push, Stops
    <2>2. Types /\ Names(p) /\ Checked(p) /\ proc[p].op = "push" /\ Tip = attempts[a].source
      BY <2>1 DEF IInv, Commands, Step
    <2>3. /\ a \in Attempts /\ Exists(a) /\ attempts[a].finalization /\ stable.origin = None
          /\ ~attempts[a].rejected /\ ~attempts[attempts[a].accepted].rejected
      BY <2>2 DEF Names, Checked, Mutating, Publishing
    <2>4. history[Tip].approved = attempts[a].accepted
      BY <2>2, <2>3 DEF IInv, Receipts, Recorded, Chosen
    <2>5. stable'.origin = a
      BY <2>1, <2>2 DEF Types, Services
    <2>6. QED BY <2>1, <2>3, <2>4, <2>5 DEF NothingReplaced, StillWanted
  <1>3. QED BY <1>1, <1>2

\* The GitHub release only grows.
LEMMA ReleaseOnlyGrows ==
    ASSUME IInv, NEW p \in Procs, Draft(p) \/ Upload(p) \/ Undraft(p) PROVE NothingReplaced /\ StillWanted
  <1>1. github = [state |-> github.state, assets |-> github.assets]
    BY DEF IInv, Types, Services
  <1>2. CASE UNCHANGED public
    BY <1>2, NothingPublic DEF public
  <1>3. CASE Draft(p) \/ Undraft(p)
    <2>1. github'.assets = github.assets /\ stable' = stable /\ pypi' = pypi
      BY <1>1, <1>3 DEF Draft, Undraft
    <2>2. QED BY <2>1 DEF NothingReplaced, StillWanted
  <1>4. CASE Upload(p) /\ ~UNCHANGED public
    <2> DEFINE a == proc[p].a
               there == DOMAIN github.assets
    <2>1. PICK x \in proc[p].todo :
            /\ x \in there => github.assets[x] = File(a, x)
            /\ github' = [github EXCEPT !.assets =
                            [y \in there \cup {x} |-> IF y = x THEN File(a, x) ELSE @[y]]]
            /\ stable' = stable /\ pypi' = pypi
      BY <1>4 DEF Upload, Stops
    <2>2. github'.assets = [y \in there \cup {x} |-> IF y = x THEN File(a, x)
                                                              ELSE github.assets[y]]
      BY <1>1, <2>1
    <2>3. \A y \in there : y \in DOMAIN github'.assets /\ github'.assets[y] = github.assets[y]
      BY <2>1, <2>2
    <2>4. QED BY <2>1, <2>3 DEF NothingReplaced, StillWanted
  <1>5. QED BY <1>2, <1>3, <1>4

\* The other steps leave what is public alone.
LEMMA OtherWorkIsPrivate ==
    ASSUME NEW p \in Procs, Works(p), ~StableTag(p), ~Push(p), ~Draft(p), ~Upload(p), ~Undraft(p)
    PROVE  UNCHANGED <<stable, github, pypi>>
  <1>1. CASE Allocate(p) \/ Reserve(p) \/ Record(p) \/ CheckOut(p) \/ Refused(p)
    BY <1>1 DEF Allocate, Reserve, Record, CheckOut, Refused, public
  <1>2. CASE proc[p].op = "prepare" /\ BeginPrepare(p, proc[p].a)
    BY <1>2 DEF BeginPrepare, public
  <1>3. CASE Metadata(p) \/ CommitReceipt(p) \/ Tag(p) \/ PushTag(p)
    BY <1>3 DEF Metadata, CommitReceipt, Tag, PushTag, Stops, public
  <1>4. CASE Build(p) \/ Preserve(p) \/ RecordBuild(p)
    BY <1>4 DEF Build, Preserve, RecordBuild, Stops, public
  <1>5. CASE \/ Readiness(p) \/ Preparation(p) \/ Acceptance(p) \/ Reject(p)
             \/ Finalization(p) \/ Evidence(p)
    BY <1>5 DEF Readiness, Preparation, Acceptance, Reject, Finalization, Evidence, Stops, public
  <1>6. QED BY <1>1, <1>2, <1>3, <1>4, <1>5 DEF Works

\* Every step, by cases over the actions.
LEMMA StepsAreFinalAndInTime == IInv /\ [Next]_vars => NothingReplaced /\ StillWanted
  <1> SUFFICES ASSUME IInv, [Next]_vars PROVE NothingReplaced /\ StillWanted
    OBVIOUS
  <1>1. ASSUME NEW p \in Procs, Works(p) PROVE NothingReplaced /\ StillWanted
    <2>1. CASE StableTag(p)
      <3>1. stable'.origin = stable.origin /\ github' = github /\ pypi' = pypi
        BY <2>1 DEF StableTag, IInv, Types, Services
      <3>2. QED BY <3>1, NothingPublic
    <2>2. CASE Push(p)
      BY <2>2, PushInTime
    <2>3. CASE Draft(p) \/ Upload(p) \/ Undraft(p)
      BY <2>3, ReleaseOnlyGrows
    <2>4. QED BY <1>1, <2>1, <2>2, <2>3, OtherWorkIsPrivate, NothingPublic
  <1>2. ASSUME NEW p \in Procs, Fails(p) \/ Dies(p) PROVE NothingReplaced /\ StillWanted
    BY <1>2, NothingPublic DEF Fails, Dies, public
  <1>3. ASSUME NEW p \in Procs, NEW n \in RCs, PrepareRc(p, n) \/ PrepareFinal(p, Rc(n))
        PROVE  NothingReplaced /\ StillWanted
    BY <1>3, NothingPublic DEF PrepareRc, PrepareFinal, public
  <1>4. ASSUME NEW p \in Procs, NEW a \in Attempts, Command(p, a) PROVE NothingReplaced /\ StillWanted
    BY <1>4, NothingPublic
       DEF Command, BeginPrepare, BeginAccept, BeginReject, Finalize, Publish, public
  <1>5. CASE Developer \/ Inspect \/ \E a \in Attempts : Change(a)
    BY <1>5, NothingPublic
       DEF Developer, Merge, Approve, Withdraw, Commit, Inspect, Change, public
  <1>6. CASE Workflow
    BY <1>6 DEF Workflow, NothingReplaced, StillWanted
  <1>7. CASE UNCHANGED vars
    BY <1>7, NothingPublic DEF vars, public
  <1>8. QED BY <1>1, <1>2, <1>3, <1>4, <1>5, <1>6, <1>7 DEF Next

\* A release that is out is never replaced, neither its tag, nor its assets, nor
\* what PyPI has: publish only resumes, and only what is its own.
THEOREM ReleasesAreFinal == Spec => ReleaseIsFinal
  <1>1. IInv /\ [Next]_vars => [NothingReplaced]_vars
    BY StepsAreFinalAndInTime
  <1>2. QED BY <1>1, Invariance, PTL DEF Spec, ReleaseIsFinal, NothingReplaced

\* When the stable tag goes out, the branch approves its candidate, and neither
\* the attempt nor the candidate is rejected: a withdrawal that is pushed in time
\* makes the push of publish fail, a rejection waits for its lock.
THEOREM WithdrawalsAreInTime == Spec => WithdrawalIsInTime
  <1>1. IInv /\ [Next]_vars => [StillWanted]_vars
    BY StepsAreFinalAndInTime
  <1>2. QED BY <1>1, Invariance, PTL DEF Spec, WithdrawalIsInTime, StillWanted

---------------------------------------------------------------------------
(* Receipts are written once *)

ReceiptsKept == \A a \in Attempts : StaysRecorded(attempts[a], attempts'[a])

LEMMA SameStaysRecorded == ASSUME attempts' = attempts PROVE ReceiptsKept
  BY DEF ReceiptsKept, StaysRecorded

\* One attempt changes.
LEMMA OneStaysRecorded ==
    ASSUME IInv, NEW a \in Attempts, NEW c, attempts' = [attempts EXCEPT ![a] = c],
           StaysRecorded(attempts[a], c)
    PROVE  ReceiptsKept
  <1>1. attempts'[a] = c /\ \A b \in Attempts \ {a} : attempts'[b] = attempts[b]
    BY DEF IInv, Types, Retentions
  <1>2. QED BY <1>1 DEF ReceiptsKept, StaysRecorded

\* An identity is reserved when it is new, and recorded once.
LEMMA AllocationStaysRecorded ==
    ASSUME IInv, NEW p \in Procs, Reserve(p) \/ Record(p) PROVE ReceiptsKept
  <1>1. Names(p) /\ Retentions
    BY DEF IInv, Types, Commands
  <1>2. CASE Reserve(p)
    <2>1. ASSUME NEW a, attempts' = [b \in Attempts |->
                    [attempts[b] EXCEPT !.reserved = @ \/ b = a, !.approval = @ \/ b = proc[p].rc]]
          PROVE  ReceiptsKept
      <3>1. ASSUME NEW b \in Attempts PROVE StaysRecorded(attempts[b], attempts'[b])
        <4>1. attempts[b] \in AttemptType
          BY <1>1 DEF Retentions
        <4>2. attempts'[b] = [attempts[b] EXCEPT !.reserved = @ \/ b = a,
                                                 !.approval = @ \/ b = proc[p].rc]
          BY <2>1
        <4>3. QED BY <4>1, <4>2 DEF StaysRecorded, AttemptType
      <3>2. QED BY <3>1 DEF ReceiptsKept
    <2> DEFINE r == proc[p].rc
               final == {n \in Finals : \A c \in Consumed : c.kind = "final" => c.n < n}
               free == IF r = None
                         THEN {proc[p].a} \ {b \in Attempts : \E c \in Consumed :
                                                              c.kind = "rc" /\ c.n >= b.n}
                         ELSE {Final(n) : n \in {m \in final : \A k \in final : m <= k}}
    <2>2. ASSUME NEW a \in free,
                 attempts' = [b \in Attempts |->
                    [attempts[b] EXCEPT !.reserved = @ \/ b = a, !.approval = @ \/ b = r]]
          PROVE  ReceiptsKept
      BY <2>1, <2>2
    <2>3. CASE UNCHANGED attempts
      BY <2>3, SameStaysRecorded
    <2>4. QED BY <1>2, <2>2, <2>3 DEF Reserve
  <1>3. CASE Record(p)
    <2>1. PICK a \in Attempts : a = proc[p].a /\ ~Exists(a)
      BY <1>1, <1>3 DEF Names, Record
    <2>2. attempts[a] \in AttemptType
      BY <1>1 DEF Retentions
    <2>3. PICK c : /\ c = [attempts[a] EXCEPT !.source = proc[p].source, !.accepted = proc[p].rc]
                   /\ attempts' = [attempts EXCEPT ![a] = c]
      BY <1>3, <2>1 DEF Record
    <2>4. StaysRecorded(attempts[a], c)
      BY <2>1, <2>2, <2>3 DEF StaysRecorded, AttemptType, Exists
    <2>5. QED BY <2>3, <2>4, OneStaysRecorded
  <1>4. QED BY <1>2, <1>3

\* The receipts of a command are missing while it runs, or are what it writes.
LEMMA WorkStaysRecorded ==
    ASSUME IInv, NEW p \in Procs,
           \/ CommitReceipt(p) \/ RecordBuild(p) \/ Preparation(p)
           \/ Acceptance(p) \/ Reject(p) \/ Finalization(p)
    PROVE  ReceiptsKept
  <1>1. Names(p) /\ Checked(p) /\ Retentions
    BY DEF IInv, Types, Commands
  <1>2. CASE attempts' = attempts
    BY <1>2, SameStaysRecorded
  <1>3. PICK a \in Attempts : a = proc[p].a
    BY <1>1 DEF Names, CommitReceipt, RecordBuild, Step, Preparation, Acceptance, Reject,
                Finalization, Mutating
  <1>4. attempts[a] \in AttemptType
    BY <1>1 DEF Retentions
  <1>5. CASE CommitReceipt(p)
    <2>1. PICK c : /\ c = [attempts[a] EXCEPT !.commit = TRUE]
                   /\ attempts' = [attempts EXCEPT ![a] = c]
      BY <1>3, <1>5 DEF CommitReceipt
    <2>2. StaysRecorded(attempts[a], c)
      BY <1>4, <2>1 DEF StaysRecorded, AttemptType
    <2>3. QED BY <2>1, <2>2, OneStaysRecorded
  <1>6. CASE RecordBuild(p)
    <2>1. attempts[a].build = Absent
      BY <1>1, <1>3, <1>6 DEF Checked, RecordBuild, Step
    <2>2. PICK c : /\ c = [attempts[a] EXCEPT !.build = disk[a]]
                   /\ attempts' = [attempts EXCEPT ![a] = c]
      BY <1>3, <1>6 DEF RecordBuild
    <2>3. StaysRecorded(attempts[a], c)
      BY <1>4, <2>1, <2>2 DEF StaysRecorded, AttemptType
    <2>4. QED BY <2>2, <2>3, OneStaysRecorded
  <1>7. CASE Preparation(p)
    <2>1. attempts[a].preparation = Absent
      BY <1>1, <1>3, <1>7 DEF Checked, Preparation, Preparing
    <2>2. PICK c : /\ c = [attempts[a] EXCEPT !.preparation = disk[a]]
                   /\ attempts' = [attempts EXCEPT ![a] = c]
      BY <1>3, <1>7 DEF Preparation
    <2>3. StaysRecorded(attempts[a], c)
      BY <1>4, <2>1, <2>2 DEF StaysRecorded, AttemptType
    <2>4. QED BY <2>2, <2>3, OneStaysRecorded
  <1>8. CASE Acceptance(p)
    <2>1. attempts[a].acceptance = Absent
      BY <1>1, <1>3, <1>8 DEF Checked, Acceptance
    <2>2. PICK c : /\ c = [attempts[a] EXCEPT !.acceptance = attempts[a].preparation]
                   /\ attempts' = [attempts EXCEPT ![a] = c]
      BY <1>3, <1>8 DEF Acceptance
    <2>3. StaysRecorded(attempts[a], c)
      BY <1>4, <2>1, <2>2 DEF StaysRecorded, AttemptType
    <2>4. QED BY <2>2, <2>3, OneStaysRecorded
  <1>9. CASE Reject(p)
    <2>1. PICK c : /\ c = [attempts[a] EXCEPT !.rejected = TRUE]
                   /\ attempts' = [attempts EXCEPT ![a] = c]
      BY <1>3, <1>9 DEF Reject
    <2>2. StaysRecorded(attempts[a], c)
      BY <1>4, <2>1 DEF StaysRecorded, AttemptType
    <2>3. QED BY <2>1, <2>2, OneStaysRecorded
  <1>10. CASE Finalization(p)
    <2>1. PICK c : /\ c = [attempts[a] EXCEPT !.finalization = TRUE]
                   /\ attempts' = [attempts EXCEPT ![a] = c]
      BY <1>3, <1>10 DEF Finalization
    <2>2. StaysRecorded(attempts[a], c)
      BY <1>4, <2>1 DEF StaysRecorded, AttemptType
    <2>3. QED BY <2>1, <2>2, OneStaysRecorded
  <1>11. QED BY <1>2, <1>5, <1>6, <1>7, <1>8, <1>9, <1>10

\* A publication that is tried again finds its evidence the same, or ends.
LEMMA EvidenceStaysRecorded ==
    ASSUME IInv, NEW p \in Procs, Evidence(p) PROVE ReceiptsKept
  <1>1. CASE attempts' = attempts
    BY <1>1, SameStaysRecorded
  <1>2. CASE attempts' # attempts
    <2>1. PICK a \in Attempts : a = proc[p].a
      BY DEF IInv, Commands, Names, Evidence, Step, Stops, Mutating
    <2>2. attempts[a] \in AttemptType
      BY DEF IInv, Types, Retentions
    <2>3. PICK c : /\ c = [attempts[a] EXCEPT !.evidence = disk[a]]
                   /\ attempts' = [attempts EXCEPT ![a] = c]
                   /\ attempts[a].evidence \in {Absent, disk[a]}
      BY <1>2, <2>1 DEF Evidence, Step, Stops, files
    <2>4. StaysRecorded(attempts[a], c)
      BY <2>2, <2>3 DEF StaysRecorded, AttemptType
    <2>5. QED BY <2>3, <2>4, OneStaysRecorded
  <1>3. QED BY <1>1, <1>2

\* The other steps write no receipt.
LEMMA OtherWorkWritesNothing ==
    ASSUME NEW p \in Procs, Works(p), ~Reserve(p), ~Record(p), ~CommitReceipt(p),
           ~RecordBuild(p), ~Preparation(p), ~Acceptance(p), ~Reject(p), ~Finalization(p),
           ~Evidence(p)
    PROVE  attempts' = attempts
  <1>1. CASE Allocate(p) \/ CheckOut(p) \/ Refused(p)
    BY <1>1 DEF Allocate, CheckOut, Refused, files
  <1>2. CASE proc[p].op = "prepare" /\ BeginPrepare(p, proc[p].a)
    BY <1>2 DEF BeginPrepare, files
  <1>3. CASE Metadata(p) \/ Tag(p) \/ PushTag(p) \/ Build(p) \/ Preserve(p) \/ Readiness(p)
    BY <1>3 DEF Metadata, Tag, PushTag, Build, Preserve, Readiness, Stops, files
  <1>4. CASE StableTag(p) \/ Push(p) \/ Draft(p) \/ Upload(p) \/ Undraft(p)
    BY <1>4 DEF StableTag, Push, Draft, Upload, Undraft, Stops, files
  <1>5. QED BY <1>1, <1>2, <1>3, <1>4 DEF Works

LEMMA StepsKeepReceipts == IInv /\ [Next]_vars => ReceiptsKept
  <1> SUFFICES ASSUME IInv, [Next]_vars PROVE ReceiptsKept
    OBVIOUS
  <1>1. ASSUME NEW p \in Procs, Works(p) PROVE ReceiptsKept
    BY <1>1, AllocationStaysRecorded, WorkStaysRecorded, EvidenceStaysRecorded,
       OtherWorkWritesNothing, SameStaysRecorded
  <1>2. ASSUME NEW p \in Procs, Fails(p) \/ Dies(p) PROVE ReceiptsKept
    BY <1>2, SameStaysRecorded DEF Fails, Dies, files
  <1>3. ASSUME NEW p \in Procs, NEW n \in RCs, PrepareRc(p, n) \/ PrepareFinal(p, Rc(n))
        PROVE  ReceiptsKept
    BY <1>3, SameStaysRecorded DEF PrepareRc, PrepareFinal, files
  <1>4. ASSUME NEW p \in Procs, NEW a \in Attempts, Command(p, a) PROVE ReceiptsKept
    BY <1>4, SameStaysRecorded
       DEF Command, BeginPrepare, BeginAccept, BeginReject, Finalize, Publish, files
  <1>5. CASE Developer \/ Workflow \/ Inspect \/ \E a \in Attempts : Change(a)
    BY <1>5, SameStaysRecorded
       DEF Developer, Merge, Approve, Withdraw, Commit, Workflow, Inspect, Change, files
  <1>6. CASE UNCHANGED vars
    BY <1>6, SameStaysRecorded DEF vars, files
  <1>7. QED BY <1>1, <1>2, <1>3, <1>4, <1>5, <1>6 DEF Next

\* No receipt is written again as something else: the commands look under the
\* lock, a lock that a dead shell left is removed only when nothing is active,
\* and where artifacts have changed since the look, as they may have before the
\* evidence is hashed, _write_once refuses.
THEOREM ReceiptsAreWrittenOnce == Spec => ReceiptsAreFinal
  <1>1. IInv /\ [Next]_vars => [ReceiptsKept]_vars
    BY StepsKeepReceipts
  <1>2. QED BY <1>1, Invariance, PTL DEF Spec, ReceiptsAreFinal, ReceiptsKept
=============================================================================
