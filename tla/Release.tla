------------------------------- MODULE Release -------------------------------
(***************************************************************************)
(* Numbered release attempts of one stable version (tools/release.py): a    *)
(* release candidate is built once, the developer approves it in the        *)
(* manifest on the release branch, a final attempt is allocated from it,    *)
(* finalized with a local tag and published to GitHub, from where a         *)
(* workflow publishes to PyPI.                                              *)
(*                                                                          *)
(* Commands of two shells share the Git directory and its two lock          *)
(* directories.  A command may die anywhere and leave its lock, which       *)
(* someone removes once nothing is active; gates and networks fail.  The    *)
(* branch moves by itself.  Retained artifacts may change between any two   *)
(* steps.                                                                   *)
(***************************************************************************)
EXTENDS Naturals, Sequences, FiniteSets

CONSTANTS
    Procs,      \* shells that run commands, in one clone
    RCs,        \* numbers of release candidates, from 1
    Finals,     \* numbers of final attempts, from 1
    Assets,     \* files of a GitHub release: artifacts, manifest and evidence
    MaxHistory, \* bound on the commits of the branch
    MaxFaults   \* bound on crashes, failures and changed files

ASSUME ReleaseAssumption ==
    /\ RCs \subseteq Nat \ {0} /\ Finals \subseteq Nat \ {0}
    /\ MaxHistory \in Nat \ {0} /\ MaxFaults \in Nat /\ {"manifest", "evidence"} \subseteq Assets
    /\ "free" \notin Procs /\ "stale" \notin Procs

VARIABLES
    history,   \* origin's branch: commits with runtime source and manifest
    attempts,  \* attempt -> its retained files
    head,      \* attempt -> what its worktree has checked out
    disk,      \* attempt -> bytes in its artifacts directory
    builds,    \* attempt -> builds made
    rcTags,    \* candidates with a local and with a remote rc tag
    stable,    \* stable tag: the attempt it names, locally and at origin
    github,    \* the GitHub release
    pypi,      \* what PyPI serves
    proc,      \* shell -> the command it runs
    allocation,\* allocation.lock
    mutation,  \* mutation.lock
    faults     \* faults so far

files == <<attempts, head, disk, builds>>
public == <<history, rcTags, stable, github, pypi>>
locks == <<allocation, mutation>>
vars == <<files, public, proc, locks, faults>>

None == [kind |-> "none", n |-> 0]
Rc(n) == [kind |-> "rc", n |-> n]
Final(n) == [kind |-> "final", n |-> n]
Artifacts == Assets \ {"manifest", "evidence"}
Attempts == {Rc(n) : n \in RCs} \cup {Final(n) : n \in Finals}
Absent == 0
Altered == 99
Free == "free"
Stale == "stale"

Idle == [op |-> "idle", a |-> None, rc |-> None, source |-> 0, todo |-> {}]
Tip == Len(history)
Empty == [source |-> 0, accepted |-> None, commit |-> FALSE, build |-> Absent,
          preparation |-> Absent, acceptance |-> Absent, approval |-> FALSE,
          finalization |-> FALSE, evidence |-> Absent, rejected |-> FALSE, reserved |-> FALSE]

\* A numbered attempt is reserved by its directory, and exists by attempt.json.
Exists(a) == attempts[a].source # 0
Live(a) == Exists(a) /\ ~attempts[a].rejected

\* _retained_preparation: the receipt is there and its artifacts have its hashes.
Retained(a) ==
    /\ attempts[a].commit /\ attempts[a].preparation # Absent
    /\ disk[a] = attempts[a].preparation

\* _approved_rc and _check_final_source: the manifest at the source approves
\* this very candidate, and no runtime source has changed since.
Approved(r, source) ==
    /\ Live(r) /\ Retained(r)
    /\ history[source].approved = r
    /\ history[source].runtime = history[attempts[r].source].runtime

\* _check_accepted_rc
AcceptedRc(a) == a.kind = "final" =>
    /\ Approved(attempts[a].accepted, attempts[a].source)
    /\ attempts[attempts[a].accepted].approval

\* _check_attempt_checkout
CheckedOut(a) == AcceptedRc(a) /\ attempts[a].commit /\ head[a] = "release"
\* _check_preparation
Prepared(a) == CheckedOut(a) /\ Retained(a)
\* _check_finalization
Finalized(a) == Prepared(a) /\ attempts[a].finalization /\ stable.local = a

\* What a command is about to do, without and with the mutation lock.
Mutating == {"metadata", "receipt", "tag", "push-tag", "build", "preserve",
             "record-build", "readiness", "preparation", "probe", "rejection",
             "stable-tag", "finalization", "evidence", "push", "draft", "upload", "undraft"}
Ops == {"idle", "lock", "reserve", "record", "checkout", "prepare"} \cup Mutating

TypeOK ==
    /\ history \in Seq([runtime : 0 .. MaxHistory, approved : Attempts \cup {None},
                        release : Attempts \cup {None}])
    /\ Len(history) \in 1 .. MaxHistory + 1
    /\ attempts \in [Attempts -> [source : Nat, accepted : Attempts \cup {None},
         commit : BOOLEAN, build : Nat, preparation : Nat, acceptance : Nat,
         approval : BOOLEAN, finalization : BOOLEAN, evidence : Nat, rejected : BOOLEAN, reserved : BOOLEAN]]
    /\ head \in [Attempts -> {"none", "source", "release"}]
    /\ disk \in [Attempts -> {Absent, 1, Altered}] /\ builds \in [Attempts -> 0 .. 1]
    /\ rcTags \in [local : SUBSET Attempts, origin : SUBSET Attempts]
    /\ stable \in [local : Attempts \cup {None}, origin : Attempts \cup {None}]
    /\ github.state \in {"none", "draft", "published"} /\ DOMAIN github.assets \subseteq Assets
    /\ github = [state |-> github.state, assets |-> github.assets]
    /\ github.assets \in [DOMAIN github.assets -> [attempt : Attempts, bytes : Nat]]
    /\ pypi \in Attempts \cup {None}
    /\ proc \in [Procs -> [op : Ops, a : Attempts \cup {None}, rc : Attempts \cup {None},
                           source : Nat, todo : SUBSET Assets]]
    /\ allocation \in Procs \cup {Free, Stale} /\ mutation \in Procs \cup {Free, Stale}
    /\ \A p \in Procs : proc[p].op \in Mutating <=> mutation = p
    /\ faults \in 0 .. MaxFaults

Init ==
    /\ history = <<[runtime |-> 0, approved |-> None, release |-> None]>>
    /\ attempts = [a \in Attempts |-> Empty]
    /\ head = [a \in Attempts |-> "none"]
    /\ disk = [a \in Attempts |-> Absent]
    /\ builds = [a \in Attempts |-> 0]
    /\ rcTags = [local |-> {}, origin |-> {}]
    /\ stable = [local |-> None, origin |-> None]
    /\ github = [state |-> "none", assets |-> [x \in {} |-> None]]
    /\ pypi = None
    /\ proc = [p \in Procs |-> Idle]
    /\ allocation = Free /\ mutation = Free
    /\ faults = 0

---------------------------------------------------------------------------
(* The branch and the developer's decisions *)

Commit(change) ==
    /\ Len(history) < MaxHistory
    /\ history' = Append(history, change)
    /\ UNCHANGED <<files, rcTags, stable, github, pypi, proc, locks, faults>>

Merge == Commit([history[Tip] EXCEPT !.runtime = @ + 1, !.release = None])
Approve(r) ==
    /\ attempts[r].preparation # Absent
    /\ Commit([history[Tip] EXCEPT !.approved = r, !.release = None])
Withdraw ==
    /\ history[Tip].approved # None
    /\ Commit([history[Tip] EXCEPT !.approved = None, !.release = None])

Developer == Merge \/ Withdraw \/ \E n \in RCs : Approve(Rc(n))

---------------------------------------------------------------------------
(* Commands *)

Goes(p, op) == proc' = [proc EXCEPT ![p].op = op]

\* A command ends, well or with an error, and removes its lock.
Ends(p) ==
    /\ proc' = [proc EXCEPT ![p] = Idle]
    /\ mutation' = IF mutation = p THEN Free ELSE mutation
    /\ allocation' = IF allocation = p THEN Free ELSE allocation

Keeps == UNCHANGED locks

\* The candidate the manifest names, from a synchronized branch.
PrepareRc(p, n) ==
    /\ proc[p].op = "idle"
    /\ proc' = [proc EXCEPT ![p] = [op |-> "lock", a |-> Rc(n),
                                    rc |-> None, source |-> Tip, todo |-> {}]]
    /\ UNCHANGED <<files, public, locks, faults>>

PrepareFinal(p, r) ==
    /\ proc[p].op = "idle"
    /\ Approved(r, Tip)
    /\ proc' = [proc EXCEPT ![p] = [op |-> "lock", a |-> None,
                                    rc |-> r, source |-> Tip, todo |-> {}]]
    /\ UNCHANGED <<files, public, locks, faults>>

Allocate(p) ==
    /\ proc[p].op = "lock"
    /\ IF allocation = Free
         THEN allocation' = p /\ Goes(p, "reserve") /\ UNCHANGED mutation
         ELSE Ends(p)
    /\ UNCHANGED <<files, public, faults>>

\* Faulty variant: only tags are looked at.
ConsumedByTags == rcTags.local \cup rcTags.origin

\* Identities are consumed by directories and by tags, here and at origin.
Consumed ==
    {a \in Attempts : attempts[a].reserved} \cup rcTags.local \cup rcTags.origin

\* The candidate's number must be above all others; a final takes the next one.
Reserve(p) ==
    /\ proc[p].op = "reserve"
    /\ LET r == proc[p].rc
           final == {n \in Finals : \A a \in Consumed : a.kind = "final" => a.n < n}
           free == IF r = None
                     THEN {proc[p].a} \ {a \in Attempts : \E c \in Consumed :
                                                            c.kind = "rc" /\ c.n >= a.n}
                     ELSE {Final(n) : n \in {m \in final : \A k \in final : m <= k}}
       IN \/ \E a \in free :
               /\ attempts' = [b \in Attempts |->
                    [attempts[b] EXCEPT !.reserved = @ \/ b = a, !.approval = @ \/ b = r]]
               /\ proc' = [proc EXCEPT ![p].op = "record", ![p].a = a]
               /\ Keeps
          \/ free = {} /\ Ends(p) /\ UNCHANGED attempts
    /\ UNCHANGED <<head, disk, builds, public, faults>>

\* attempt.json
Record(p) ==
    LET a == proc[p].a
    IN /\ proc[p].op = "record"
       /\ attempts' = [attempts EXCEPT ![a].source = proc[p].source, ![a].accepted = proc[p].rc]
       /\ Goes(p, "checkout")
       /\ allocation' = Free
       /\ UNCHANGED <<head, disk, builds, public, mutation, faults>>

\* git worktree add, and the attempt's own script takes over.
CheckOut(p) ==
    /\ proc[p].op = "checkout"
    /\ head' = [head EXCEPT ![proc[p].a] = "source"]
    /\ Goes(p, "prepare")
    /\ UNCHANGED <<attempts, disk, builds, public, locks, faults>>

\* --prepare-attempt and the other commands on an attempt: main takes the
\* mutation lock and loads the attempt again under it.
Begins(p, a, op) ==
    /\ proc[p] = Idle \/ (proc[p].op = "prepare" /\ proc[p].a = a)
    /\ mutation = Free /\ Live(a)
    /\ mutation' = p /\ UNCHANGED allocation
    /\ proc' = [proc EXCEPT ![p] = [Idle EXCEPT !.op = op, !.a = a]]

\* The attempt's own script finds the lock taken, or its attempt rejected.
Refused(p) ==
    /\ proc[p].op = "prepare"
    /\ mutation # Free \/ ~Live(proc[p].a)
    /\ Ends(p)
    /\ UNCHANGED <<files, public, faults>>

\* A step of p under the lock: a check that fails ends the command.
Step(p, op, check, next) ==
    /\ proc[p].op = op
    /\ check
    /\ Goes(p, next) /\ Keeps

Stops(p, op, refusal) ==
    /\ proc[p].op = op /\ refusal
    /\ Ends(p)
    /\ UNCHANGED <<files, public, faults>>

---------------------------------------------------------------------------
(* --prepare-attempt: an attempt that has its preparation is only verified *)

BeginPrepare(p, a) ==
    /\ Begins(p, a, "metadata") /\ head[a] # "none"
    /\ attempts[a].preparation = Absent
    /\ UNCHANGED <<files, public, faults>>

\* The release metadata is committed once, on the source.
Metadata(p) ==
    LET a == proc[p].a
    IN \/ /\ Step(p, "metadata", attempts[a].commit, "tag")
          /\ UNCHANGED <<files, public, faults>>
       \/ /\ Step(p, "metadata",
                  ~attempts[a].commit /\ AcceptedRc(a) /\ head[a] = "source", "receipt")
          /\ head' = [head EXCEPT ![a] = "release"]
          /\ UNCHANGED <<attempts, disk, builds, public, faults>>
       \/ Stops(p, "metadata", ~attempts[a].commit /\ ~(AcceptedRc(a) /\ head[a] = "source"))

CommitReceipt(p) ==
    /\ Step(p, "receipt", TRUE, "tag")
    /\ attempts' = [attempts EXCEPT ![proc[p].a].commit = TRUE]
    /\ UNCHANGED <<head, disk, builds, public, faults>>

\* _retain_rc_tag makes a candidate reachable without its branch.
Tag(p) ==
    LET a == proc[p].a
    IN \/ /\ Step(p, "tag", CheckedOut(a), "push-tag")
          /\ rcTags' = IF a.kind = "rc" THEN [rcTags EXCEPT !.local = @ \cup {a}] ELSE rcTags
          /\ UNCHANGED <<files, history, stable, github, pypi, faults>>
       \/ Stops(p, "tag", ~CheckedOut(a))

PushTag(p) ==
    LET a == proc[p].a
    IN /\ Step(p, "push-tag", TRUE, "build")
       /\ rcTags' = IF a.kind = "rc" THEN [rcTags EXCEPT !.origin = @ \cup {a}] ELSE rcTags
       /\ UNCHANGED <<files, history, stable, github, pypi, faults>>

\* Faulty variant: bytes without a receipt are built again.
BuildAgain(p) ==
    LET a == proc[p].a
    IN \/ /\ Step(p, "build", attempts[a].build # Absent /\ attempts[a].build = disk[a], "readiness")
          /\ UNCHANGED <<files, public, faults>>
       \/ /\ Step(p, "build", attempts[a].build = Absent, "preserve")
          /\ builds' = [builds EXCEPT ![a] = @ + 1]
          /\ UNCHANGED <<attempts, head, disk, public, faults>>
       \/ Stops(p, "build", attempts[a].build # Absent /\ attempts[a].build # disk[a])

\* A recorded build is reused byte for byte; bytes without a record are refused.
Build(p) ==
    LET a == proc[p].a
        recorded == attempts[a].build # Absent
        fresh == disk[a] = Absent /\ builds[a] = 0
    IN \/ /\ Step(p, "build", recorded /\ attempts[a].build = disk[a], "readiness")
          /\ UNCHANGED <<files, public, faults>>
       \/ /\ Step(p, "build", ~recorded /\ fresh, "preserve")
          /\ builds' = [builds EXCEPT ![a] = @ + 1]
          /\ UNCHANGED <<attempts, head, disk, public, faults>>
       \/ Stops(p, "build", IF recorded THEN attempts[a].build # disk[a] ELSE ~fresh)

Preserve(p) ==
    /\ Step(p, "preserve", TRUE, "record-build")
    /\ disk' = [disk EXCEPT ![proc[p].a] = builds[proc[p].a]]
    /\ UNCHANGED <<attempts, head, builds, public, faults>>

RecordBuild(p) ==
    LET a == proc[p].a
    IN /\ Step(p, "record-build", TRUE, "readiness")
       /\ attempts' = [attempts EXCEPT ![a].build = disk[a]]
       /\ UNCHANGED <<head, disk, builds, public, faults>>

\* The last gates, and a last look at what was built.
Readiness(p) ==
    LET a == proc[p].a
        ready == CheckedOut(a) /\ attempts[a].build = disk[a]
    IN \/ /\ Step(p, "readiness", ready, "preparation")
          /\ UNCHANGED <<files, public, faults>>
       \/ Stops(p, "readiness", ~ready)

\* _write_preparation: the receipt has the hashes of what is there by then.
Preparation(p) ==
    LET a == proc[p].a
    IN /\ proc[p].op = "preparation"
       /\ attempts' = [attempts EXCEPT ![a].preparation = disk[a]]
       /\ Ends(p)
       /\ UNCHANGED <<head, disk, builds, public, faults>>

---------------------------------------------------------------------------
(* --accept-candidate in isolation, and --reject-attempt *)

BeginAccept(p, a) ==
    /\ Begins(p, a, "probe") /\ a.kind = "rc"
    /\ Retained(a) /\ attempts[a].acceptance = Absent
    /\ UNCHANGED <<files, public, faults>>

\* The probe ran the retained wheel.
Acceptance(p) ==
    LET a == proc[p].a
    IN /\ proc[p].op = "probe"
       /\ attempts' = [attempts EXCEPT ![a].acceptance = attempts[a].preparation]
       /\ Ends(p)
       /\ UNCHANGED <<head, disk, builds, public, faults>>

BeginReject(p, a) ==
    /\ Begins(p, a, "rejection") /\ ~attempts[a].finalization
    /\ UNCHANGED <<files, public, faults>>

\* The installation is restored and compared with the attempt's baseline.
Reject(p) ==
    /\ proc[p].op = "rejection"
    /\ attempts' = [attempts EXCEPT ![proc[p].a].rejected = TRUE]
    /\ Ends(p)
    /\ UNCHANGED <<head, disk, builds, public, faults>>

---------------------------------------------------------------------------
(* --finalize *)

\* The stable tag must be free, or be this attempt's from an earlier try.
Finalize(p, a) ==
    /\ Begins(p, a, IF stable.local = a THEN "finalization" ELSE "stable-tag")
    /\ a.kind = "final" /\ Prepared(a) /\ ~attempts[a].finalization
    /\ stable.origin = None /\ stable.local \in {None, a}
    /\ UNCHANGED <<files, public, faults>>

StableTag(p) ==
    /\ Step(p, "stable-tag", TRUE, "finalization")
    /\ stable' = [stable EXCEPT !.local = proc[p].a]
    /\ UNCHANGED <<files, history, rcTags, github, pypi, faults>>

Finalization(p) ==
    /\ proc[p].op = "finalization"
    /\ attempts' = [attempts EXCEPT ![proc[p].a].finalization = TRUE]
    /\ Ends(p)
    /\ UNCHANGED <<head, disk, builds, public, faults>>

---------------------------------------------------------------------------
(* --publish *)

\* What an asset carries: an artifact as it is by then, the manifest the hashes
\* of the preparation, the evidence those of its own recording.
File(a, x) == [attempt |-> a,
               bytes |-> CASE x = "manifest" -> attempts[a].preparation
                           [] x = "evidence" -> attempts[a].evidence
                           [] OTHER -> disk[a]]

\* The branch may only be where the attempt left it, before or after its push.
Unmoved(a) == history[Tip].release = a \/ Tip = attempts[a].source

\* The finalization, the branch and the tags are checked before anything goes
\* out; a release that is out is left alone.
Publish(p, a) ==
    /\ Begins(p, a, "evidence")
    /\ Finalized(a) /\ Unmoved(a) /\ stable.origin \in {None, a}
    /\ github.state # "published"
    /\ UNCHANGED <<files, public, faults>>

\* The notes have been asked for since, and the artifacts are hashed again.  An
\* earlier try's evidence must be the same; what it has pushed is not pushed again.
Evidence(p) ==
    LET a == proc[p].a
        same == attempts[a].evidence \in {Absent, disk[a]}
    IN \/ /\ Step(p, "evidence", same, IF stable.origin = a THEN "draft" ELSE "push")
          /\ attempts' = [attempts EXCEPT ![a].evidence = disk[a]]
          /\ UNCHANGED <<head, disk, builds, public, faults>>
       \/ Stops(p, "evidence", ~same)

\* Faulty variant: the tag is pushed although the branch cannot be.
PushSeparately(p) ==
    LET a == proc[p].a
    IN /\ Step(p, "push", TRUE, "draft")
       /\ history' = IF Tip = attempts[a].source
                       THEN Append(history, [history[Tip] EXCEPT !.release = a]) ELSE history
       /\ stable' = [stable EXCEPT !.origin = a]
       /\ UNCHANGED <<files, rcTags, github, pypi, faults>>

\* Commit and tag are pushed together, and never by force.
Push(p) ==
    LET a == proc[p].a
    IN \/ /\ Step(p, "push", Tip = attempts[a].source, "draft")
          /\ history' = Append(history, [history[Tip] EXCEPT !.release = a])
          /\ stable' = [stable EXCEPT !.origin = a]
          /\ UNCHANGED <<files, rcTags, github, pypi, faults>>
       \/ Stops(p, "push", Tip # attempts[a].source)

\* Faulty variant: an earlier draft is replaced.
DraftAnew(p) ==
    /\ proc[p].op = "draft" /\ Keeps
    /\ proc' = [proc EXCEPT ![p].op = "upload", ![p].todo = Assets]
    /\ github' = [state |-> "draft", assets |-> [x \in {} |-> None]]
    /\ UNCHANGED <<files, history, rcTags, stable, pypi, faults>>

\* A draft is made for the pushed tag, or an earlier one is resumed.
Draft(p) ==
    /\ proc[p].op = "draft" /\ Keeps
    /\ proc' = [proc EXCEPT ![p].op = "upload", ![p].todo = Assets]
    /\ github' = [github EXCEPT !.state = "draft"]
    /\ UNCHANGED <<files, history, rcTags, stable, pypi, faults>>

\* What was there is compared and never replaced; what is missing is uploaded.
Upload(p) ==
    LET a == proc[p].a
        there == DOMAIN github.assets
    IN \/ \E x \in proc[p].todo :
            /\ proc[p].op = "upload" /\ Keeps
            /\ x \in there => github.assets[x] = File(a, x)
            /\ proc' = [proc EXCEPT ![p].todo = @ \ {x}]
            /\ github' = [github EXCEPT !.assets =
                            [y \in there \cup {x} |-> IF y = x THEN File(a, x) ELSE @[y]]]
            /\ UNCHANGED <<files, history, rcTags, stable, pypi, faults>>
       \/ Step(p, "upload", proc[p].todo = {}, "undraft")
          /\ UNCHANGED <<files, public, faults>>
       \/ Stops(p, "upload",
                \E x \in proc[p].todo \cap there : github.assets[x] # File(a, x))

Undraft(p) ==
    /\ proc[p].op = "undraft"
    /\ github' = [github EXCEPT !.state = "published"]
    /\ Ends(p)
    /\ UNCHANGED <<files, history, rcTags, stable, pypi, faults>>

\* Faulty variant: only the evidence vouches for the artifacts.
WorkflowByEvidence ==
    /\ github.state = "published" /\ pypi = None
    /\ \A x \in Assets : github.assets[x].attempt = stable.origin
    /\ \A x \in Artifacts : github.assets[x] = github.assets["evidence"]
    /\ pypi' = stable.origin
    /\ UNCHANGED <<files, history, rcTags, stable, github, proc, locks, faults>>

\* The publish workflow downloads the release, compares its artifacts with the
\* manifest, the evidence and the tag, and may be run again.
Workflow ==
    /\ github.state = "published" /\ pypi = None
    /\ \A x \in Assets : github.assets[x].attempt = stable.origin
    /\ \A x \in Artifacts, y \in Assets : github.assets[x] = github.assets[y]
    /\ pypi' = stable.origin
    /\ UNCHANGED <<files, history, rcTags, stable, github, proc, locks, faults>>

---------------------------------------------------------------------------
(* Faults *)

Fault == faults < MaxFaults /\ faults' = faults + 1

\* A gate, a probe, a restoration check, git or the network fails.
Fails(p) ==
    /\ Fault /\ proc[p].op # "idle"
    /\ Ends(p)
    /\ UNCHANGED <<files, public>>

\* The process dies; its lock directory stays.
Dies(p) ==
    /\ Fault /\ proc[p].op # "idle"
    /\ proc' = [proc EXCEPT ![p] = Idle]
    /\ mutation' = IF mutation = p THEN Stale ELSE mutation
    /\ allocation' = IF allocation = p THEN Stale ELSE allocation
    /\ UNCHANGED <<files, public>>

\* Someone verifies that nothing is active and removes a stale lock.
Inspect ==
    /\ Stale \in {mutation, allocation}
    /\ mutation' = IF mutation = Stale THEN Free ELSE mutation
    /\ allocation' = IF allocation = Stale THEN Free ELSE allocation
    /\ UNCHANGED <<files, public, proc, faults>>

\* Retained artifacts are changed, by whatever means.
Change(a) ==
    /\ Fault
    /\ disk[a] = 1 /\ disk' = [disk EXCEPT ![a] = Altered]
    /\ UNCHANGED <<attempts, head, builds, public, proc, locks>>

Works(p) ==
    \/ Allocate(p) \/ Reserve(p) \/ Record(p) \/ CheckOut(p) \/ Refused(p)
    \/ (proc[p].op = "prepare" /\ BeginPrepare(p, proc[p].a))
    \/ Metadata(p) \/ CommitReceipt(p) \/ Tag(p) \/ PushTag(p)
    \/ Build(p) \/ Preserve(p) \/ RecordBuild(p) \/ Readiness(p) \/ Preparation(p)
    \/ Acceptance(p) \/ Reject(p) \/ StableTag(p) \/ Finalization(p)
    \/ Evidence(p) \/ Push(p) \/ Draft(p) \/ Upload(p) \/ Undraft(p)

Command(p, a) ==
    \/ (proc[p].op = "idle" /\ BeginPrepare(p, a))
    \/ BeginAccept(p, a) \/ BeginReject(p, a) \/ Finalize(p, a) \/ Publish(p, a)

Next ==
    \/ \E p \in Procs :
         \/ Works(p) \/ Fails(p) \/ Dies(p)
         \/ \E n \in RCs : PrepareRc(p, n) \/ PrepareFinal(p, Rc(n))
         \/ \E a \in Attempts : Command(p, a)
    \/ Developer \/ Workflow \/ Inspect
    \/ \E a \in Attempts : Change(a)

Spec == Init /\ [][Next]_vars

---------------------------------------------------------------------------
(* What users of a release and its developer can rely on *)

\* PyPI serves the bytes that a final attempt's preparation vouches for, made
\* from the runtime source of a candidate that the developer had approved in the
\* commit it was made from, whatever failed or changed since; and nobody both
\* rejects and finalizes an attempt.  The evidence alone would not do: it is
\* hashed after the last check, and a change in between is in it and in the
\* GitHub release, but the manifest does not match.
ReleasedAsApproved ==
    /\ pypi # None =>
         LET r == attempts[pypi].accepted
         IN /\ pypi.kind = "final" /\ stable.origin = pypi
            /\ \A x \in Artifacts : github.assets[x] =
                    [attempt |-> pypi, bytes |-> attempts[pypi].preparation]
            /\ history[attempts[pypi].source].approved = r
            /\ history[attempts[pypi].source].runtime = history[attempts[r].source].runtime
    /\ stable.origin # None => attempts[stable.origin].finalization
    /\ \A a \in Attempts : attempts[a].rejected => ~attempts[a].finalization

\* What is recorded of an attempt stays as it is.
StaysRecorded(was, is) ==
    /\ was.source # 0 => is.source = was.source /\ is.accepted = was.accepted
    /\ was.build # Absent => is.build = was.build
    /\ was.preparation # Absent => is.preparation = was.preparation
    /\ was.acceptance # Absent => is.acceptance = was.acceptance
    /\ was.evidence # Absent => is.evidence = was.evidence
    /\ was.finalization => is.finalization
    /\ was.rejected => is.rejected

\* No receipt is ever written again as something else, although identities are
\* allocated and commands repeated after crashes, by any shell.
ReceiptsAreFinal == [][\A a \in Attempts : StaysRecorded(attempts[a], attempts'[a])]_vars

\* A release that is out is never replaced: neither its tag, nor its assets,
\* nor what PyPI has.
ReleaseIsFinal == [][
    /\ stable.origin # None => stable'.origin = stable.origin
    /\ \A x \in DOMAIN github.assets : x \in DOMAIN github'.assets
                                       /\ github'.assets[x] = github.assets[x]
    /\ pypi # None => pypi' = pypi]_vars

\* A tag goes out only while the branch still approves its candidate, and the
\* candidate is not rejected: a pushed withdrawal or rejection is in time until
\* the push itself, although publish reads neither from the branch.
WithdrawalIsInTime == [][
    stable'.origin # stable.origin =>
        LET r == attempts[stable'.origin].accepted
        IN history[Tip].approved = r /\ ~attempts[r].rejected /\ ~attempts[stable'.origin].rejected]_vars
=============================================================================
