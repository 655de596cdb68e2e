---------------------------- MODULE PipelineRun ----------------------------
(***************************************************************************)
(* One run of an agent in pipeline mode (dispatch._pipeline and what it     *)
(* calls): a pre-processor, attempts of the agent with retries, and a       *)
(* post-processor that is handed what the last attempt left at the result   *)
(* path.  The run's thread is composed with the pipeline server, which      *)
(* serves the run's children until the run ends.                            *)
(*                                                                          *)
(* Time passes while a child runs and while a retry sleeps.  A child is     *)
(* ended at its limit; what ending it takes is not counted.                 *)
(***************************************************************************)
EXTENDS PipelineServer

CONSTANTS
    Configs,     \* the agents that may be run, see RunAssumption
    ResultPath,  \* config.result_path
    Oversize,    \* values over output_max_bytes
    MaxTime,     \* bound on the overall timeout
    Timeout,     \* config.timeout: of one child
    PostTimeout, \* config.post_timeout
    Sleep,       \* the pause before an empty answer is retried
    Unpublished  \* no snapshot taken yet

ASSUME RunAssumption ==
    /\ ResultPath \in Paths /\ Oversize \subseteq Values
    /\ MaxTime \in Nat /\ Timeout \in Nat \ {0}
    /\ PostTimeout \in Nat \ {0} /\ Sleep \in Nat
    /\ Configs \subseteq [pre : BOOLEAN, agent : BOOLEAN, post : BOOLEAN,
                          onFailure : BOOLEAN, probe : BOOLEAN,
                          timeouts : Nat, empties : Nat, total : 1 .. MaxTime]
    /\ \A c \in Configs : 1 + c.timeouts + c.empties <= MaxAttempt

VARIABLES
    config,    \* the definition's execution metadata
    pc,        \* where the run is
    now,       \* time.monotonic() since the run began
    limit,     \* when the running child is ended; 0 when none runs
    timeouts,  \* timeout_retries left
    empties,   \* empty_retries left
    results,   \* the category of each step's result
    published, \* the snapshot of the result path the run reports
    handed     \* what the post-processor read

runVars == <<config, pc, now, limit, timeouts, empties, results, published, handed>>
vars == <<serverVars, runVars>>

Least(a, b) == IF a < b THEN a ELSE b
Time == 0 .. MaxTime
Total == config.total
Steps == {"pre", "agent", "post"}
Categories == {"none", "ok", "skip", "timeout", "empty", "budget", "failed"}
Failures == {"timeout", "empty", "budget", "failed"}
Running == {"pre", "probe", "agent", "post"}
Snapshots == Promise!Entries \cup {Unpublished}

\* What is kept back for the post-processor of a run that fails.
Reserve == IF config.onFailure THEN Least(PostTimeout, Total \div 2) ELSE 0
AgentDeadline == Total - Reserve
Failed == results["agent"] \in Failures

TypeOK ==
    /\ store \in [Paths -> Promise!Entries] /\ prepared \in [Paths -> Promise!Entries]
    /\ frozen \subseteq Paths /\ attempt \in Promise!Attempts /\ open \in BOOLEAN
    /\ request \in [Requests -> RequestType] /\ body \in Requests \cup {Nobody}
    /\ config \in Configs
    /\ pc \in {"start", "begin", "raised", "returned", "closed", "settle", "done"} \cup Running
    /\ now \in Time /\ limit \in Time
    /\ timeouts \in 0 .. config.timeouts /\ empties \in 0 .. config.empties
    /\ results \in [Steps -> Categories]
    /\ published \in Snapshots /\ handed \in Snapshots

Init ==
    /\ ServerInit
    /\ config \in Configs
    /\ pc = "start"
    /\ now = 0
    /\ limit = 0
    /\ timeouts = config.timeouts
    /\ empties = config.empties
    /\ results = [s \in Steps |-> "none"]
    /\ published = Unpublished
    /\ handed = Unpublished

Result(step, category) == results' = [results EXCEPT ![step] = category]

\* execute: no child is started without time left; a child gets what is left
\* of the deadline, and no more than its own timeout.
Execute(step, stage, timeout, deadline, otherwise) ==
    IF now >= deadline
      THEN Result(step, "budget") /\ pc' = otherwise /\ UNCHANGED limit
      ELSE pc' = stage /\ limit' = Least(now + timeout, deadline) /\ UNCHANGED results

Finish == pc' = "done" /\ Shutdown

---------------------------------------------------------------------------
(* The server is brought up and seeded; the pre-processor *)

Start ==
    /\ pc = "start"
    /\ SeedStore
    /\ IF config.pre THEN Execute("pre", "pre", Timeout, AgentDeadline, "settle")
       ELSE /\ pc' = IF config.agent THEN "begin" ELSE "settle"
            /\ UNCHANGED <<limit, results>>
    /\ UNCHANGED <<config, now, timeouts, empties, published, handed>>

Tick ==
    /\ pc \in Running /\ now < limit
    /\ now' = now + 1
    /\ UNCHANGED <<serverVars, config, pc, limit, timeouts, empties, results,
                   published, handed>>

\* Faulty variant: the child is waited for without a limit.
EndsInItsTime(stage, category) == pc = stage /\ category # "timeout"

\* run_child: the process tree ended by itself, or was ended at its limit.
Ends(stage, category) ==
    /\ pc = stage
    /\ category = "timeout" => now = limit

PreEnds(category) ==
    /\ Ends("pre", category)
    /\ Result("pre", category)
    /\ pc' = IF category = "ok" /\ config.agent THEN "begin" ELSE "settle"
    /\ UNCHANGED <<serverVars, config, now, timeouts, empties,
                   published, handed>>
    /\ limit' = 0

---------------------------------------------------------------------------
(* Attempts *)

\* A new attempt; preparing its launch may raise a DefinitionError.
Begin ==
    /\ pc = "begin"
    /\ BeginAttempt
    /\ \/ Execute("agent", IF config.probe THEN "probe" ELSE "agent", Timeout,
                  AgentDeadline, "returned")
       \/ pc' = "raised" /\ UNCHANGED <<limit, results>>
    /\ UNCHANGED <<config, now, timeouts, empties, published, handed>>

\* The version probe spends the attempt's own time; a probe that is ended at its
\* limit has printed no good version.
ProbeEnds(good) ==
    /\ pc = "probe"
    /\ IF good /\ now < limit THEN pc' = "agent" /\ UNCHANGED <<limit, results>>
       ELSE pc' = "returned" /\ Result("agent", IF good THEN "timeout" ELSE "failed")
            /\ limit' = 0
    /\ UNCHANGED <<serverVars, config, now, timeouts, empties,
                   published, handed>>

AgentEnds(category) ==
    /\ Ends("agent", category)
    /\ Result("agent", category)
    /\ pc' = "returned"
    /\ UNCHANGED <<serverVars, config, now, timeouts, empties,
                   published, handed>>
    /\ limit' = 0

\* on_child_complete, or the finally behind it.
Close ==
    /\ pc \in {"returned", "raised"}
    /\ CloseAttempt
    /\ IF pc = "raised" THEN Result("agent", "failed") /\ pc' = "done"
       ELSE pc' = "closed" /\ UNCHANGED results
    /\ UNCHANGED <<config, now, limit, timeouts, empties, published, handed>>

\* Faulty variant: the pause ignores the deadline.
RetryLate ==
    /\ pc = "closed" /\ now < AgentDeadline
    /\ results["agent"] = "empty" /\ empties > 0
    /\ empties' = empties - 1 /\ now' = Least(now + Sleep, Total) /\ UNCHANGED timeouts
    /\ pc' = "agent" /\ limit' = Total
    /\ UNCHANGED <<serverVars, config, results, published, handed>>

\* A timeout or an empty answer is retried while there is time.
Retry ==
    /\ pc = "closed" /\ now < AgentDeadline
    /\ \/ /\ results["agent"] = "timeout" /\ timeouts > 0
          /\ timeouts' = timeouts - 1 /\ UNCHANGED <<empties, now>>
       \/ /\ results["agent"] = "empty" /\ empties > 0
          /\ empties' = empties - 1 /\ now' = Least(now + Sleep, AgentDeadline)
          /\ UNCHANGED timeouts
    /\ pc' = "begin"
    /\ UNCHANGED <<serverVars, config, limit, results, published, handed>>

NoRetry ==
    /\ pc = "closed"
    /\ \/ now >= AgentDeadline
       \/ results["agent"] \notin {"timeout", "empty"}
       \/ results["agent"] = "timeout" /\ timeouts = 0
       \/ results["agent"] = "empty" /\ empties = 0
    /\ pc' = "settle"
    /\ UNCHANGED <<serverVars, config, now, limit, timeouts, empties, results,
                   published, handed>>

---------------------------------------------------------------------------
(* The result and the post-processor *)

\* The pre-processor ended the run, or the agent failed it.
Over == \/ results["pre"] \in Failures \cup {"skip"}
        \/ Failed /\ ~config.onFailure

TooLarge == store[ResultPath] # Missing /\ store[ResultPath].value \in Oversize

\* snapshot(), once, before the post-processor runs.
Settle ==
    /\ pc = "settle"
    /\ published' = store[ResultPath]
    /\ IF Over \/ TooLarge \/ ~config.post \/ now >= Total
         THEN /\ Finish
              /\ IF Over THEN UNCHANGED <<results, handed>>
                 ELSE IF TooLarge THEN Result("agent", "failed") /\ UNCHANGED handed
                 ELSE IF ~config.post THEN UNCHANGED <<results, handed>>
                 ELSE Result("post", "budget") /\ handed' = published'
              /\ UNCHANGED limit
         ELSE /\ Execute("post", "post",
                         IF Failed THEN Least(Timeout, PostTimeout) ELSE Timeout,
                         Total, "post")
              /\ handed' = published'
              /\ UNCHANGED serverVars
    /\ UNCHANGED <<config, now, timeouts, empties>>

PostEnds(category) ==
    /\ Ends("post", category)
    /\ Result("post", category)
    /\ Finish
    /\ UNCHANGED <<config, now, timeouts, empties, published, handed>>
    /\ limit' = 0

---------------------------------------------------------------------------
(* The children's requests, and the server *)

\* Who has been given the token: processors the host's, an attempt its own.
\* A child that escapes the end of its process tree keeps it.
Holds(by) == IF by = 0 THEN (config.pre /\ pc # "start") \/ pc = "post"
                       ELSE by <= attempt
Clients == \E r \in Requests, by \in Promise!Attempts :
    pc # "done" /\ Holds(by) /\ Send(r, by) /\ UNCHANGED runVars

Serve == pc # "done" /\ ServerNext /\ UNCHANGED runVars

\* The run's thread goes on by itself, unless a child of it runs.
Advances == Start \/ Begin \/ Close \/ Retry \/ NoRetry \/ Settle

Children ==
    \/ \E category \in {"ok", "skip", "failed", "timeout"} : PreEnds(category)
    \/ \E good \in BOOLEAN : ProbeEnds(good)
    \/ \E category \in {"ok", "empty", "failed", "timeout"} : AgentEnds(category)
    \/ \E category \in {"ok", "failed", "timeout"} : PostEnds(category)

Host == Advances \/ Children

Next == Host \/ Tick \/ Clients \/ Serve

Spec == Init /\ [][Next]_vars

\* What run_child does to a child that is still running at its limit.
Expires ==
    /\ now = limit
    /\ PreEnds("timeout") \/ ProbeEnds(FALSE) \/ AgentEnds("timeout") \/ PostEnds("timeout")

\* No child ever has to end by itself, and no client or request to go on.
FairSpec == Spec /\ WF_vars(Advances) /\ WF_vars(Expires) /\ WF_vars(Tick)

---------------------------------------------------------------------------
(* What the run can rely on *)

\* A value an attempt put under a binding the host prepared is accepted by the
\* schema the prepared inputs resolve it to: no order of puts lets an agent
\* supply its own validator (_resolve_schema, binding_frozen).
ResultIsChecked == \A c \in DOMAIN Binding :
    (/\ attempt > 0 /\ prepared[Binding[c]] # Missing
     /\ store[c] # Missing /\ store[c].from > 0)
    => \E d \in Schemas :
        /\ Promise!Resolves(prepared, Promise!Present(prepared), TRUE, prepared[Binding[c]].value, d)
        /\ store[c].value \in Accepts[d]

\* Pre-processor, probes, attempts, pauses and retries together leave the
\* post-processor of a failing run the time reserved for it (post_reserve), and
\* no child runs beyond the overall timeout.
ReserveIsKept ==
    /\ pc \notin {"post", "done"} => now <= AgentDeadline
    /\ now <= Total

\* What a run reports as its result, and hands to the post-processor, is of its
\* last attempt or of a processor: never what an earlier attempt left, although
\* its children may outlive it and its puts be in the server when the next one
\* begins (begin_attempt, snapshot).
ResultIsOfLastAttempt == \A entry \in {published, handed} :
    entry \notin {Unpublished, Missing} => entry.from \in {0, attempt}

\* A put is one atomic step of AttemptStore: checked against the store it
\* writes, in the attempt it belongs to, although its body takes the lock four
\* times while the host opens, closes and resets attempts.
PutsAreAtomic == Promise!Spec

\* Every run ends although its children may never end by themselves: time
\* passes, what still runs at its limit is ended, and the retries are counted
\* (execute, run_child, _pipeline).
RunEnds == <>(pc = "done")
=============================================================================
