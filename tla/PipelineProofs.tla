--------------------------- MODULE PipelineProofs ---------------------------
(***************************************************************************)
(* The pipeline server implements a store with atomic puts, and agents      *)
(* cannot change what their results are checked by, for any paths, values,  *)
(* schemas, requests and agents.                                            *)
(*                                                                          *)
(* The argument: bodies run one at a time, so while a body is between its   *)
(* lock sections only the host changes the store, and it does so only by    *)
(* opening an attempt.  Then the body's attempt is no longer the current    *)
(* one, and its write is refused; otherwise what it has checked is still so *)
(* when it writes.                                                          *)
(***************************************************************************)
EXTENDS PipelineRun, TLAPS

ServerType ==
    /\ store \in [Paths -> Promise!Entries] /\ prepared \in [Paths -> Promise!Entries]
    /\ frozen \subseteq Paths /\ attempt \in Promise!Attempts /\ open \in BOOLEAN
    /\ request \in [Requests -> RequestType] /\ body \in Requests \cup {Nobody}

RunType ==
    /\ config \in Configs
    /\ pc \in {"start", "begin", "raised", "returned", "closed", "settle", "done"} \cup Running
    /\ now \in Time /\ limit \in Time
    /\ timeouts \in 0 .. config.timeouts /\ empties \in 0 .. config.empties
    /\ results \in [Steps -> Categories]
    /\ published \in Snapshots /\ handed \in Snapshots

\* One request is in its body, and none before the run has begun.
OneBody ==
    /\ \A r \in Requests : request[r].stage \in Bodies <=> body = r
    /\ \A r \in Requests : request[r].stage \in Bodies => request[r].seen <= attempt
    /\ pc = "start" => attempt = 0 /\ \A r \in Requests : request[r].stage = "idle"

\* What the body of a request has found out holds as long as its attempt does.
Found(r) ==
    LET q == request[r]
    IN /\ q.by \in {0, q.seen}
       /\ q.stage # "frozen" =>
            /\ q.path \notin frozen
            /\ q.path \in Promise!BindingPaths => q.value \in Schemas \cup Refs
       /\ q.stage = "resolve" =>
            /\ q.path \in DOMAIN Binding /\ q.schema \in Refs
            /\ store[Binding[q.path]] # Missing
            /\ store[Binding[q.path]].value = q.schema
            /\ q.bound <=> Binding[q.path] \in frozen
       /\ q.stage = "write" => Promise!Conforms(store, frozen, q.path, q.value)

FoundIsCurrent == \A r \in Requests :
    request[r].stage \in Bodies /\ request[r].seen = attempt => Found(r)

\* The prepared inputs are the host's, frozen, and still in the store.
InputsHold ==
    /\ attempt = 0 => \A p \in Paths : store[p] # Missing => store[p].from = 0
    /\ attempt > 0 =>
         /\ frozen = Promise!Present(prepared)
         /\ \A p \in Paths : prepared[p] # Missing =>
                               prepared[p].from = 0 /\ store[p] = prepared[p]

\* What is in the store is of the current attempt or of the host.
StoreIsFresh == \A p \in Paths : store[p] # Missing => store[p].from \in {0, attempt}

\* The result is looked at when the attempts are over.
Reported ==
    /\ pc \notin {"post", "done"} => published = Unpublished /\ handed = Unpublished
    /\ ResultIsOfLastAttempt

\* Until the post-processor, children are limited by the agent's deadline.
InTime ==
    /\ ReserveIsKept
    /\ pc \in {"pre", "probe", "agent"} => limit <= AgentDeadline
    /\ pc = "post" => limit <= Total

IInv == /\ TypeOK /\ OneBody /\ FoundIsCurrent /\ InputsHold /\ ResultIsChecked
        /\ StoreIsFresh /\ Reported /\ InTime

---------------------------------------------------------------------------
(* Types *)

LEMMA TypeParts == TypeOK <=> ServerType /\ RunType
  BY DEF TypeOK, ServerType, RunType

LEMMA IdleType == Idle \in RequestType
  <1>1. (CHOOSE p \in Paths : TRUE) \in Paths /\ (CHOOSE v \in Values : TRUE) \in Values
    BY ServerAssumption, RunAssumption
  <1>2. 0 \in Promise!Attempts
    BY ServerAssumption DEF Promise!Attempts
  <1>3. QED BY <1>1, <1>2 DEF Idle, RequestType, Stages

\* Numbers the time conditions compare.
LEMMA Deadlines ==
    ASSUME config \in Configs
    PROVE  /\ Total \in Time /\ AgentDeadline \in Time /\ AgentDeadline <= Total
           /\ Timeout \in Nat /\ PostTimeout \in Nat /\ MaxTime \in Nat /\ Sleep \in Nat
  <1>1. Total \in Nat /\ 1 <= Total /\ Total <= MaxTime /\ MaxTime \in Nat /\ PostTimeout \in Nat
    BY RunAssumption DEF Total
  <1>2. Total \div 2 \in Nat /\ Total \div 2 <= Total
    BY <1>1
  <1>3. Reserve \in Nat /\ Reserve <= Total
    BY <1>1, <1>2 DEF Reserve, Least
  <1>4. QED BY <1>1, <1>3, RunAssumption DEF AgentDeadline, Time

\* What starting a child does.
LEMMA ExecuteKeepsTime ==
    ASSUME RunType, NEW step \in Steps, NEW stage \in Running, NEW timeout \in Nat,
           NEW deadline \in Time, NEW otherwise,
           Execute(step, stage, timeout, deadline, otherwise)
    PROVE  /\ pc' \in {stage, otherwise} /\ limit' \in Time
           /\ results' \in [Steps -> Categories]
           /\ pc' = stage /\ stage # otherwise => limit' <= deadline
  BY RunAssumption DEF RunType, Execute, Result, Categories, Least, Time

\* The server's own steps keep its types.
LEMMA ServerNextType ==
    ASSUME ServerType, ServerNext PROVE ServerType'
  <1> USE DEF ServerType
  <1> SUFFICES ASSUME NEW r \in Requests,
                      Authenticate(r) \/ Enter(r) \/ CheckFrozen(r) \/ ReadSchema(r)
                      \/ Resolve(r) \/ Write(r)
               PROVE  ServerType'
    BY DEF ServerNext
  <1>0. request[r] \in RequestType /\ Idle \in RequestType
    BY IdleType
  <1>1. ASSUME NEW s \in Stages PROVE [request[r] EXCEPT !.stage = s] \in RequestType
    BY <1>0 DEF RequestType
  <1>2. CASE Authenticate(r)
    BY <1>0, <1>1, <1>2 DEF Authenticate, Moves, Becomes, Stages
  <1>3. CASE Enter(r)
    <2> DEFINE seen == IF request[r].by = 0 THEN attempt ELSE request[r].by
    <2>1. [request[r] EXCEPT !.stage = "frozen", !.seen = seen] \in RequestType
      BY <1>0 DEF RequestType, Stages, Bodies
    <2>2. QED BY <1>0, <1>3, <2>1 DEF Enter, Answered, Becomes
  <1>4. CASE CheckFrozen(r)
    BY <1>0, <1>1, <1>4 DEF CheckFrozen, Moves, Becomes, Answered, Stages, Bodies
  <1>5. CASE ReadSchema(r)
    <2> DEFINE p == request[r].path
               entry == IF p \in DOMAIN Binding THEN store[Binding[p]] ELSE Missing
    <2>1. ASSUME entry.value \in Refs
          PROVE  [request[r] EXCEPT !.stage = "resolve", !.schema = entry.value,
                                    !.bound = Binding[p] \in frozen] \in RequestType
      <3>1. entry.value \in Values /\ "resolve" \in Stages
        BY <2>1, ServerAssumption DEF Stages, Bodies
      <3>2. ASSUME NEW b \in BOOLEAN, NEW v \in Values
            PROVE  [request[r] EXCEPT !.stage = "resolve", !.schema = v, !.bound = b] \in RequestType
        BY <1>0, <3>1 DEF RequestType
      <3>3. (Binding[p] \in frozen) \in BOOLEAN
        OBVIOUS
      <3>4. QED BY <3>1, <3>2, <3>3
    <2>2. QED BY <1>0, <1>1, <1>5, <2>1 DEF ReadSchema, Moves, Becomes, Answered, Stages, Bodies
  <1>6. CASE Resolve(r)
    BY <1>0, <1>1, <1>6 DEF Resolve, Moves, Becomes, Answered, Stages, Bodies
  <1>7. CASE Write(r)
    <2>1. [value |-> request[r].value, from |-> request[r].by] \in Promise!Entries
      BY <1>0 DEF RequestType, Promise!Entries
    <2>2. QED BY <1>0, <1>7, <2>1 DEF Write, Answered, Becomes
  <1>8. QED BY <1>2, <1>3, <1>4, <1>5, <1>6, <1>7

\* What the host does to the server keeps its types.
LEMMA HostServerType ==
    ASSUME ServerType, SeedStore \/ BeginAttempt \/ CloseAttempt \/ Shutdown
    PROVE  ServerType'
  <1> USE DEF ServerType
  <1>1. CASE SeedStore
    <2>1. PICK seed \in Seeds : store' = Promise!Seeded(seed)
      BY <1>1 DEF SeedStore, Promise!Seed
    <2>2. seed \in [Paths -> Values \cup {Missing}] /\ 0 \in Promise!Attempts
      BY ServerAssumption DEF Promise!Attempts
    <2>3. store' \in [Paths -> Promise!Entries]
      BY <2>1, <2>2 DEF Promise!Seeded, Promise!Entries
    <2>4. QED BY <1>1, <2>3 DEF SeedStore, Promise!Seed, Promise!Present, requestVars
  <1>2. CASE BeginAttempt
    BY <1>2, ServerAssumption DEF BeginAttempt, Promise!Present, Promise!Attempts, requestVars
  <1>3. CASE CloseAttempt
    BY <1>3 DEF CloseAttempt
  <1>4. CASE Shutdown
    BY <1>4, IdleType DEF Shutdown
  <1>5. QED BY <1>1, <1>2, <1>3, <1>4

\* The run's steps keep types, on both sides.
LEMMA HostType ==
    ASSUME ServerType, RunType, Host \/ Tick PROVE ServerType' /\ RunType'
  <1> USE DEF RunType
  <1>0. /\ Total \in Time /\ AgentDeadline \in Time /\ Timeout \in Nat /\ PostTimeout \in Nat
        /\ MaxTime \in Nat /\ Sleep \in Nat /\ 0 \in Time
        /\ config.timeouts \in Nat /\ config.empties \in Nat
    BY Deadlines, RunAssumption DEF Time
  <1>1. CASE Start
    <2>1. ServerType' BY <1>1, HostServerType DEF Start
    <2>2. CASE config.pre
      <3>1. Execute("pre", "pre", Timeout, AgentDeadline, "settle")
        BY <1>1, <2>2 DEF Start
      <3>2. pc' \in {"pre", "settle"} /\ limit' \in Time /\ results' \in [Steps -> Categories]
        BY <3>1, <1>0, ExecuteKeepsTime DEF Running, Steps
      <3>3. QED BY <1>1, <2>1, <3>2 DEF Start, Running
    <2>3. CASE ~config.pre
      BY <1>1, <2>1, <2>3 DEF Start
    <2>4. QED BY <2>2, <2>3
  <1>2. CASE Tick
    BY <1>2, <1>0 DEF Tick, Time, ServerType, serverVars
  <1>3. CASE (\E c \in Categories : PreEnds(c))
    BY <1>3, <1>0 DEF PreEnds, Ends, Result, Categories, ServerType, serverVars
  <1>4. CASE Begin
    <2>1. ServerType' BY <1>4, HostServerType DEF Begin
    <2>2. CASE pc' = "raised" /\ UNCHANGED <<limit, results>>
      BY <1>4, <2>1, <2>2 DEF Begin
    <2>3. ASSUME NEW stage \in {"probe", "agent"},
                 Execute("agent", stage, Timeout, AgentDeadline, "returned")
          PROVE  ServerType' /\ RunType'
      <3>1. pc' \in {stage, "returned"} /\ limit' \in Time /\ results' \in [Steps -> Categories]
        BY <2>3, <1>0, ExecuteKeepsTime DEF Running, Steps
      <3>2. QED BY <1>4, <2>1, <3>1 DEF Begin, Running
    <2>4. QED BY <1>4, <2>2, <2>3 DEF Begin
  <1>5. CASE (\E good \in BOOLEAN : ProbeEnds(good))
    BY <1>5, <1>0 DEF ProbeEnds, Result, Categories, ServerType, serverVars, Running
  <1>6. CASE (\E c \in Categories : AgentEnds(c))
    BY <1>6, <1>0 DEF AgentEnds, Ends, Result, Categories, ServerType, serverVars
  <1>7. CASE Close
    <2>1. ServerType' BY <1>7, HostServerType DEF Close
    <2>2. QED BY <1>7, <2>1 DEF Close, Result, Categories
  <1>8. CASE Retry
    BY <1>8, <1>0 DEF Retry, ServerType, serverVars, Least, Time
  <1>9. CASE NoRetry
    BY <1>9 DEF NoRetry, ServerType, serverVars
  <1>10. CASE Settle
    <2>1. published' \in Snapshots
      BY <1>10, RunAssumption DEF Settle, Snapshots, ServerType
    <2> DEFINE Stop == Over \/ TooLarge \/ ~config.post \/ now >= Total
    <2>2. CASE Stop
      <3>1. /\ Finish /\ UNCHANGED limit /\ UNCHANGED <<config, now, timeouts, empties>>
            /\ handed' = handed \/ handed' = published'
            /\ results' = results \/ Result("agent", "failed") \/ Result("post", "budget")
        BY <1>10, <2>2 DEF Settle
      <3>2. ServerType' BY <3>1, HostServerType DEF Finish
      <3>3. results' \in [Steps -> Categories]
        BY <3>1 DEF Result, Categories
      <3>4. QED BY <2>1, <3>1, <3>2, <3>3 DEF Finish
    <2>3. CASE ~Stop
      <3>1. /\ Execute("post", "post", IF Failed THEN Least(Timeout, PostTimeout) ELSE Timeout,
                       Total, "post")
            /\ UNCHANGED serverVars /\ handed' = published'
            /\ UNCHANGED <<config, now, timeouts, empties>>
        BY <1>10, <2>3 DEF Settle
      <3>2. PICK timeout \in Nat : Execute("post", "post", timeout, Total, "post")
        BY <3>1, <1>0 DEF Least
      <3>3. pc' = "post" /\ limit' \in Time /\ results' \in [Steps -> Categories]
        BY <3>2, <1>0, ExecuteKeepsTime DEF Running, Steps
      <3>4. QED BY <2>1, <3>1, <3>3 DEF Running, ServerType, serverVars
    <2>4. QED BY <2>2, <2>3
  <1>11. CASE (\E c \in Categories : PostEnds(c))
    <2>1. ServerType' BY <1>11, HostServerType DEF PostEnds, Finish
    <2>2. QED BY <1>11, <2>1, <1>0 DEF PostEnds, Ends, Result, Categories, Finish
  <1>12. QED BY <1>1, <1>2, <1>3, <1>4, <1>5, <1>6, <1>7, <1>8, <1>9, <1>10, <1>11 DEF Host, Advances, Children, Categories

\* A new request keeps the server's types.
LEMMA SendType ==
    ASSUME ServerType, NEW r \in Requests, NEW by \in Promise!Attempts, Send(r, by)
    PROVE  ServerType'
  <1>0. PICK p \in Paths : \E v \in Puttable[p] :
           request' = [request EXCEPT ![r] =
               [Idle EXCEPT !.stage = "arrived", !.by = by, !.path = p, !.value = v]]
    BY DEF Send, Becomes
  <1>1. PICK v \in Puttable[p] :
           request' = [request EXCEPT ![r] =
               [Idle EXCEPT !.stage = "arrived", !.by = by, !.path = p, !.value = v]]
    BY <1>0
  <1>2. v \in Values
    BY ServerAssumption
  <1>3. [Idle EXCEPT !.stage = "arrived", !.by = by, !.path = p, !.value = v] \in RequestType
    BY <1>2, IdleType DEF RequestType, Stages
  <1>4. QED BY <1>1, <1>3 DEF Send, ServerType

---------------------------------------------------------------------------
(* Bodies *)

Serving(r) == Authenticate(r) \/ Enter(r) \/ CheckFrozen(r) \/ ReadSchema(r)
              \/ Resolve(r) \/ Write(r)

\* What the operators on requests do, field by field.
LEMMA MovesDoes ==
    ASSUME ServerType, NEW r \in Requests, NEW s \in Stages, Moves(r, s)
    PROVE  /\ \A q \in Requests \ {r} : request'[q] = request[q]
           /\ request'[r].stage = s /\ request'[r].by = request[r].by
           /\ request'[r].seen = request[r].seen /\ request'[r].path = request[r].path
           /\ request'[r].value = request[r].value
  BY DEF ServerType, Moves, Becomes, RequestType

LEMMA AnsweredDoes ==
    ASSUME ServerType, NEW r \in Requests, Becomes(r, Idle)
    PROVE  /\ \A q \in Requests \ {r} : request'[q] = request[q]
           /\ request'[r].stage = "idle"
  BY DEF ServerType, Becomes, Idle

LEMMA EnterDoes ==
    ASSUME ServerType, NEW r \in Requests, Enter(r)
    PROVE  /\ \A q \in Requests \ {r} : request'[q] = request[q]
           /\ body = Nobody /\ request[r].stage = "accepted"
           /\ \/ request'[r].stage = "idle" /\ body' = Nobody
              \/ /\ request'[r].stage = "frozen" /\ body' = r
                 /\ request'[r].seen = attempt /\ request'[r].by \in {0, attempt}
  <1>1. request[r] \in RequestType
    BY DEF ServerType
  <1>2. CASE Answered(r)
    BY <1>2, AnsweredDoes DEF Answered, Enter, At
  <1>3. CASE ~Answered(r)
    <2>1. PICK seen : /\ seen = IF request[r].by = 0 THEN attempt ELSE request[r].by
                      /\ request[r].by # 0 => seen = attempt
                      /\ Becomes(r, [request[r] EXCEPT !.stage = "frozen", !.seen = seen])
                      /\ body' = r
      BY <1>3 DEF Enter
    <2>2. request'[r] = [request[r] EXCEPT !.stage = "frozen", !.seen = seen]
          /\ \A q \in Requests \ {r} : request'[q] = request[q]
      BY <2>1 DEF Becomes, ServerType
    <2>3. QED BY <1>1, <2>1, <2>2 DEF Enter, At, RequestType
  <1>4. QED BY <1>2, <1>3

\* A reference is read from the binding of path p.
Refers(r, v, p) == Becomes(r, [request[r] EXCEPT !.stage = "resolve", !.schema = v,
                                                 !.bound = Binding[p] \in frozen])

LEMMA RefersDoes ==
    ASSUME ServerType, NEW r \in Requests, NEW v, NEW p, Refers(r, v, p)
    PROVE  /\ \A q \in Requests \ {r} : request'[q] = request[q]
           /\ request'[r].stage = "resolve" /\ request'[r].by = request[r].by
           /\ request'[r].seen = request[r].seen /\ request'[r].path = request[r].path
           /\ request'[r].value = request[r].value
           /\ request'[r].schema = v /\ (request'[r].bound <=> Binding[p] \in frozen)
  BY DEF ServerType, Becomes, RequestType, Refers

\* What any step on a request leaves alone, and where the request goes.
LEMMA ServingDoes ==
    ASSUME ServerType, NEW r \in Requests, Serving(r)
    PROVE  /\ \A q \in Requests \ {r} : request'[q] = request[q]
           /\ \/ request[r].stage \notin Bodies /\ request'[r].stage \notin Bodies /\ body' = body
              \/ /\ request[r].stage \notin Bodies /\ body = Nobody
                 /\ request'[r].stage = "frozen" /\ body' = r /\ request'[r].seen = attempt
              \/ request[r].stage \in Bodies /\ request'[r].stage \notin Bodies /\ body' = Nobody
              \/ /\ request[r].stage \in Bodies /\ request'[r].stage \in Bodies /\ body' = body
                 /\ request'[r].seen = request[r].seen
           /\ UNCHANGED <<frozen, prepared, attempt, open>>
           /\ ~Write(r) => UNCHANGED store
  <1>1. CASE Authenticate(r)
    BY <1>1, MovesDoes, AnsweredDoes DEF Authenticate, At, Bodies, Stages, Write
  <1>2. CASE Enter(r)
    BY <1>2, EnterDoes DEF Enter, Bodies
  <1>3. CASE CheckFrozen(r)
    BY <1>3, MovesDoes, AnsweredDoes DEF CheckFrozen, At, Answered, Bodies, Stages
  <1>4. CASE ReadSchema(r)
    <2>1. \/ Answered(r)
          \/ Moves(r, "write") /\ body' = body
          \/ /\ body' = body
             /\ \E v, p : Refers(r, v, p)
      BY <1>4 DEF ReadSchema, Refers
    <2>2. CASE Answered(r) \/ (Moves(r, "write") /\ body' = body)
      BY <1>4, <2>2, MovesDoes, AnsweredDoes DEF ReadSchema, At, Answered, Bodies, Stages
    <2>3. CASE body' = body /\ \E v, p : Refers(r, v, p)
      BY <1>4, <2>3, RefersDoes DEF ReadSchema, At, Bodies
    <2>4. QED BY <2>1, <2>2, <2>3
  <1>5. CASE Resolve(r)
    BY <1>5, MovesDoes, AnsweredDoes DEF Resolve, At, Answered, Bodies, Stages
  <1>6. CASE Write(r)
    BY <1>6, AnsweredDoes DEF Write, At, Answered, Bodies
  <1>7. QED BY <1>1, <1>2, <1>3, <1>4, <1>5, <1>6 DEF Serving

\* A request takes the body when it is free, and leaves it when it is answered.
LEMMA OneBodyKeeps ==
    ASSUME ServerType, OneBody, pc # "start", pc' = pc, NEW r \in Requests, Serving(r)
    PROVE  OneBody'
  <1>1. attempt \in Nat /\ body \in Requests \cup {Nobody} /\ Nobody \notin Requests
    BY ServerAssumption DEF ServerType, Promise!Attempts
  <1>2. \A q \in Requests \ {r} : request'[q] = request[q]
    BY ServingDoes
  <1>3. \A q \in Requests : request[q].stage \in Bodies <=> body = q
    BY DEF OneBody
  <1>4. request'[r].stage \in Bodies <=> body' = r
    BY <1>1, <1>3, ServingDoes DEF Bodies
  <1>5. \A q \in Requests \ {r} : request'[q].stage \in Bodies <=> body' = q
    BY <1>1, <1>2, <1>3, ServingDoes DEF Bodies
  <1>6. attempt' = attempt
    BY ServingDoes
  <1>7. request'[r].stage \in Bodies => request'[r].seen <= attempt
    BY <1>1, ServingDoes DEF OneBody, Bodies
  <1>8. QED BY <1>2, <1>4, <1>5, <1>6, <1>7 DEF OneBody

\* What a body finds out in a section is so, and stays so until it writes.
LEMMA FoundKeeps ==
    ASSUME ServerType, OneBody, FoundIsCurrent, NEW r \in Requests, Serving(r)
    PROVE  FoundIsCurrent'
  <1> USE DEF ServerType
  <1>1. CASE Write(r)
    <2>1. \A q \in Requests : request'[q].stage \notin Bodies
      BY <1>1, AnsweredDoes DEF Write, OneBody, Answered, At, Bodies
    <2>2. QED BY <2>1 DEF FoundIsCurrent
  <1>2. CASE ~Write(r)
    <2>1. UNCHANGED <<store, frozen, attempt>> /\ \A q \in Requests \ {r} : request'[q] = request[q]
      BY <1>2, ServingDoes
    <2>2. ASSUME NEW q \in Requests \ {r}, request'[q].stage \in Bodies,
                 request'[q].seen = attempt'
          PROVE  Found(q)'
      <3>1. Found(q) /\ request'[q] = request[q]
        BY <2>1, <2>2 DEF FoundIsCurrent
      <3>2. QED BY <2>1, <3>1 DEF Found, Promise!Conforms, Promise!Resolves
    <2>4. ASSUME request'[r].stage \in Bodies, request'[r].seen = attempt'
          PROVE  Found(r)'
      <3> DEFINE p == request[r].path
                 v == request[r].value
      <3>0. request[r].stage \in Bodies /\ request[r].seen = attempt => Found(r)
        BY DEF FoundIsCurrent
      <3>1. CASE Authenticate(r)
        BY <3>1, <2>4, MovesDoes, AnsweredDoes DEF Authenticate, Bodies, Stages
      <3>2. CASE Enter(r)
        BY <3>2, <2>1, <2>4, EnterDoes DEF Found, Bodies
      <3>3. CASE CheckFrozen(r)
        <4>1. ~Answered(r)
          BY <2>4, AnsweredDoes DEF Answered, Bodies
        <4>2. /\ p \notin frozen /\ (p \in Promise!BindingPaths => v \in Schemas \cup Refs)
              /\ Moves(r, IF p \in Promise!BindingPaths THEN "write" ELSE "schema")
              /\ request[r].stage = "frozen"
          BY <3>3, <4>1 DEF CheckFrozen, At
        <4>3. /\ request'[r].stage = IF p \in Promise!BindingPaths THEN "write" ELSE "schema"
              /\ request'[r].by = request[r].by /\ request'[r].seen = request[r].seen
              /\ request'[r].path = p /\ request'[r].value = v
          BY <4>2, MovesDoes DEF Stages, Bodies
        <4>4. request[r].by \in {0, request[r].seen}
          BY <2>1, <2>4, <3>0, <4>2, <4>3 DEF Found, Bodies
        <4>5. p \in Promise!BindingPaths => Promise!Conforms(store, frozen, p, v)
          BY <4>2, ServerAssumption DEF Promise!Conforms, Promise!BindingPaths
        <4>6. QED BY <2>1, <4>2, <4>3, <4>4, <4>5 DEF Found
      <3>4. CASE ReadSchema(r)
        <4> DEFINE entry == IF p \in DOMAIN Binding THEN store[Binding[p]] ELSE Missing
        <4>1. ~Answered(r) /\ request[r].stage = "schema"
          BY <3>4, <2>4, AnsweredDoes DEF Answered, Bodies, ReadSchema, At
        <4>2. CASE entry # Missing /\ entry.value \in Refs
          <5>0. Refers(r, entry.value, p)
            BY <3>4, <4>2 DEF ReadSchema, Refers
          <5>1. PICK w : w = entry.value /\ Refers(r, w, p)
            BY <5>0
          <5>2. /\ request'[r].stage = "resolve" /\ request'[r].by = request[r].by
                /\ request'[r].seen = request[r].seen /\ request'[r].path = p
                /\ request'[r].value = v /\ request'[r].schema = w
                /\ (request'[r].bound <=> Binding[p] \in frozen)
            BY <5>1, RefersDoes
          <5>3. Found(r)
            BY <2>1, <2>4, <3>0, <4>1, <5>2 DEF Bodies
          <5>4. /\ p \notin frozen /\ (p \in Promise!BindingPaths => v \in Schemas \cup Refs)
                /\ request[r].by \in {0, request[r].seen}
            BY <5>3, <4>1 DEF Found
          <5>5. /\ p \in DOMAIN Binding /\ w \in Refs
                /\ store[Binding[p]] # Missing /\ store[Binding[p]].value = w
            BY <4>2, <5>1
          <5>6. QED BY <2>1, <5>2, <5>4, <5>5 DEF Found
        <4>3. CASE ~(entry # Missing /\ entry.value \in Refs)
          <5>1. /\ Moves(r, "write")
                /\ entry # Missing => entry.value \in Schemas /\ v \in Accepts[entry.value]
            BY <3>4, <4>1, <4>3 DEF ReadSchema
          <5>2. /\ request'[r].stage = "write" /\ request'[r].by = request[r].by
                /\ request'[r].seen = request[r].seen /\ request'[r].path = p
                /\ request'[r].value = v
            BY <5>1, MovesDoes DEF Stages, Bodies
          <5>3. Found(r)
            BY <2>1, <2>4, <3>0, <4>1, <5>2 DEF Bodies
          <5>4. /\ p \notin frozen /\ (p \in Promise!BindingPaths => v \in Schemas \cup Refs)
                /\ request[r].by \in {0, request[r].seen}
            BY <5>3, <4>1 DEF Found
          <5>5. Promise!Conforms(store, frozen, p, v)
            BY <5>1, <5>4 DEF Promise!Conforms, Promise!Resolves
          <5>6. QED BY <2>1, <5>2, <5>4, <5>5 DEF Found
        <4>4. QED BY <4>2, <4>3
      <3>5. CASE Resolve(r)
        <4>1. ~Answered(r) /\ request[r].stage = "resolve"
          BY <3>5, <2>4, AnsweredDoes DEF Answered, Bodies, Resolve, At
        <4>2. /\ Moves(r, "write")
              /\ \E d \in Schemas :
                   /\ Promise!Resolves(store, frozen, request[r].bound, request[r].schema, d)
                   /\ v \in Accepts[d]
          BY <3>5, <4>1 DEF Resolve
        <4>3. /\ request'[r].stage = "write" /\ request'[r].by = request[r].by
              /\ request'[r].seen = request[r].seen /\ request'[r].path = p
              /\ request'[r].value = v
          BY <4>2, MovesDoes DEF Stages, Bodies
        <4>4. Found(r)
          BY <2>1, <2>4, <3>0, <4>1, <4>3 DEF Bodies
        <4>5. Promise!Conforms(store, frozen, p, v)
          BY <4>1, <4>2, <4>4 DEF Found, Promise!Conforms, Promise!Resolves
        <4>6. QED BY <2>1, <4>1, <4>3, <4>4, <4>5 DEF Found
      <3>6. QED BY <1>2, <3>1, <3>2, <3>3, <3>4, <3>5 DEF Serving
    <2>5. QED BY <2>2, <2>4 DEF FoundIsCurrent
  <1>3. QED BY <1>1, <1>2

---------------------------------------------------------------------------
(* The store *)

\* A write that is not refused is a put of the store as it then is.
LEMMA WriteIsPut ==
    ASSUME ServerType, OneBody, FoundIsCurrent, NEW r \in Requests, Write(r)
    PROVE  [Promise!Next]_(Promise!storeVars)
  <1>1. CASE Expired(r)
    BY <1>1 DEF Write, Promise!storeVars
  <1>2. CASE ~Expired(r)
    <2>1. request[r].seen = attempt /\ (request[r].by = 0 \/ open) /\ request[r].stage = "write"
      BY <1>2 DEF Expired, Write, At
    <2>2. Found(r)
      BY <2>1 DEF FoundIsCurrent, Bodies
    <2>3. request[r] \in RequestType
      BY DEF ServerType
    <2>4. /\ request[r].by \in Promise!Attempts /\ request[r].path \in Paths
          /\ request[r].value \in Values
      BY <2>3 DEF RequestType
    <2>5. Promise!Put(request[r].by, request[r].path, request[r].value)
      BY <1>2, <2>1, <2>2 DEF Found, Write, Promise!Put
    <2>6. QED BY <2>4, <2>5 DEF Promise!Next
  <1>3. QED BY <1>1, <1>2

\* The store's steps keep the prepared inputs, and what is put is checked by them.
LEMMA StoreKeeps ==
    ASSUME ServerType, InputsHold, ResultIsChecked, [Promise!Next]_(Promise!storeVars)
    PROVE  InputsHold' /\ ResultIsChecked'
  <1> USE DEF ServerType
  <1>0. attempt \in Nat /\ DOMAIN Binding \subseteq Paths
        /\ \A c \in DOMAIN Binding : Binding[c] \in Paths
    BY ServerAssumption DEF Promise!Attempts
  <1>1. CASE UNCHANGED Promise!storeVars
    BY <1>1 DEF Promise!storeVars, InputsHold, ResultIsChecked, Promise!Present, Promise!Resolves
  <1>2. CASE Promise!Seed
    <2>1. PICK seed \in Seeds : store' = Promise!Seeded(seed)
      BY <1>2 DEF Promise!Seed
    <2>2. \A p \in Paths : store'[p] # Missing => store'[p].from = 0
      BY <2>1 DEF Promise!Seeded
    <2>3. attempt' = 0
      BY <1>2 DEF Promise!Seed
    <2>4. QED BY <2>2, <2>3 DEF InputsHold, ResultIsChecked
  <1>3. CASE Promise!Begin
    <2>1. /\ attempt' > 0 /\ store' = prepared' /\ frozen' = Promise!Present(prepared')
          /\ prepared' = IF attempt = 0 THEN store ELSE prepared
      BY <1>0, <1>3 DEF Promise!Begin
    <2>2. \A p \in Paths : prepared'[p] # Missing => prepared'[p].from = 0
      BY <1>0, <2>1 DEF InputsHold
    <2>3. InputsHold'
      BY <2>1, <2>2 DEF InputsHold, Promise!Present
    <2>4. ResultIsChecked'
      BY <1>0, <2>1, <2>2 DEF ResultIsChecked
    <2>5. QED BY <2>3, <2>4
  <1>4. CASE Promise!Close
    BY <1>4 DEF Promise!Close, InputsHold, ResultIsChecked, Promise!Present, Promise!Resolves
  <1>5. ASSUME NEW by \in Promise!Attempts, NEW p \in Paths, NEW v \in Values,
               Promise!Put(by, p, v)
        PROVE  InputsHold' /\ ResultIsChecked'
    <2>1. /\ p \notin frozen /\ Promise!Conforms(store, frozen, p, v)
          /\ by = 0 \/ by = attempt
          /\ store' = [store EXCEPT ![p] = [value |-> v, from |-> by]]
          /\ UNCHANGED <<frozen, prepared, attempt>>
      BY <1>5 DEF Promise!Put, Promise!Conforms
    <2>2. InputsHold'
      <3>1. CASE attempt = 0
        <4>1. \A q \in Paths : store'[q] # Missing => store'[q].from = 0
          BY <2>1, <3>1 DEF InputsHold
        <4>2. QED BY <2>1, <3>1, <4>1 DEF InputsHold
      <3>2. CASE attempt > 0
        <4>1. prepared[p] = Missing
          BY <2>1, <3>2 DEF InputsHold, Promise!Present
        <4>2. \A q \in Paths \ {p} : store'[q] = store[q]
          BY <2>1
        <4>3. QED BY <2>1, <3>2, <4>1, <4>2 DEF InputsHold, Promise!Present
      <3>3. QED BY <1>0, <3>1, <3>2
    <2>3. ASSUME NEW c \in DOMAIN Binding, attempt > 0, prepared[Binding[c]] # Missing,
                 store'[c] # Missing, store'[c].from > 0
          PROVE  \E d \in Schemas :
                   /\ Promise!Resolves(prepared, Promise!Present(prepared), TRUE,
                                       prepared[Binding[c]].value, d)
                   /\ store'[c].value \in Accepts[d]
      <3>1. CASE c # p
        BY <1>0, <2>1, <2>3, <3>1 DEF ResultIsChecked
      <3>2. CASE c = p
        <4>1. Binding[c] \in frozen /\ store[Binding[c]] = prepared[Binding[c]]
          BY <1>0, <2>3 DEF InputsHold, Promise!Present
        <4> DEFINE b == prepared[Binding[c]].value
        <4>2. PICK d \in Schemas :
                Promise!Resolves(store, frozen, TRUE, b, d) /\ v \in Accepts[d]
          BY <2>1, <2>3, <3>2, <4>1 DEF Promise!Conforms
        <4>3. Promise!Resolves(prepared, Promise!Present(prepared), TRUE, b, d)
          <5>1. CASE b \in Schemas /\ d = b
            BY <5>1 DEF Promise!Resolves
          <5>2. CASE ~(b \in Schemas /\ d = b)
            <6>1. /\ b \in Refs /\ Target[b] \in frozen
                  /\ store[Target[b]].value \in Schemas /\ d = store[Target[b]].value
              BY <4>2, <5>2 DEF Promise!Resolves
            <6>2. /\ Target[b] \in Promise!Present(prepared) /\ prepared[Target[b]] # Missing
                  /\ store[Target[b]] = prepared[Target[b]]
              BY <2>3, <6>1 DEF InputsHold, Promise!Present
            <6>3. QED BY <6>1, <6>2 DEF Promise!Resolves
          <5>3. QED BY <5>1, <5>2
        <4>4. store'[c].value = v
          BY <2>1, <3>2
        <4>5. QED BY <4>2, <4>3, <4>4
      <3>3. QED BY <3>1, <3>2
    <2>4. ResultIsChecked'
      BY <2>1, <2>3 DEF ResultIsChecked, Promise!Present, Promise!Resolves
    <2>5. QED BY <2>2, <2>4
  <1>6. QED BY <1>1, <1>2, <1>3, <1>4, <1>5 DEF Promise!Next

\* An attempt begins with the host's inputs, and only the current one puts.
LEMMA FreshKeeps ==
    ASSUME ServerType, InputsHold, StoreIsFresh, [Promise!Next]_(Promise!storeVars)
    PROVE  StoreIsFresh'
  <1>0. attempt \in Nat
    BY ServerAssumption DEF ServerType, Promise!Attempts
  <1>1. CASE Promise!Seed
    BY <1>1 DEF Promise!Seed, Promise!Seeded, StoreIsFresh
  <1>2. CASE Promise!Begin
    <2>1. store' = IF attempt = 0 THEN store ELSE prepared
      BY <1>2 DEF Promise!Begin
    <2>2. \A p \in Paths : store'[p] # Missing => store'[p].from = 0
      BY <1>0, <2>1 DEF InputsHold
    <2>3. QED BY <2>2 DEF StoreIsFresh
  <1>3. CASE Promise!Close \/ UNCHANGED Promise!storeVars
    BY <1>3 DEF Promise!Close, Promise!storeVars, StoreIsFresh
  <1>4. ASSUME NEW by \in Promise!Attempts, NEW p \in Paths, NEW v \in Values,
               Promise!Put(by, p, v)
        PROVE  StoreIsFresh'
    <2>1. /\ by \in {0, attempt} /\ attempt' = attempt
          /\ store' = [store EXCEPT ![p] = [value |-> v, from |-> by]]
      BY <1>4 DEF Promise!Put
    <2>2. store'[p] # Missing => store'[p].from = by
      BY <2>1 DEF ServerType
    <2>3. \A q \in Paths \ {p} : store'[q] = store[q]
      BY <2>1 DEF ServerType
    <2>4. QED BY <2>1, <2>2, <2>3 DEF StoreIsFresh
  <1>5. QED BY <1>1, <1>2, <1>3, <1>4 DEF Promise!Next

---------------------------------------------------------------------------
(* The host *)

\* Nothing the server holds changes but whether the attempt is open.
LEMMA StillKeeps ==
    ASSUME OneBody, FoundIsCurrent, UNCHANGED <<store, frozen, attempt, request, body>>,
           pc' = "start" => pc = "start"
    PROVE  OneBody' /\ FoundIsCurrent'
  BY DEF OneBody, FoundIsCurrent, Found, Promise!Conforms, Promise!Resolves

\* An attempt that begins leaves every body with an attempt that is over.
LEMMA BeginKeeps ==
    ASSUME ServerType, OneBody, BeginAttempt, pc' # "start"
    PROVE  OneBody' /\ FoundIsCurrent'
  <1>1. attempt \in Nat /\ attempt' = attempt + 1 /\ UNCHANGED requestVars
    BY ServerAssumption DEF ServerType, BeginAttempt, Promise!Attempts
  <1>2. ASSUME NEW r \in Requests, request'[r].stage \in Bodies
        PROVE  request'[r].seen <= attempt /\ request'[r].seen \in Nat
    <2>1. request[r] \in RequestType
      BY DEF ServerType
    <2>2. QED BY <1>1, <1>2, <2>1, ServerAssumption DEF OneBody, requestVars, RequestType, Promise!Attempts
  <1>3. FoundIsCurrent'
    BY <1>1, <1>2 DEF FoundIsCurrent
  <1>4. OneBody'
    BY <1>1, <1>2 DEF OneBody, requestVars
  <1>5. QED BY <1>3, <1>4

\* When nothing is in its body there is nothing to keep.
LEMMA IdleKeeps ==
    ASSUME \A r \in Requests : request'[r].stage = "idle", body' = Nobody,
           pc' = "start" => attempt' = 0
    PROVE  OneBody' /\ FoundIsCurrent'
  BY ServerAssumption DEF OneBody, FoundIsCurrent, Bodies

LEMMA ShutdownIdles ==
    ASSUME Shutdown PROVE body' = Nobody /\ \A r \in Requests : request'[r].stage = "idle"
  BY DEF Shutdown, Idle

\* The run's steps keep what bodies have found, and are steps of the store.
LEMMA HostKeeps ==
    ASSUME TypeOK, OneBody, FoundIsCurrent, Host \/ Tick
    PROVE  OneBody' /\ FoundIsCurrent' /\ [Promise!Next]_(Promise!storeVars)
  <1> USE DEF Promise!storeVars
  <1>1. CASE Start
    <2>1. /\ SeedStore /\ pc' # "start"
          /\ \A r \in Requests : request[r].stage = "idle"
      BY <1>1 DEF Start, Execute, OneBody
    <2>2. body = Nobody
      BY <2>1, TypeParts DEF OneBody, ServerType, Bodies
    <2>3. OneBody' /\ FoundIsCurrent'
      BY <2>1, <2>2, IdleKeeps DEF SeedStore, requestVars
    <2>4. QED BY <2>1, <2>3 DEF SeedStore, Promise!Next
  <1>2. CASE Begin
    <2>1. BeginAttempt /\ pc' # "start"
      BY <1>2 DEF Begin, Execute
    <2>2. OneBody' /\ FoundIsCurrent'
      BY <2>1, BeginKeeps, TypeParts
    <2>3. QED BY <2>1, <2>2 DEF BeginAttempt, Promise!Begin, Promise!Next
  <1>3. CASE Close
    <2>1. CloseAttempt /\ pc' # "start"
      BY <1>3 DEF Close
    <2>2. OneBody' /\ FoundIsCurrent'
      BY <2>1, StillKeeps DEF CloseAttempt
    <2>3. QED BY <2>1, <2>2 DEF CloseAttempt, Promise!Close, Promise!Next
  <1>4. CASE Settle \/ (\E c \in Categories : PostEnds(c))
    <2>1. CASE Finish
      <3>1. OneBody' /\ FoundIsCurrent'
        BY <2>1, ShutdownIdles, IdleKeeps DEF Finish
      <3>2. QED BY <2>1, <3>1 DEF Finish, Shutdown
    <2>2. CASE ~Finish
      <3>1. UNCHANGED serverVars /\ pc' # "start"
        BY <1>4, <2>2 DEF Settle, PostEnds, Execute
      <3>2. QED BY <3>1, StillKeeps DEF serverVars
    <2>3. QED BY <2>1, <2>2
  <1>5. CASE Tick \/ (\E c \in Categories : PreEnds(c)) \/ (\E good \in BOOLEAN : ProbeEnds(good)) \/ (\E c \in Categories : AgentEnds(c)) \/ Retry \/ NoRetry
    <2>1. UNCHANGED serverVars /\ (pc' = "start" => pc = "start")
      BY <1>5 DEF Tick, PreEnds, ProbeEnds, AgentEnds, Retry, NoRetry, Ends
    <2>2. QED BY <2>1, StillKeeps DEF serverVars
  <1>6. QED BY <1>1, <1>2, <1>3, <1>4, <1>5 DEF Host, Advances, Children, Categories

\* A request that arrives is in no body.
LEMMA SendKeeps ==
    ASSUME TypeOK, OneBody, FoundIsCurrent, Clients
    PROVE  OneBody' /\ FoundIsCurrent' /\ UNCHANGED Promise!storeVars /\ ServerType'
  <1>1. PICK r \in Requests, by \in Promise!Attempts :
           Holds(by) /\ Send(r, by) /\ UNCHANGED runVars
    BY DEF Clients
  <1>2. pc # "start"
    BY <1>1 DEF Holds, OneBody, Promise!Attempts
  <1>3. ServerType'
    BY <1>1, SendType, TypeParts
  <1>4. /\ UNCHANGED <<store, frozen, prepared, attempt, open, body, pc>>
        /\ request[r].stage = "idle"
    BY <1>1 DEF Send, runVars, At
  <1>5. \A q \in Requests \ {r} : request'[q] = request[q]
    BY <1>1, TypeParts DEF Send, Becomes, ServerType
  <1>6. request'[r].stage = "arrived"
    <2>1. PICK p \in Paths : \E v \in Puttable[p] : Becomes(r,
             [Idle EXCEPT !.stage = "arrived", !.by = by, !.path = p, !.value = v])
      BY <1>1 DEF Send
    <2>2. PICK v : Becomes(r,
             [Idle EXCEPT !.stage = "arrived", !.by = by, !.path = p, !.value = v])
      BY <2>1
    <2>3. QED BY <2>2, TypeParts DEF Becomes, ServerType, Idle
  <1>7. \A q \in Requests : request[q].stage \in Bodies <=> request'[q].stage \in Bodies
    BY <1>4, <1>5, <1>6 DEF Bodies
  <1>8. OneBody'
    BY <1>2, <1>4, <1>5, <1>6, <1>7 DEF OneBody, Bodies
  <1>9. ASSUME NEW q \in Requests, request'[q].stage \in Bodies, request'[q].seen = attempt'
        PROVE  Found(q)'
    <2>1. q # r
      BY <1>6, <1>9 DEF Bodies
    <2>2. request'[q] = request[q] /\ Found(q)
      BY <1>4, <1>5, <1>9, <2>1 DEF FoundIsCurrent
    <2>3. QED BY <1>4, <2>2 DEF Found, Promise!Conforms, Promise!Resolves
  <1>10. QED BY <1>3, <1>4, <1>8, <1>9 DEF FoundIsCurrent, Promise!storeVars

\* The server's steps.
LEMMA ServeKeeps ==
    ASSUME TypeOK, OneBody, FoundIsCurrent, Serve
    PROVE  OneBody' /\ FoundIsCurrent' /\ [Promise!Next]_(Promise!storeVars) /\ ServerType'
  <1>1. PICK r \in Requests : Serving(r)
    BY DEF Serve, ServerNext, Serving
  <1>2. UNCHANGED pc /\ ServerType
    BY TypeParts DEF Serve, runVars
  <1>3. ServerType'
    BY <1>2, ServerNextType DEF Serve
  <1>4. pc # "start"
    BY <1>1 DEF OneBody, Serving, Authenticate, Enter, CheckFrozen, ReadSchema, Resolve, Write, At
  <1>5. OneBody'
    BY <1>1, <1>2, <1>4, OneBodyKeeps
  <1>6. FoundIsCurrent'
    BY <1>1, <1>2, FoundKeeps
  <1>7. [Promise!Next]_(Promise!storeVars)
    <2>1. CASE Write(r)
      BY <1>2, <2>1, WriteIsPut
    <2>2. CASE ~Write(r)
      BY <1>1, <1>2, <2>2, ServingDoes DEF Promise!storeVars
    <2>3. QED BY <2>1, <2>2
  <1>8. QED BY <1>3, <1>5, <1>6, <1>7

\* The result is read from the store when no attempt will follow.
LEMMA ReportKeeps ==
    ASSUME StoreIsFresh, Reported, Host \/ Tick PROVE Reported'
  <1>1. CASE Settle
    <2>1. /\ published' = store[ResultPath] /\ handed' \in {handed, published'}
          /\ handed = Unpublished
      BY <1>1 DEF Settle, Reported
    <2>2. pc' \in {"post", "done"} /\ attempt' = attempt
      BY <1>1 DEF Settle, Finish, Shutdown, Execute, serverVars
    <2>3. published' \notin {Unpublished, Missing} => published'.from \in {0, attempt}
      BY <2>1, RunAssumption DEF StoreIsFresh
    <2>4. QED BY <2>1, <2>2, <2>3 DEF Reported, ResultIsOfLastAttempt
  <1>2. CASE (\E c \in Categories : PostEnds(c))
    <2>1. UNCHANGED <<published, handed, attempt>> /\ pc' = "done"
      BY <1>2 DEF PostEnds, Finish, Shutdown
    <2>2. QED BY <2>1 DEF Reported, ResultIsOfLastAttempt
  <1>3. CASE Tick
    <2>1. UNCHANGED <<published, handed, attempt, pc>>
      BY <1>3 DEF Tick, serverVars
    <2>2. QED BY <2>1 DEF Reported, ResultIsOfLastAttempt
  <1>4. CASE Start \/ (\E c \in Categories : PreEnds(c)) \/ Begin \/ (\E good \in BOOLEAN : ProbeEnds(good)) \/ (\E c \in Categories : AgentEnds(c)) \/ Close \/ Retry \/ NoRetry
    <2>1. UNCHANGED <<published, handed>> /\ pc \notin {"post", "done"}
      BY <1>4 DEF Start, PreEnds, Begin, ProbeEnds, AgentEnds, Close, Retry, NoRetry, Ends
    <2>2. published' = Unpublished /\ handed' = Unpublished
      BY <2>1 DEF Reported
    <2>3. QED BY <2>2 DEF Reported, ResultIsOfLastAttempt
  <1>5. QED BY <1>1, <1>2, <1>3, <1>4 DEF Host, Advances, Children, Categories

\* No step takes the time kept back for the post-processor.
LEMMA TimeKeeps ==
    ASSUME RunType, InTime, Host \/ Tick PROVE InTime'
  <1> USE DEF RunType, InTime, ReserveIsKept
  <1>0. /\ Total \in Nat /\ AgentDeadline \in Time /\ Timeout \in Nat /\ MaxTime \in Nat
        /\ Sleep \in Nat /\ now \in Nat /\ limit \in Nat /\ AgentDeadline \in Nat
        /\ AgentDeadline <= Total /\ PostTimeout \in Nat
    BY Deadlines, RunAssumption DEF Time
  <1>1. UNCHANGED config => AgentDeadline' = AgentDeadline /\ Total' = Total
    BY DEF AgentDeadline, Reserve, Total
  <1>2. ASSUME NEW step \in Steps, NEW stage \in {"pre", "probe", "agent"},
               NEW otherwise \in {"settle", "returned"},
               UNCHANGED <<config, now>>, now <= AgentDeadline,
               Execute(step, stage, Timeout, AgentDeadline, otherwise)
        PROVE  InTime'
    <2>1. /\ pc' \in {stage, otherwise}
          /\ pc' = stage /\ stage # otherwise => limit' <= AgentDeadline
      BY <1>0, <1>2, ExecuteKeepsTime DEF Running
    <2>2. QED BY <1>1, <1>2, <2>1
  <1>3. CASE Start
    BY <1>1, <1>2, <1>3 DEF Start, Steps
  <1>4. CASE Begin
    <2>1. UNCHANGED <<config, now>> /\ now <= AgentDeadline
      BY <1>4 DEF Begin
    <2>2. CASE pc' = "raised"
      BY <1>1, <2>1, <2>2
    <2>3. CASE pc' # "raised"
      <3>1. PICK stage \in {"probe", "agent"} :
               Execute("agent", stage, Timeout, AgentDeadline, "returned")
        BY <1>4, <2>3 DEF Begin
      <3>2. QED BY <1>2, <2>1, <3>1 DEF Steps
    <2>4. QED BY <2>2, <2>3
  <1>5. CASE Tick
    BY <1>0, <1>1, <1>5 DEF Tick, Running
  <1>6. CASE (\E c \in Categories : PreEnds(c)) \/ (\E good \in BOOLEAN : ProbeEnds(good)) \/ (\E c \in Categories : AgentEnds(c)) \/ Close \/ NoRetry
    BY <1>0, <1>1, <1>6 DEF PreEnds, ProbeEnds, AgentEnds, Close, NoRetry, Ends
  <1>7. CASE Retry
    BY <1>0, <1>1, <1>7 DEF Retry, Least
  <1>8. CASE Settle \/ (\E c \in Categories : PostEnds(c))
    <2>1. pc' \in {"post", "done"} /\ UNCHANGED <<config, now>>
      BY <1>8 DEF Settle, PostEnds, Finish, Execute
    <2>2. pc' = "post" => limit' <= Total
      <3>1. ASSUME NEW timeout \in Nat, Execute("post", "post", timeout, Total, "post"),
                   now < Total
            PROVE  limit' <= Total
        BY <1>0, <3>1 DEF Execute, Least
      <3>2. CASE pc' = "post"
        <4>1. /\ now < Total
              /\ Execute("post", "post", IF Failed THEN Least(Timeout, PostTimeout)
                                         ELSE Timeout, Total, "post")
          BY <1>0, <1>8, <3>2 DEF Settle, PostEnds, Finish
        <4>2. (IF Failed THEN Least(Timeout, PostTimeout) ELSE Timeout) \in Nat
          BY <1>0 DEF Least
        <4>3. QED BY <3>1, <4>1, <4>2
      <3>3. QED BY <3>2
    <2>3. QED BY <1>1, <2>1, <2>2
  <1>9. QED BY <1>3, <1>4, <1>5, <1>6, <1>7, <1>8 DEF Host, Advances, Children, Categories

---------------------------------------------------------------------------
(* The invariant *)

LEMMA Initially == Init => IInv
  <1> SUFFICES ASSUME Init PROVE IInv
    OBVIOUS
  <1> USE DEF Init, ServerInit, Promise!Init
  <1>0. AgentDeadline \in Time /\ config \in Configs /\ 0 \in Time
        /\ config.timeouts \in Nat /\ config.empties \in Nat /\ 0 \in Promise!Attempts
    BY Deadlines, RunAssumption, ServerAssumption DEF Time, Promise!Attempts
  <1>1. ServerType
    BY <1>0, IdleType DEF ServerType, Promise!Empty, Promise!Entries
  <1>2. RunType
    BY <1>0 DEF RunType, Categories, Snapshots
  <1>3. OneBody /\ FoundIsCurrent
    BY ServerAssumption DEF OneBody, FoundIsCurrent, Idle, Bodies
  <1>4. InputsHold /\ ResultIsChecked
    BY DEF InputsHold, ResultIsChecked, Promise!Empty
  <1>5. InTime
    BY <1>0, Deadlines DEF InTime, ReserveIsKept, Time
  <1>6. StoreIsFresh /\ Reported
    BY DEF StoreIsFresh, Promise!Empty, Reported, ResultIsOfLastAttempt
  <1>7. QED BY <1>1, <1>2, <1>3, <1>4, <1>5, <1>6, TypeParts DEF IInv

\* Only the host begins attempts.
LEMMA ClientsKeepAttempt ==
    ASSUME Clients \/ Serve PROVE UNCHANGED attempt
  BY DEF Clients, Send, Serve, ServerNext, Authenticate, Enter, CheckFrozen, ReadSchema,
         Resolve, Write

\* Every step keeps the invariant and is a step of the store, or none of it.
LEMMA Stepwise ==
    ASSUME IInv, [Next]_vars PROVE IInv' /\ [Promise!Next]_(Promise!storeVars)
  <1> USE DEF IInv
  <1>1. ServerType /\ RunType
    BY TypeParts
  <1>2. CASE Host \/ Tick
    <2>1. TypeOK'
      BY <1>1, <1>2, HostType DEF TypeOK, ServerType, RunType
    <2>2. OneBody' /\ FoundIsCurrent' /\ [Promise!Next]_(Promise!storeVars)
      BY <1>2, HostKeeps
    <2>3. InTime'
      BY <1>1, <1>2, TimeKeeps
    <2>4. StoreIsFresh' /\ Reported'
      BY <1>1, <1>2, <2>2, FreshKeeps, ReportKeeps
    <2>5. QED BY <1>1, <2>1, <2>2, <2>3, <2>4, StoreKeeps
  <1>3. CASE Clients \/ Serve
    <2>1. /\ OneBody' /\ FoundIsCurrent' /\ [Promise!Next]_(Promise!storeVars)
          /\ ServerType'
      BY <1>3, SendKeeps, ServeKeeps
    <2>2. UNCHANGED runVars
      BY <1>3 DEF Clients, Serve
    <2>3. RunType' /\ InTime'
      BY <1>1, <2>2 DEF RunType, InTime, ReserveIsKept, AgentDeadline, Reserve, Total, runVars
    <2>4. TypeOK'
      BY <2>1, <2>3 DEF TypeOK, ServerType, RunType
    <2>5. StoreIsFresh' /\ Reported'
      <3>1. UNCHANGED attempt
        BY <1>3, ClientsKeepAttempt
      <3>2. Reported'
        BY <2>2, <3>1 DEF Reported, ResultIsOfLastAttempt, runVars
      <3>3. QED BY <1>1, <2>1, <3>2, FreshKeeps
    <2>6. QED BY <1>1, <2>1, <2>3, <2>4, <2>5, StoreKeeps
  <1>4. CASE UNCHANGED vars
    <2>1. UNCHANGED serverVars /\ UNCHANGED runVars
      BY <1>4 DEF vars
    <2>2. OneBody' /\ FoundIsCurrent' /\ UNCHANGED Promise!storeVars
      BY <2>1, StillKeeps DEF serverVars, runVars, Promise!storeVars
    <2>3. TypeOK' /\ InTime'
      BY <1>1, <2>1, <2>2 DEF TypeOK, InTime, ReserveIsKept, AgentDeadline, Reserve, Total,
                             serverVars, runVars
    <2>4. StoreIsFresh' /\ Reported'
      BY <2>1 DEF StoreIsFresh, Reported, ResultIsOfLastAttempt, serverVars, runVars
    <2>5. QED BY <1>1, <2>2, <2>3, <2>4, StoreKeeps
  <1>5. QED BY <1>2, <1>3, <1>4 DEF Next

LEMMA Invariance == Spec => []IInv
  <1>1. IInv /\ [Next]_vars => IInv'
    BY Stepwise
  <1>2. QED BY Initially, <1>1, PTL DEF Spec

---------------------------------------------------------------------------
(* What is proved of every run *)

\* The server's and the run's variables keep their types, however requests,
\* attempts and retries interleave.
THEOREM TypeCorrect == Spec => []TypeOK
  <1>1. IInv => TypeOK
    BY DEF IInv
  <1>2. QED BY <1>1, Invariance, PTL

\* What an attempt put under a binding the host prepared is accepted by the
\* schema the prepared inputs name.
THEOREM InputsDecide == Spec => []ResultIsChecked
  <1>1. IInv => ResultIsChecked
    BY DEF IInv
  <1>2. QED BY <1>1, Invariance, PTL

\* The reported result is of the last attempt or of a processor, whatever
\* earlier attempts and their children put and when.
THEOREM ReportsLastAttempt == Spec => []ResultIsOfLastAttempt
  <1>1. IInv => ResultIsOfLastAttempt
    BY DEF IInv, Reported
  <1>2. QED BY <1>1, Invariance, PTL

\* The post-processor of a failing run is left the time reserved for it, and
\* no child runs beyond the overall timeout.
THEOREM ReserveKept == Spec => []ReserveIsKept
  <1>1. IInv => ReserveIsKept
    BY DEF IInv, InTime
  <1>2. QED BY <1>1, Invariance, PTL

\* The server implements the store: puts of four lock sections, with attempts
\* opened and closed between them, are atomic puts of AttemptStore.
THEOREM ImplementsAttemptStore == Spec => PutsAreAtomic
  <1>1. Init => Promise!Init
    BY DEF Init, ServerInit
  <1>2. IInv /\ [Next]_vars => [Promise!Next]_(Promise!storeVars)
    BY Stepwise
  <1>3. QED BY <1>1, <1>2, Invariance, PTL DEF Spec, PutsAreAtomic, Promise!Spec
=============================================================================
