--------------------------- MODULE PipelineServer ---------------------------
(***************************************************************************)
(* The pipeline MCP server of one run (pipeline/server.py).  Requests come  *)
(* over HTTP: the middleware authenticates a request when it arrives, the   *)
(* tool body runs later, and the body takes the store's lock several times. *)
(* Bodies run one at a time on the server's event loop; the host's thread   *)
(* (seed, begin_attempt, close_attempt, snapshot) runs between any two of   *)
(* their lock sections.                                                     *)
(*                                                                          *)
(* Only puts are followed: a get changes nothing but a counter.  A client   *)
(* that outlives its attempt keeps the token of that attempt, and the       *)
(* stdio bridge permits retries, so a put may come at any time and twice.   *)
(***************************************************************************)
EXTENDS Naturals, FiniteSets

CONSTANTS
    Paths, Values, Schemas, Refs, Binding, Target, Accepts, Seeds, MaxAttempt, Missing,
    Requests,   \* HTTP requests that can be in the server at a time
    Puttable,   \* path -> the values clients put there
    Nobody      \* no request is in its tool body

ASSUME ServerAssumption ==
    /\ Schemas \subseteq Values /\ Refs \subseteq Values /\ Schemas \cap Refs = {}
    /\ DOMAIN Binding \subseteq Paths
    /\ \A c \in DOMAIN Binding : Binding[c] \in Paths \ DOMAIN Binding
    /\ Target \in [Refs -> Paths] /\ Accepts \in [Schemas -> SUBSET Values]
    /\ \A s \in Seeds : s \in [Paths -> Values \cup {Missing}]
    /\ Puttable \in [Paths -> SUBSET Values]
    /\ MaxAttempt \in Nat /\ Values # {} /\ Missing \notin Values /\ Nobody \notin Requests

VARIABLES
    store, frozen, prepared, attempt, open,  \* the server's state, see AttemptStore
    request,  \* what the server holds of each request
    body      \* the request whose tool body is running

Promise == INSTANCE AttemptStore

requestVars == <<request, body>>
serverVars == <<store, frozen, prepared, attempt, open, request, body>>

\* The stages of a request: not there, arrived, past the middleware, then in
\* its body before each of the lock sections.
Bodies == {"frozen", "schema", "resolve", "write"}
Stages == {"idle", "arrived", "accepted"} \cup Bodies

Idle == [stage |-> "idle", by |-> 0, path |-> CHOOSE p \in Paths : TRUE,
         value |-> CHOOSE v \in Values : TRUE, seen |-> 0,
         bound |-> FALSE, schema |-> Missing]

RequestType == [stage : Stages,
                by : Promise!Attempts,    \* attempt of the token; 0 is the host's token
                path : Paths, value : Values,
                seen : Promise!Attempts,  \* the local variable attempt
                bound : BOOLEAN,          \* schema_frozen
                schema : Values \cup {Missing}]  \* raw_schema

ServerInit ==
    /\ Promise!Init
    /\ request = [r \in Requests |-> Idle]
    /\ body = Nobody

At(r, stage) == request[r].stage = stage
Becomes(r, new) == request' = [request EXCEPT ![r] = new]
Moves(r, stage) == Becomes(r, [request[r] EXCEPT !.stage = stage])
\* The answer is sent; the event loop takes up another request.
Answered(r) == Becomes(r, Idle) /\ body' = Nobody
\* The attempt this request belongs to is over.
Expired(r) == \/ request[r].seen # attempt
              \/ request[r].by # 0 /\ ~open

---------------------------------------------------------------------------
(* Requests *)

\* A client calls put with the token it was started with.
Send(r, by) ==
    /\ At(r, "idle")
    /\ \E p \in Paths : \E v \in Puttable[p] :
         Becomes(r, [Idle EXCEPT !.stage = "arrived", !.by = by, !.path = p, !.value = v])
    /\ UNCHANGED <<store, frozen, prepared, attempt, open, body>>

\* The middleware: the host's token, or the current attempt's while it is open.
Authenticate(r) ==
    /\ At(r, "arrived")
    /\ IF request[r].by = 0 \/ (request[r].by = attempt /\ open)
         THEN Moves(r, "accepted") ELSE Becomes(r, Idle)
    /\ UNCHANGED <<store, frozen, prepared, attempt, open, body>>

\* First lock section: the attempt of a request without one is the current one.
Enter(r) ==
    /\ At(r, "accepted") /\ body = Nobody
    /\ LET seen == IF request[r].by = 0 THEN attempt ELSE request[r].by
       IN IF request[r].by # 0 /\ (seen # attempt \/ ~open)
            THEN Answered(r)
            ELSE /\ Becomes(r, [request[r] EXCEPT !.stage = "frozen", !.seen = seen])
                 /\ body' = r
    /\ UNCHANGED <<store, frozen, prepared, attempt, open>>

\* Second section: host-seeded paths are read-only; a binding must be a schema
\* or a reference.
CheckFrozen(r) ==
    /\ At(r, "frozen")
    /\ IF \/ request[r].path \in frozen
          \/ request[r].path \in Promise!BindingPaths /\ request[r].value \notin Schemas \cup Refs
         THEN Answered(r)
         ELSE /\ Moves(r, IF request[r].path \in Promise!BindingPaths THEN "write" ELSE "schema")
              /\ UNCHANGED body
    /\ UNCHANGED <<store, frozen, prepared, attempt, open>>

\* Third section: the binding of the path and whether the host seeded it.  A
\* schema in the binding itself is applied at once.
ReadSchema(r) ==
    LET p == request[r].path
        entry == IF p \in DOMAIN Binding THEN store[Binding[p]] ELSE Missing
    IN /\ At(r, "schema")
       /\ IF entry = Missing THEN Moves(r, "write") /\ UNCHANGED body
          ELSE IF entry.value \in Refs
            THEN /\ Becomes(r, [request[r] EXCEPT !.stage = "resolve",
                                  !.schema = entry.value, !.bound = Binding[p] \in frozen])
                 /\ UNCHANGED body
          ELSE IF entry.value \in Schemas /\ request[r].value \in Accepts[entry.value]
            THEN Moves(r, "write") /\ UNCHANGED body
          ELSE Answered(r)
       /\ UNCHANGED <<store, frozen, prepared, attempt, open>>

\* Faulty variant: a seeded binding may name a document an agent put there.
ResolveAny(r) ==
    /\ At(r, "resolve")
    /\ IF \E d \in Schemas :
            /\ Promise!Resolves(store, frozen, FALSE, request[r].schema, d)
            /\ request[r].value \in Accepts[d]
         THEN Moves(r, "write") /\ UNCHANGED body ELSE Answered(r)
    /\ UNCHANGED <<store, frozen, prepared, attempt, open>>

\* Fourth section: one reference is followed, and the document is applied.
Resolve(r) ==
    /\ At(r, "resolve")
    /\ IF \E d \in Schemas :
            /\ Promise!Resolves(store, frozen, request[r].bound, request[r].schema, d)
            /\ request[r].value \in Accepts[d]
         THEN Moves(r, "write") /\ UNCHANGED body ELSE Answered(r)
    /\ UNCHANGED <<store, frozen, prepared, attempt, open>>

\* Faulty variant: the attempt is not checked again before the write.
WriteUnchecked(r) ==
    /\ At(r, "write")
    /\ store' = [store EXCEPT ![request[r].path] =
                   [value |-> request[r].value, from |-> request[r].by]]
    /\ Answered(r)
    /\ UNCHANGED <<frozen, prepared, attempt, open>>

\* Last section: the attempt is checked again and the value stored.
Write(r) ==
    /\ At(r, "write")
    /\ IF Expired(r) THEN UNCHANGED store
       ELSE store' = [store EXCEPT ![request[r].path] =
                        [value |-> request[r].value, from |-> request[r].by]]
    /\ Answered(r)
    /\ UNCHANGED <<frozen, prepared, attempt, open>>

ServerNext == \E r \in Requests :
    \/ Authenticate(r) \/ Enter(r)
    \/ CheckFrozen(r) \/ ReadSchema(r) \/ Resolve(r) \/ Write(r)

---------------------------------------------------------------------------
(* The host's thread *)

\* Seeded paths are frozen; the definition's put blocks come before anything runs.
SeedStore == Promise!Seed /\ UNCHANGED requestVars

\* A new token, the store and the frozen paths back to the prepared inputs.
BeginAttempt ==
    /\ attempt < MaxAttempt
    /\ attempt' = attempt + 1
    /\ prepared' = IF attempt = 0 THEN store ELSE prepared
    /\ store' = prepared'
    /\ frozen' = Promise!Present(prepared')
    /\ open' = TRUE
    /\ UNCHANGED requestVars

CloseAttempt == open' = FALSE /\ UNCHANGED <<store, frozen, prepared, attempt, request, body>>

\* The server stops with the run; what it had not answered is never answered.
Shutdown ==
    /\ request' = [r \in Requests |-> Idle]
    /\ body' = Nobody
    /\ UNCHANGED <<store, frozen, prepared, attempt, open>>
=============================================================================
