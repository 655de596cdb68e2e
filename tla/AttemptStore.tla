---------------------------- MODULE AttemptStore ----------------------------
(***************************************************************************)
(* What the pipeline's side channel promises (pipeline/server.py): a store  *)
(* of values by path in which a put is one atomic step.  The host prepares  *)
(* the inputs; every attempt of the agent starts from exactly these and may *)
(* add to them, never change them, and only while it is open.               *)
(*                                                                          *)
(* Paths and values are those an instance needs: a content path may have a  *)
(* binding path ("<path>/$schema"), and a value is a schema, a reference to *)
(* one, or anything else.                                                   *)
(***************************************************************************)
EXTENDS Naturals

CONSTANTS
    Paths,       \* paths of the store
    Values,      \* JSON values
    Schemas,     \* values that are schema documents
    Refs,        \* values that are {"$ref": path}
    Binding,     \* content path -> the path of its schema
    Target,      \* reference -> the path it names
    Accepts,     \* schema -> the values it accepts
    Seeds,       \* what the definition's put blocks may be: sets of path -> value
    MaxAttempt,  \* bound on the attempts of a run
    Missing      \* no value at a path

VARIABLES
    store,     \* _store: path -> value and the attempt it was put in (0: the host)
    frozen,    \* _frozen: the paths no put may write
    prepared,  \* _prepared_inputs: the store when attempt 1 began
    attempt,   \* _attempt: 0 before the first attempt
    open       \* _provider_writes_open

storeVars == <<store, frozen, prepared, attempt, open>>

Attempts == 0 .. MaxAttempt
Entries == [value : Values, from : Attempts] \cup {Missing}
BindingPaths == {Binding[c] : c \in DOMAIN Binding}
Empty == [p \in Paths |-> Missing]
Present(s) == {p \in Paths : s[p] # Missing}

\* The schema document d is what the binding value b means in store s; a
\* binding the host seeded (bound) may only name a document the host seeded.
Resolves(s, f, bound, b, d) ==
    \/ b \in Schemas /\ d = b
    \/ /\ b \in Refs
       /\ s[Target[b]] # Missing
       /\ bound => Target[b] \in f
       /\ s[Target[b]].value \in Schemas
       /\ d = s[Target[b]].value

\* A put of v at p is acceptable to the store s whose frozen paths are f.
Conforms(s, f, p, v) ==
    /\ p \notin f
    /\ p \in BindingPaths => v \in Schemas \cup Refs
    /\ \/ p \notin DOMAIN Binding
       \/ s[Binding[p]] = Missing
       \/ \E d \in Schemas :
            /\ Resolves(s, f, Binding[p] \in f, s[Binding[p]].value, d)
            /\ v \in Accepts[d]

Seeded(seed) == [p \in Paths |->
    IF seed[p] = Missing THEN Missing ELSE [value |-> seed[p], from |-> 0]]

Init ==
    /\ store = Empty
    /\ frozen = {}
    /\ prepared = Empty
    /\ attempt = 0
    /\ open = FALSE

\* The definition's put blocks, before anything runs.
Seed ==
    /\ attempt = 0 /\ store = Empty /\ frozen = {}
    /\ \E seed \in Seeds : /\ store' = Seeded(seed)
                           /\ frozen' = Present(store')
    /\ UNCHANGED <<prepared, attempt, open>>

\* A put by a processor (by = 0) at any time, or by the open attempt.
Put(by, p, v) ==
    /\ by = 0 \/ (by = attempt /\ open)
    /\ Conforms(store, frozen, p, v)
    /\ store' = [store EXCEPT ![p] = [value |-> v, from |-> by]]
    /\ UNCHANGED <<frozen, prepared, attempt, open>>

\* Every attempt starts from the prepared inputs, which it cannot change.
Begin ==
    /\ attempt < MaxAttempt
    /\ attempt' = attempt + 1
    /\ prepared' = IF attempt = 0 THEN store ELSE prepared
    /\ store' = prepared'
    /\ frozen' = Present(prepared')
    /\ open' = TRUE

Close ==
    /\ open' = FALSE
    /\ UNCHANGED <<store, frozen, prepared, attempt>>

Next ==
    \/ Seed \/ Begin \/ Close
    \/ \E by \in Attempts, p \in Paths, v \in Values : Put(by, p, v)

Spec == Init /\ [][Next]_storeVars
=============================================================================
