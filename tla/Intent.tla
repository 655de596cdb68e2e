------------------------------- MODULE Intent -------------------------------
(***************************************************************************)
(* What started intent promises, whatever processes do with the files that  *)
(* keep it.  Intent changes by the request of a user, applied to the intent *)
(* of that moment and at most once per request; or it is adopted, once,     *)
(* from the artifacts of an installation that recorded none.                *)
(***************************************************************************)

CONSTANTS
    Requesters,  \* processes that serve a user's request
    Agents,      \* agent identifiers of the repository
    NoRequest    \* a process without a request

VARIABLES
    started,     \* whether intent was recorded, and the agents to run
    request      \* what each process was asked for and has not yet done

vars == <<started, request>>

Requests == [add : SUBSET Agents, remove : SUBSET Agents]
Absent == [initialized |-> FALSE, agents |-> {}]
Recorded(agents) == [initialized |-> TRUE, agents |-> agents]
Applied(agents, r) == Recorded((agents \cup r.add) \ r.remove)

Init ==
    /\ started \in {Recorded(agents) : agents \in SUBSET Agents} \cup {Absent}
    /\ request = [p \in Requesters |-> NoRequest]

Ask(p, r) ==
    /\ request[p] = NoRequest
    /\ request' = [request EXCEPT ![p] = r]
    /\ UNCHANGED started

\* No update of another process is lost, and nothing else changes with it.
Serve(p) ==
    /\ request[p] # NoRequest
    /\ started # Absent
    /\ started' = Applied(started.agents, request[p])
    /\ request' = [request EXCEPT ![p] = NoRequest]

\* A request on a repository that recorded no intent adopts what it finds.
ServeAdopting(p) ==
    /\ request[p] # NoRequest
    /\ started = Absent
    /\ \/ \E found \in SUBSET Agents :
            started' = Applied(found, request[p])
       \/ UNCHANGED started
    /\ request' = [request EXCEPT ![p] = NoRequest]

\* The request is refused, fails or dies with its process.
Drop(p) ==
    /\ request[p] # NoRequest
    /\ request' = [request EXCEPT ![p] = NoRequest]
    /\ UNCHANGED started

Adopt ==
    /\ started = Absent
    /\ \E found \in SUBSET Agents : started' = Recorded(found)
    /\ UNCHANGED request

Next ==
    \/ Adopt
    \/ \E p \in Requesters :
          \/ \E r \in Requests : Ask(p, r)
          \/ Serve(p) \/ ServeAdopting(p) \/ Drop(p)

Spec == Init /\ [][Next]_vars
=============================================================================
