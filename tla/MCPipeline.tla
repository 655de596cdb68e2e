---------------------------- MODULE MCPipeline ----------------------------
(* A result bound to a schema by reference, by nothing, or by a reference  *)
(* to a document that was never seeded; runs with and without processors.  *)
EXTENDS PipelineRun, TLC

CONSTANTS result, binding, doc,           \* the paths
          good, bad, strict, lax, ref,    \* the values
          r1

MCPaths == {result, binding, doc}
MCValues == {good, bad, strict, lax, ref}
MCSchemas == {strict, lax}
MCRefs == {ref}
MCBinding == result :> binding
MCTarget == ref :> doc
MCAccepts == strict :> {good} @@ lax :> MCValues
MCPuttable == result :> {good, bad} @@ binding :> {lax} @@ doc :> {lax}
MCOversize == {bad}
MCSeeds == {result :> Missing @@ binding :> b @@ doc :> d :
              <<b, d>> \in {<<Missing, Missing>>, <<ref, Missing>>, <<ref, strict>>}}
MCRequests == {r1}
Runs(pre, agent, post, probe, slow, blank, total) ==
    [pre |-> pre, agent |-> agent, post |-> post, onFailure |-> post, probe |-> probe,
     timeouts |-> slow, empties |-> blank, total |-> total]
MCConfigs == {Runs(FALSE, TRUE, TRUE, FALSE, 0, 1, 3), Runs(FALSE, TRUE, FALSE, TRUE, 1, 0, 3),
              Runs(TRUE, TRUE, FALSE, FALSE, 0, 1, 2), Runs(TRUE, FALSE, TRUE, FALSE, 0, 0, 1)}
===========================================================================
