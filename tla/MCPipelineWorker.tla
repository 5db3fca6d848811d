-------------------------- MODULE MCPipelineWorker --------------------------
(* Small instances of PipelineWorker, with the inputs of MCPipelineRuns.   *)
EXTENDS PipelineWorker, TLC

CONSTANTS w1, w2, p1, k1, m1, c1, case1, lab

Request(scope, cred, manifest) ==
  [project |-> p1, commit |-> k1, stage |-> 0, scope |-> scope,
   cred |-> cred, manifest |-> manifest]

Plain          == {Request("public", NoCred, NoManifest)}
WithCredential == {Request("public", c1, NoManifest)}
OneSubmission  == {Request("final", NoCred, m1)}

NoDemand    == [s \in Stages |-> {}]
ShowsLabel  == [s \in Stages |-> {lab}]
=============================================================================
