--------------------------- MODULE MCPipelineRuns ---------------------------
(* Small instances of PipelineRuns: the inputs and gate configurations the *)
(* configurations choose from.                                             *)
EXTENDS PipelineRuns, TLC

CONSTANTS w1, w2, p1, k1, k2, m1, c1, case1, case2, lab

Request(commit, stage, scope, cred, manifest) ==
  [project |-> p1, commit |-> commit, stage |-> stage, scope |-> scope,
   cred |-> cred, manifest |-> manifest]

\* A student's run with a credential attached.
WithCredential == {Request(k1, 0, "public", c1, NoManifest)}

\* Submissions of two commits, at every stage.
TwoCommits == {Request(k, s, "final", NoCred, m1) : k \in {k1, k2}, s \in Stages}
OneCommit  == {Request(k1, s, "final", NoCred, m1) : s \in Stages}

\* Gates: the first stage wants a manual review on a passing case and an
\* artifact, the last one a showcase artifact; or no stage wants anything.
NoDemand      == [s \in Stages |-> {}]
FirstNeeds    == [s \in Stages |-> IF s = 0 THEN {<<case1, "pass">>} ELSE {}]
FirstArtifact == [s \in Stages |-> IF s = 0 THEN {lab} ELSE {}]
LastShows     == [s \in Stages |-> IF s = LastStage THEN {lab} ELSE {}]

WorkerSymmetry == Permutations(Workers)
=============================================================================
