---------------------------- MODULE MCServeRuns ----------------------------
(* Small instances of ServeRuns: a build, or two builds one after another. *)
EXTENDS ServeRuns

CONSTANTS r1, r2, build

OneLock == {<<build>>, <<build, build>>}
=============================================================================
