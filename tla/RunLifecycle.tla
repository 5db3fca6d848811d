---------------------------- MODULE RunLifecycle ----------------------------
(***************************************************************************)
(* What the portal promises about an evaluation run, whatever workers,     *)
(* leases and retries do underneath: a run is created once, is claimed at  *)
(* most once, gathers results only while it is claimed, and is closed once *)
(* with a verdict that nothing later changes.  PipelineRuns implements     *)
(* this module.                                                            *)
(***************************************************************************)
CONSTANTS Runs, Cases

VARIABLES state,    \* life-cycle state or verdict of each run
          results   \* what is recorded for each case of each run

Verdicts == {"passed", "failed", "cancelled", "timed_out"}
States   == {"absent", "queued", "claimed"} \cup Verdicts
Results  == {"none", "pass", "fail"}

vars == <<state, results>>

\* A run may pass only on at least one recorded case, all of them passing.
Backed(results_of_run) ==
  /\ \E c \in Cases : results_of_run[c] = "pass"
  /\ \A c \in Cases : results_of_run[c] # "fail"

Init == /\ state   = [r \in Runs |-> "absent"]
        /\ results = [r \in Runs |-> [c \in Cases |-> "none"]]

Create(r) == /\ state[r] = "absent"
             /\ state' = [state EXCEPT ![r] = "queued"]
             /\ UNCHANGED results

Claim(r) == /\ state[r] = "queued"
            /\ state' = [state EXCEPT ![r] = "claimed"]
            /\ UNCHANGED results

\* Results are added, never replaced.
Record(r) == /\ state[r] = "claimed"
             /\ \E new \in [Cases -> Results] :
                  /\ \A c \in Cases : results[r][c] # "none" => new[c] = results[r][c]
                  /\ results' = [results EXCEPT ![r] = new]
             /\ UNCHANGED state

\* A run that no worker claimed can only be refused or cancelled.
Refuse(r) == /\ state[r] = "queued"
             /\ \E v \in {"failed", "cancelled"} : state' = [state EXCEPT ![r] = v]
             /\ UNCHANGED results

Close(r) == /\ state[r] = "claimed"
            /\ \E v \in Verdicts :
                 /\ v = "passed" => Backed(results[r])
                 /\ state' = [state EXCEPT ![r] = v]
            /\ UNCHANGED results

Next == \E r \in Runs : Create(r) \/ Claim(r) \/ Record(r) \/ Refuse(r) \/ Close(r)

Spec == Init /\ [][Next]_vars
=============================================================================
