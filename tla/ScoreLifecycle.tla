--------------------------- MODULE ScoreLifecycle ---------------------------
(***************************************************************************)
(* What the portal promises about a project and its score, whatever runs,  *)
(* workers, teachers and appeals do underneath: a submission is evaluated  *)
(* at most once and drafts at most one baseline, none once the score is    *)
(* frozen; the score goes from draft to frozen to published by new         *)
(* snapshots only; and the project is frozen by a calculation and graded   *)
(* with the publication.  Grading and PipelineRuns, which model the same   *)
(* tables from two sides, both implement this module.                      *)
(***************************************************************************)
EXTENDS Naturals

CONSTANT Projects

VARIABLES project,   \* the status of each project
          open,      \* how many of its submissions are not evaluated yet
          state,     \* the state of its newest snapshot
          version    \* the number of its snapshots

vars == <<project, open, state, version>>

Init == /\ project = [p \in Projects |-> "active"]
        /\ open    = [p \in Projects |-> 0]
        /\ state   = [p \in Projects |-> "none"]
        /\ version = [p \in Projects |-> 0]

Snapshot(p, s) == /\ state'   = [state EXCEPT ![p] = s]
                  /\ version' = [version EXCEPT ![p] = @ + 1]

Evaluated(p) == /\ open[p] > 0
                /\ open' = [open EXCEPT ![p] = @ - 1]

Submit(p) == /\ project[p] = "active"
             /\ open' = [open EXCEPT ![p] = @ + 1]
             /\ UNCHANGED <<project, state, version>>

Baseline(p) == /\ Evaluated(p)
               /\ state[p] \in {"none", "draft"}
               /\ Snapshot(p, "draft")
               /\ UNCHANGED project

NoBaseline(p) == /\ Evaluated(p)
                 /\ UNCHANGED <<project, state, version>>

Calculate(p) == /\ project[p] = "active"
                /\ version[p] = 0
                /\ Snapshot(p, "draft")
                /\ project' = [project EXCEPT ![p] = "frozen"]
                /\ UNCHANGED open

Adjust(p) == /\ state[p] = "draft"
             /\ Snapshot(p, "draft")
             /\ UNCHANGED <<project, open>>

Freeze(p) == /\ state[p] = "draft"
             /\ Snapshot(p, "frozen")
             /\ UNCHANGED <<project, open>>

Publish(p) == /\ state[p] = "frozen" /\ project[p] = "frozen"
              /\ Snapshot(p, "published")
              /\ project' = [project EXCEPT ![p] = "graded"]
              /\ UNCHANGED open

\* An appeal is decided.
Amend(p) == /\ state[p] = "published" /\ project[p] = "graded"
            /\ Snapshot(p, "published")
            /\ UNCHANGED <<project, open>>

Step(p) == \/ Submit(p) \/ Baseline(p) \/ NoBaseline(p) \/ Calculate(p)
           \/ Adjust(p) \/ Freeze(p) \/ Publish(p) \/ Amend(p)

Next == \E p \in Projects : Step(p)

Spec == Init /\ [][Next]_vars
=============================================================================
