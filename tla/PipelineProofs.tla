--------------------------- MODULE PipelineProofs ---------------------------
(***************************************************************************)
(* Theorems about PipelineRuns, for every number of runs, workers,         *)
(* projects, stages, credentials, cases and labels; and, at the end, about *)
(* PipelineWorker: its loop only ever sends the control plane requests     *)
(* that PipelineRuns allows for, so whatever holds of PipelineRuns holds   *)
(* of the workers too.                                                     *)
(***************************************************************************)
EXTENDS PipelineWorker, FiniteSetTheorems, TLAPS

(***************************************************************************)
(* The inductive invariant: types, and that a run that exists has a request *)
(* and that only such a run has a submission.                              *)
(***************************************************************************)
RunsHaveRequests ==
  \A r \in Runs : /\ status[r] # "absent" => req[r] \in Requests
                  /\ submission[r] # "none" => status[r] # "absent"

TypeInv == TypeOK /\ RunsHaveRequests

USE DEF Runs, Stages, Active, Terminal, Statuses, EventTypes, Scopes

LEMMA TypeInit == Init => TypeInv
BY RunsAssumption DEF Init, TypeInv, TypeOK, RunsHaveRequests, Owners, ScoreStates, NoScore

\* A run that exists was asked for by a client.
LEMMA RequestOf ==
  ASSUME TypeInv, NEW r \in Runs, status[r] # "absent"
  PROVE  req[r] \in Requests
BY DEF TypeInv, RunsHaveRequests

LEMMA InsertRunType ==
  ASSUME TypeInv, NEW r \in Runs, NEW q \in Requests, InsertRun(r, q)
  PROVE  /\ req' \in [Runs -> Requests \cup {NoRequest}]
         /\ status' \in [Runs -> Statuses]
         /\ events' \in [Runs -> Seq(EventTypes)]
         /\ queuedOutbox' \subseteq Runs
         /\ \A x \in Runs : status'[x] # "absent" => req'[x] \in Requests
         /\ \A x \in Runs : status[x] # "absent" => status'[x] # "absent"
         /\ status'[r] # "absent"
BY DEF TypeInv, TypeOK, RunsHaveRequests, InsertRun, Fresh

\* Advancing a project leaves stages among the experiment's stages.
LEMMA AdvanceType ==
  ASSUME TypeInv, NEW p \in Projects, AdvanceStage(p)
  PROVE  currentStage' \in [Projects -> Stages] /\ openGates' \subseteq Stages
<1>1. currentStage \in [Projects -> 0 .. LastStage] /\ openGates \subseteq 0 .. LastStage
  BY DEF TypeInv, TypeOK
<1>2. CASE currentStage[p] < LastStage
  <2>1. currentStage[p] + 1 \in 0 .. LastStage
    BY <1>1, <1>2, RunsAssumption
  <2> QED BY <1>1, <1>2, <2>1 DEF AdvanceStage
<1>3. CASE ~(currentStage[p] < LastStage)
  BY <1>1, <1>3 DEF AdvanceStage
<1> QED BY <1>2, <1>3

\* Events and settled submissions keep their types.
LEMMA LogType ==
  ASSUME TypeInv, NEW r \in Runs, NEW e \in EventTypes,
         events' = [events EXCEPT ![r] = Append(@, e)]
  PROVE  events' \in [Runs -> Seq(EventTypes)]
<1>1. events \in [Runs -> Seq(EventTypes)]
  BY DEF TypeInv, TypeOK
<1>2. Append(events[r], e) \in Seq(EventTypes)
  BY <1>1
<1> QED BY <1>1, <1>2

SubmissionStates == {"none", "queued", "evaluating", "candidate", "complete", "failed"}

LEMMA FailPendingType ==
  ASSUME TypeInv, NEW r \in Runs, FailPendingSubmission(r)
  PROVE  /\ submission' \in [Runs -> SubmissionStates]
         /\ \A x \in Runs : submission'[x] # "none" => submission[x] # "none"
<1>1. submission \in [Runs -> SubmissionStates]
  BY DEF TypeInv, TypeOK, SubmissionStates
<1> QED BY <1>1 DEF FailPendingSubmission, SubmissionStates

LEMMA GradedRunsAreRuns ==
  ASSUME NEW p, NEW st
  PROVE  GradedRuns(p, st) \subseteq Runs
BY DEF GradedRuns, NewestOfStage, Scoreable, Created

LEMMA SettleType ==
  ASSUME TypeInv, NEW r \in Runs, NEW verdict \in Terminal, req[r] \in Requests,
         SettleSubmission(r, verdict)
  PROVE  /\ submission' \in [Runs -> SubmissionStates]
         /\ \A x \in Runs : submission'[x] # "none" => submission[x] # "none"
         /\ currentStage' \in [Projects -> Stages] /\ openGates' \subseteq Stages
         /\ score' \in [Projects -> [version : Nat, state : ScoreStates, refs : SUBSET Runs]]
<1>0. req[r].project \in Projects
  BY DEF Requests
<1>1. CASE submission[r] = "none"
  BY <1>1 DEF SettleSubmission, gateVars, TypeInv, TypeOK, SubmissionStates
<1>2. CASE submission[r] # "none"
  <2> DEFINE settled == IF verdict # "passed" THEN "failed"
                        ELSE IF GateStage(r) \in ManualReview THEN "candidate" ELSE "complete"
  <2>1. /\ submission' = [submission EXCEPT ![r] = settled]
        /\ IF verdict = "passed" THEN DraftBaseline(req[r].project, status') ELSE UNCHANGED score
        /\ IF settled = "complete" THEN AdvanceStage(req[r].project)
           ELSE UNCHANGED <<currentStage, openGates>>
    BY <1>2 DEF SettleSubmission
  <2>2. currentStage' \in [Projects -> Stages] /\ openGates' \subseteq Stages
    BY <1>0, <2>1, AdvanceType DEF TypeInv, TypeOK
  <2>3. score' \in [Projects -> [version : Nat, state : ScoreStates, refs : SUBSET Runs]]
    <3>1. CASE verdict = "passed"
      <4> DEFINE p == req[r].project
      <4>1. GradedRuns(p, status') \in SUBSET Runs
        BY GradedRunsAreRuns
      <4>2. score' = [score EXCEPT ![p] = [version |-> score[p].version + 1, state |-> "draft",
                                           refs |-> GradedRuns(p, status')]]
        BY <2>1, <3>1 DEF DraftBaseline
      <4>3. score[p].version \in Nat
        BY <1>0 DEF TypeInv, TypeOK
      <4> QED BY <1>0, <4>1, <4>2, <4>3 DEF TypeInv, TypeOK, ScoreStates
    <3>2. CASE verdict # "passed"
      BY <2>1, <3>2 DEF TypeInv, TypeOK
    <3> QED BY <3>1, <3>2
  <2> QED BY <2>1, <2>2, <2>3, <1>2 DEF TypeInv, TypeOK, SubmissionStates
<1> QED BY <1>1, <1>2

\* A rerun asks for what the run it repeats asked for, without its manifest.
LEMMA RerunRequest ==
  ASSUME NEW q \in Requests
  PROVE  [q EXCEPT !.manifest = NoManifest] \in Requests
BY DEF Requests

LEMMA TypeStep == TypeInv /\ OwnedWhileActive /\ [Next]_vars => TypeInv'
<1> SUFFICES ASSUME TypeInv, OwnedWhileActive, [Next]_vars PROVE TypeInv'
  OBVIOUS
<1>s. ASSUME NEW r \in Runs, NEW verdict \in Terminal, req[r] \in Requests,
             SettleSubmission(r, verdict)
      PROVE  /\ submission' \in [Runs -> SubmissionStates]
             /\ \A x \in Runs : submission'[x] # "none" => submission[x] # "none"
             /\ currentStage' \in [Projects -> Stages] /\ openGates' \subseteq Stages
             /\ score' \in [Projects -> [version : Nat, state : ScoreStates, refs : SUBSET Runs]]
  BY <1>s, SettleType
<1> USE DEF TypeInv, TypeOK, RunsHaveRequests
<1>1. ASSUME NEW r \in Runs, Trigger(r) PROVE TypeInv'
  <2>1. PICK q \in TriggerInputs : InsertRun(r, q)
    BY <1>1 DEF Trigger
  <2>2. q \in Requests
    BY InputsAssumption
  <2> QED BY <1>1, <2>1, <2>2, InsertRunType DEF Trigger, InsertRun, resultVars, credVars, gateVars
<1>2. ASSUME NEW r \in Runs, Submit(r) PROVE TypeInv'
  <2>1. PICK q \in SubmitInputs : InsertRun(r, q)
    BY <1>2 DEF Submit
  <2>2. q \in Requests
    BY InputsAssumption
  <2>3. /\ req' \in [Runs -> Requests \cup {NoRequest}] /\ status' \in [Runs -> Statuses]
        /\ events' \in [Runs -> Seq(EventTypes)] /\ queuedOutbox' \subseteq Runs
        /\ \A x \in Runs : status'[x] # "absent" => req'[x] \in Requests
        /\ \A x \in Runs : status[x] # "absent" => status'[x] # "absent"
        /\ status'[r] # "absent"
    BY <2>1, <2>2, InsertRunType
  <2>4. submission' = [submission EXCEPT ![r] = "queued"]
    BY <1>2 DEF Submit
  <2>5. RunsHaveRequests'
    BY <2>3, <2>4
  <2>6. UNCHANGED <<failure_class, lease_owner, lease_expired>>
    BY <2>1 DEF InsertRun
  <2> QED BY <1>2, <2>3, <2>4, <2>5, <2>6 DEF Submit, resultVars, credVars
<1>3. ASSUME NEW r \in Runs, Cancel(r) PROVE TypeInv'
  <2>1. events' \in [Runs -> Seq(EventTypes)]
    BY <1>3, LogType DEF Cancel
  <2>2. status' = [status EXCEPT ![r] = "cancelled"] /\ FailPendingSubmission(r)
    BY <1>3 DEF Cancel
  <2>3. /\ submission' \in [Runs -> SubmissionStates]
        /\ \A x \in Runs : submission'[x] # "none" => submission[x] # "none"
    BY <2>2, FailPendingType
  <2> QED BY <1>3, <2>1, <2>2, <2>3 DEF Cancel, SubmissionStates, resultVars, credVars
<1>4. ASSUME NEW r \in Runs, ReviewRun(r) PROVE TypeInv'
  <2>1. PICK verdict \in {"assigned", "escalated", "approved"} :
          review' = [review EXCEPT ![r] = verdict]
    BY <1>4 DEF ReviewRun
  <2>2. UNCHANGED <<req, status, failure_class, lease_owner, lease_expired, events, queuedOutbox>>
    BY <1>4 DEF ReviewRun, runVars
  <2>3. UNCHANGED <<evidence, objects, credRevoked, credHolder, credLive, submission,
                    currentStage, openGates, score, projectStatus>>
    BY <1>4 DEF ReviewRun, resultVars, credVars, gateVars
  <2>4. review' \in [Runs -> {"none", "assigned", "approved", "escalated", "rerun_approved"}]
    BY <2>1
  <2> QED BY <2>2, <2>3, <2>4
<1>5. ASSUME NEW r \in Runs, NEW new \in Runs, ReviewRerun(r, new) PROVE TypeInv'
  <2>0. status[r] # "absent"
    BY <1>5 DEF ReviewRerun
  <2>1. [req[r] EXCEPT !.manifest = NoManifest] \in Requests
    <3>1. req[r] \in Requests
      BY <2>0
    <3> QED BY <3>1, RerunRequest
  <2>2. InsertRun(new, [req[r] EXCEPT !.manifest = NoManifest])
    BY <1>5 DEF ReviewRerun
  <2>3. /\ req' \in [Runs -> Requests \cup {NoRequest}] /\ status' \in [Runs -> Statuses]
        /\ events' \in [Runs -> Seq(EventTypes)] /\ queuedOutbox' \subseteq Runs
        /\ \A x \in Runs : status'[x] # "absent" => req'[x] \in Requests
        /\ \A x \in Runs : status[x] # "absent" => status'[x] # "absent"
    BY <2>1, <2>2, InsertRunType
  <2>4. UNCHANGED <<failure_class, lease_owner, lease_expired>>
    BY <2>2 DEF InsertRun
  <2>5. UNCHANGED <<resultVars, credVars, gateVars, projectStatus>>
    BY <1>5 DEF ReviewRerun
  <2>6. RunsHaveRequests'
    BY <2>3, <2>5 DEF gateVars
  <2> QED BY <1>5, <2>3, <2>4, <2>5, <2>6 DEF ReviewRerun, resultVars, credVars, gateVars
<1>6. ASSUME NEW r \in Runs, ApproveSubmission(r) PROVE TypeInv'
  <2>1. req[r].project \in Projects
    BY <1>6, RequestOf DEF ApproveSubmission, Requests
  <2> QED BY <1>6, <2>1, AdvanceType DEF ApproveSubmission, runVars, resultVars, credVars
<1>7. ASSUME NEW r \in Runs, RejectSubmission(r) PROVE TypeInv'
  BY <1>7 DEF RejectSubmission, runVars, resultVars, credVars
<1>8. ASSUME NEW r \in Runs, LeaseRejected(r) PROVE TypeInv'
  <2>1. events' \in [Runs -> Seq(EventTypes)]
    BY <1>8, LogType DEF LeaseRejected
  <2> QED BY <1>8, <2>1, FailPendingType DEF LeaseRejected, SubmissionStates, resultVars, credVars
<1>9. ASSUME NEW r \in Runs, LeaseExpires(r) PROVE TypeInv'
  BY <1>9 DEF LeaseExpires, resultVars, credVars, gateVars
<1>10. ASSUME NEW c \in Creds, RevokeCredential(c) PROVE TypeInv'
  BY <1>10 DEF RevokeCredential, runVars, resultVars, gateVars
<1>11. ASSUME NEW w \in Workers, NEW r \in Runs, Lease(w, r) PROVE TypeInv'
  BY <1>11 DEF Lease, Owners, resultVars, credVars, gateVars
<1>12. ASSUME NEW w \in Workers, NEW r \in Runs, Heartbeat(w, r) PROVE TypeInv'
  BY <1>12 DEF Heartbeat, resultVars, credVars, gateVars
<1>13. ASSUME NEW w \in Workers, NEW r \in Runs, Start(w, r) PROVE TypeInv'
  <2>1. events' \in [Runs -> Seq(EventTypes)]
    BY <1>13, LogType DEF Start
  <2> QED BY <1>13, <2>1 DEF Start, resultVars, credVars
<1>14. ASSUME NEW w \in Workers, NEW r \in Runs, LeaseCredential(w, r) PROVE TypeInv'
  BY <1>14 DEF LeaseCredential, runVars, resultVars, gateVars
<1>15. ASSUME NEW w \in Workers, NEW r \in Runs, ReportSome(w, r) PROVE TypeInv'
  <2>1. PICK reported \in [Cases -> {"none", "pass", "fail"}], labels \in SUBSET Labels :
          ReportEvidence(w, r, reported, labels)
    BY <1>15 DEF ReportSome
  <2>2. evidence' \in [Runs -> [Cases -> {"none", "pass", "fail"}]]
    <3>1. [c \in Cases |-> IF evidence[r][c] = "none" THEN reported[c] ELSE evidence[r][c]]
            \in [Cases -> {"none", "pass", "fail"}]
      <4>1. evidence[r] \in [Cases -> {"none", "pass", "fail"}]
        OBVIOUS
      <4> HIDE DEF TypeInv
      <4> QED BY <4>1
    <3> QED BY <2>1, <3>1 DEF ReportEvidence
  <2>3. objects' \in [Runs -> SUBSET Labels]
    BY <2>1 DEF ReportEvidence
  <2> QED BY <2>1, <2>2, <2>3 DEF ReportEvidence, runVars, credVars, gateVars
<1>16. ASSUME NEW w \in Workers, NEW r \in Runs, CompleteSome(w, r) PROVE TypeInv'
  <2>1. PICK report \in Reports, records \in 0 .. Cardinality(Cases),
             objectCount \in 0 .. Cardinality(Labels) :
          \/ Complete(w, r, report[1], report[2], records, objectCount)
          \/ CompleteCancelled(w, r, report[1], records, objectCount)
    BY <1>16 DEF CompleteSome
  <2>2. report[1] \in Terminal /\ report[2] \in {"none", "verification_failure", "infra_failure"}
    BY DEF Reports
  <2>3. CASE Complete(w, r, report[1], report[2], records, objectCount)
    <3> DEFINE missing == MissingShowcase(r)
               final   == IF report[1] = "passed" /\ missing # {} THEN "failed" ELSE report[1]
               blamed  == IF missing # {} THEN "verification_failure"
                          ELSE IF report[2] = "none" /\ final = "failed"
                               THEN "verification_failure" ELSE report[2]
    <3>1. final \in Terminal /\ blamed \in {"none", "verification_failure", "infra_failure"}
      BY <2>2
    <3>2. /\ status' = [status EXCEPT ![r] = final]
          /\ failure_class' = [failure_class EXCEPT ![r] = blamed]
          /\ events' = [events EXCEPT ![r] = Append(@, final)]
          /\ ReleaseRun(r) /\ RevokeLeaseOf(w, r) /\ SettleSubmission(r, final)
          /\ UNCHANGED <<req, queuedOutbox, resultVars, review, credRevoked, credHolder,
                         projectStatus>>
          /\ lease_owner[r] = w
      BY <2>3 DEF Complete, MayComplete
    <3>3. events' \in [Runs -> Seq(EventTypes)]
      BY <3>1, <3>2, LogType
    <3>4. status[r] # "absent" /\ req[r] \in Requests
      BY <3>2, RequestOf, OwnersAssumption DEF OwnedWhileActive
    <3>5. /\ submission' \in [Runs -> SubmissionStates]
          /\ \A x \in Runs : submission'[x] # "none" => submission[x] # "none"
          /\ currentStage' \in [Projects -> Stages] /\ openGates' \subseteq Stages
          /\ score' \in [Projects -> [version : Nat, state : ScoreStates, refs : SUBSET Runs]]
      BY <3>1, <3>2, <3>4, <1>s
    <3>6. /\ lease_owner' \in [Runs -> Owners] /\ lease_expired' \in [Runs -> BOOLEAN]
          /\ credLive' \subseteq Runs
      BY <3>2 DEF ReleaseRun, RevokeLeaseOf, Owners
    <3>7. /\ status' \in [Runs -> Statuses]
          /\ failure_class' \in [Runs -> {"none", "verification_failure", "infra_failure"}]
          /\ \A x \in Runs : status'[x] # "absent" => status[x] # "absent"
          /\ \A x \in Runs : status[x] # "absent" => status'[x] # "absent"
      BY <3>1, <3>2, <3>4
    <3> HIDE DEF final, blamed
    <3>8. RunsHaveRequests'
      BY <3>2, <3>5, <3>7 DEF resultVars
    <3> QED BY <3>2, <3>3, <3>5, <3>6, <3>7, <3>8 DEF SubmissionStates, resultVars
  <2>4. CASE CompleteCancelled(w, r, report[1], records, objectCount)
    BY <2>4 DEF CompleteCancelled, ReleaseRun, RevokeLeaseOf, Owners, resultVars, gateVars
  <2> QED BY <2>1, <2>3, <2>4
<1>17. ASSUME NEW w \in Workers, NEW r \in Runs, RecoverClaim(w, r) PROVE TypeInv'
  BY <1>17 DEF RecoverClaim, Owners, Recoverers, resultVars, credVars, gateVars
<1>18. ASSUME NEW w \in Workers, NEW r \in Runs, RecoverCleanupFailed(w, r) PROVE TypeInv'
  BY <1>18 DEF RecoverCleanupFailed, resultVars, credVars, gateVars
<1>19. ASSUME NEW w \in Workers, NEW r \in Runs, RecoverCommit(w, r) PROVE TypeInv'
  BY <1>19 DEF RecoverCommit, ReleaseRun, Owners, resultVars, gateVars
<1>20. ASSUME NEW p \in Projects, TeacherStep(p) PROVE TypeInv'
  <2>1. score' \in [Projects -> [version : Nat, state : ScoreStates, refs : SUBSET Runs]]
    <3>1. CASE CalculateScore(p)
      <4>1. CalculatedRuns(p) \in SUBSET Runs
        BY DEF CalculatedRuns, NewestOfStage, Scoreable, Created
      <4> QED BY <3>1, <4>1 DEF CalculateScore, ScoreStates
    <3>2. CASE FreezeScore(p) \/ PublishScore(p)
      BY <3>2 DEF FreezeScore, PublishScore, ScoreStates
    <3> QED BY <1>20, <3>1, <3>2 DEF TeacherStep
  <2>2. projectStatus' \in [Projects -> {"provisioning", "active", "frozen", "graded", "archived"}]
    <3>1. \/ UNCHANGED projectStatus
          \/ \E now \in {"frozen", "graded"} : projectStatus' = [projectStatus EXCEPT ![p] = now]
      BY <1>20 DEF TeacherStep, CalculateScore, FreezeScore, PublishScore
    <3> QED BY <3>1
  <2>3. UNCHANGED <<runVars, resultVars, review, credVars, submission, currentStage, openGates>>
    BY <1>20 DEF TeacherStep, CalculateScore, FreezeScore, PublishScore
  <2> QED BY <2>1, <2>2, <2>3 DEF runVars, resultVars, credVars
<1>21. CASE UNCHANGED vars
  BY <1>21 DEF vars, runVars, resultVars, credVars, gateVars
<1> QED
  BY <1>1, <1>2, <1>3, <1>4, <1>5, <1>6, <1>7, <1>8, <1>9, <1>10, <1>11, <1>12, <1>13, <1>14,
     <1>15, <1>16, <1>17, <1>18, <1>19, <1>20, <1>21
  DEF Next, ClientStep, WorkerStep
-----------------------------------------------------------------------------
(***************************************************************************)
(* Ownership and credentials.  Everything below follows from how a step    *)
(* moves the status and the owner of one run, which RunMove collects.      *)
(***************************************************************************)
Stays(r) == status'[r] = status[r] /\ lease_owner'[r] = lease_owner[r]

\* What a step may do to the status and the owner of run r.
RunMove(r) ==
  \/ Stays(r)
  \/ status[r] = "absent" /\ status'[r] = "queued" /\ lease_owner'[r] = lease_owner[r]
  \/ status[r] = "queued" /\ status'[r] = "leased" /\ lease_owner'[r] \in Workers
  \/ status[r] = "queued" /\ status'[r] = "failed" /\ lease_owner'[r] = lease_owner[r]
  \/ /\ status[r] \in {"queued"} \cup Active /\ status'[r] = "cancelled"
     /\ lease_owner'[r] = lease_owner[r]
  \/ status[r] = "leased" /\ status'[r] = "running" /\ lease_owner'[r] = lease_owner[r]
  \/ /\ lease_owner[r] \in Workers \cup Recoverers /\ lease_owner'[r] = NoOwner
     /\ \/ status[r] # "cancelled" /\ status'[r] \in Terminal
        \/ status[r] = "cancelled" /\ status'[r] = "cancelled"
  \/ /\ status[r] \in Active /\ status'[r] = status[r] /\ lease_expired[r]
     /\ lease_owner'[r] \in Recoverers

LEMMA RunMoves ==
  ASSUME TypeInv, [Next]_vars
  PROVE  \A r \in Runs : RunMove(r)
<1> SUFFICES ASSUME NEW x \in Runs PROVE RunMove(x)
  OBVIOUS
<1>0. /\ status \in [Runs -> Statuses]
      /\ lease_owner \in [Runs -> Owners]
  BY DEF TypeInv, TypeOK
<1> USE <1>0 DEF RunMove, Stays
<1>1. ASSUME NEW r \in Runs, Trigger(r) \/ Submit(r) PROVE RunMove(x)
  BY <1>1 DEF Trigger, Submit, InsertRun, Fresh
<1>2. ASSUME NEW r \in Runs, NEW new \in Runs, ReviewRerun(r, new) PROVE RunMove(x)
  BY <1>2 DEF ReviewRerun, InsertRun, Fresh
<1>3. ASSUME NEW r \in Runs, Cancel(r) PROVE RunMove(x)
  BY <1>3 DEF Cancel
<1>4. ASSUME NEW r \in Runs, ReviewRun(r) \/ ApproveSubmission(r) \/ RejectSubmission(r)
      PROVE  RunMove(x)
  BY <1>4 DEF ReviewRun, ApproveSubmission, RejectSubmission, runVars
<1>5. ASSUME NEW r \in Runs, LeaseRejected(r) \/ LeaseExpires(r) PROVE RunMove(x)
  BY <1>5 DEF LeaseRejected, LeaseExpires
<1>6. ASSUME NEW c \in Creds, RevokeCredential(c) PROVE RunMove(x)
  BY <1>6 DEF RevokeCredential, runVars
<1>t. ASSUME NEW p \in Projects, TeacherStep(p) PROVE RunMove(x)
  BY <1>t DEF TeacherStep, CalculateScore, FreezeScore, PublishScore, runVars
<1>7. ASSUME NEW w \in Workers, NEW r \in Runs,
             Lease(w, r) \/ Heartbeat(w, r) \/ Start(w, r) \/ LeaseCredential(w, r)
      PROVE  RunMove(x)
  BY <1>7 DEF Lease, Heartbeat, Start, LeaseCredential, runVars
<1>8. ASSUME NEW w \in Workers, NEW r \in Runs, ReportSome(w, r) PROVE RunMove(x)
  BY <1>8 DEF ReportSome, ReportEvidence, runVars
<1>9. ASSUME NEW w \in Workers, NEW r \in Runs, CompleteSome(w, r) PROVE RunMove(x)
  <2>1. PICK report \in Reports, records \in 0 .. Cardinality(Cases),
             objectCount \in 0 .. Cardinality(Labels) :
          \/ Complete(w, r, report[1], report[2], records, objectCount)
          \/ CompleteCancelled(w, r, report[1], records, objectCount)
    BY <1>9 DEF CompleteSome
  <2>2. report[1] \in Terminal
    BY DEF Reports
  <2>3. CASE Complete(w, r, report[1], report[2], records, objectCount)
    <3>1. PICK final \in Terminal : status' = [status EXCEPT ![r] = final]
      BY <2>2, <2>3 DEF Complete
    <3>2. /\ lease_owner[r] = w /\ status[r] # "cancelled"
          /\ lease_owner' = [lease_owner EXCEPT ![r] = NoOwner]
      BY <2>3 DEF Complete, MayComplete, ReleaseRun
    <3> QED BY <3>1, <3>2
  <2>4. CASE CompleteCancelled(w, r, report[1], records, objectCount)
    BY <2>4 DEF CompleteCancelled, MayComplete, ReleaseRun
  <2> QED BY <2>1, <2>3, <2>4
<1>10. ASSUME NEW w \in Workers, NEW r \in Runs,
              RecoverClaim(w, r) \/ RecoverCleanupFailed(w, r) \/ RecoverCommit(w, r)
       PROVE  RunMove(x)
  BY <1>10 DEF RecoverClaim, RecoverCleanupFailed, RecoverCommit, ReleaseRun, Recoverers
<1>11. CASE UNCHANGED vars
  BY <1>11 DEF vars, runVars
<1> QED
  BY <1>1, <1>2, <1>3, <1>4, <1>5, <1>6, <1>t, <1>7, <1>8, <1>9, <1>10, <1>11
  DEF Next, ClientStep, WorkerStep

LEMMA OwnershipStep == TypeInv /\ OwnedWhileActive /\ [Next]_vars => OwnedWhileActive'
BY RunMoves, OwnersAssumption DEF OwnedWhileActive, RunMove, Stays, Recoverers

\* A run is owned exactly while a worker or a recovery still has to end it.
THEOREM OwnershipInvariant == Spec => [](TypeInv /\ OwnedWhileActive)
<1>1. Init => TypeInv /\ OwnedWhileActive
  BY TypeInit DEF Init, OwnedWhileActive
<1>2. TypeInv /\ OwnedWhileActive /\ [Next]_vars => (TypeInv /\ OwnedWhileActive)'
  BY TypeStep, OwnershipStep
<1> QED BY <1>1, <1>2, PTL DEF Spec

\* Every reachable state has the types of the tables.
THEOREM TypeCorrect == Spec => []TypeOK
<1>1. TypeInv => TypeOK
  BY DEF TypeInv
<1> QED BY <1>1, OwnershipInvariant, PTL

\* An active run has an owner; a run that has ended has none, unless it was
\* cancelled and its worker has not released it yet.
THEOREM RunsOwnedWhileActive == Spec => []OwnedWhileActive
BY OwnershipInvariant, PTL

\* Over its whole life a run has one worker.
THEOREM OneWorker == Spec => OneWorkerPerRun
<1>1. TypeInv /\ OwnedWhileActive /\ [Next]_vars =>
        [\A r \in Runs : lease_owner'[r] # lease_owner[r] =>
           \/ lease_owner'[r] \in Workers /\ status[r] = "queued" /\ lease_owner[r] = NoOwner
           \/ lease_owner'[r] \in Recoverers /\ lease_expired[r] /\ lease_owner[r] # NoOwner
           \/ lease_owner'[r] = NoOwner /\ status'[r] \in Terminal]_vars
  BY RunMoves DEF OwnedWhileActive, RunMove, Stays
<1> QED BY <1>1, OwnershipInvariant, PTL DEF Spec, OneWorkerPerRun
-----------------------------------------------------------------------------
LEMMA CredentialStep ==
  TypeInv /\ OwnedWhileActive /\ CredentialConfined /\ [Next]_vars => CredentialConfined'
<1> SUFFICES ASSUME TypeInv, OwnedWhileActive, CredentialConfined, [Next]_vars
             PROVE  CredentialConfined'
  OBVIOUS
<1>t. credLive' \subseteq Runs
  <2>1. TypeInv'
    BY TypeStep
  <2> QED BY <2>1 DEF TypeInv, TypeOK
<1> SUFFICES ASSUME NEW x \in Runs, x \in credLive'
             PROVE  /\ lease_owner'[x] \in {credHolder'[x]} \cup Recoverers
                    /\ credHolder'[x] \in Workers
                    /\ req'[x].cred \in Creds \ credRevoked'
  BY <1>t DEF CredentialConfined
<1> DEFINE Confined == /\ lease_owner'[x] \in {credHolder'[x]} \cup Recoverers
                       /\ credHolder'[x] \in Workers
                       /\ req'[x].cred \in Creds \ credRevoked'
<1>0. /\ status \in [Runs -> Statuses] /\ lease_owner \in [Runs -> Owners]
      /\ req \in [Runs -> Requests \cup {NoRequest}]
      /\ credHolder \in [Runs -> Workers \cup {NoOwner}]
  BY DEF TypeInv, TypeOK
<1>a. x \in credLive => /\ lease_owner[x] \in Workers \cup Recoverers
                        /\ status[x] \in Active \cup {"cancelled"}
  BY <1>0, OwnersAssumption DEF CredentialConfined, OwnedWhileActive, Recoverers
\* A step that leaves the request, the owner and the lease row of x alone.
<1>b. ASSUME x \in credLive, req'[x] = req[x], lease_owner'[x] \in {lease_owner[x]} \cup Recoverers,
             credHolder'[x] = credHolder[x], credRevoked' = credRevoked
      PROVE  Confined
  BY <1>b DEF CredentialConfined
<1>1. ASSUME NEW r \in Runs, NEW q, InsertRun(r, q), UNCHANGED credVars PROVE Confined
  <2>1. x # r
    BY <1>a, <1>1 DEF InsertRun, Fresh, credVars
  <2> QED BY <1>0, <1>a, <1>b, <1>1, <2>1 DEF InsertRun, credVars
<1>2. ASSUME NEW r \in Runs, Trigger(r) \/ Submit(r) PROVE Confined
  BY <1>1, <1>2 DEF Trigger, Submit
<1>3. ASSUME NEW r \in Runs, NEW new \in Runs, ReviewRerun(r, new) PROVE Confined
  BY <1>1, <1>3 DEF ReviewRerun
<1>4. ASSUME NEW r \in Runs,
             \/ Cancel(r) \/ ReviewRun(r) \/ ApproveSubmission(r) \/ RejectSubmission(r)
             \/ LeaseRejected(r) \/ LeaseExpires(r)
      PROVE  Confined
  BY <1>b, <1>4 DEF Cancel, ReviewRun, ApproveSubmission, RejectSubmission, LeaseRejected,
                    LeaseExpires, runVars, credVars
<1>5. ASSUME NEW c \in Creds, RevokeCredential(c) PROVE Confined
  BY <1>5 DEF RevokeCredential, CredentialConfined, runVars
<1>p. ASSUME NEW p \in Projects, TeacherStep(p) PROVE Confined
  BY <1>b, <1>p DEF TeacherStep, CalculateScore, FreezeScore, PublishScore, runVars, credVars
<1>6. ASSUME NEW w \in Workers, NEW r \in Runs, Lease(w, r) PROVE Confined
  <2>1. x # r
    BY <1>a, <1>6 DEF Lease, credVars
  <2> QED BY <1>0, <1>b, <1>6, <2>1 DEF Lease, credVars
<1>7. ASSUME NEW w \in Workers, NEW r \in Runs, Heartbeat(w, r) \/ Start(w, r) \/ ReportSome(w, r)
      PROVE  Confined
  BY <1>b, <1>7 DEF Heartbeat, Start, ReportSome, ReportEvidence, runVars, credVars
<1>8. ASSUME NEW w \in Workers, NEW r \in Runs, LeaseCredential(w, r) PROVE Confined
  <2>1. CASE x = r
    <3>1. req[r] \in Requests
      BY <1>8, <1>0, RequestOf DEF LeaseCredential
    <3>2. req[r].cred \in Creds
      BY <1>8, <3>1 DEF LeaseCredential, Requests
    <3> QED BY <1>0, <1>8, <2>1, <3>2 DEF LeaseCredential, runVars
  <2>2. CASE x # r
    BY <1>0, <1>b, <1>8, <2>2 DEF LeaseCredential, runVars
  <2> QED BY <2>1, <2>2
<1>9. ASSUME NEW w \in Workers, NEW r \in Runs, CompleteSome(w, r) PROVE Confined
  <2>1. /\ lease_owner[r] = w /\ ReleaseRun(r) /\ RevokeLeaseOf(w, r)
        /\ UNCHANGED <<req, credRevoked, credHolder>>
    BY <1>9 DEF CompleteSome, Complete, CompleteCancelled, MayComplete
  <2>2. x \in credLive
    BY <2>1 DEF RevokeLeaseOf
  <2>3. x # r
    <3>1. SUFFICES ASSUME x = r PROVE FALSE
      OBVIOUS
    <3>2. credHolder[r] = w
      BY <2>1, <2>2, <3>1, OwnersAssumption DEF CredentialConfined, Recoverers
    <3> QED BY <2>1, <3>1, <3>2 DEF RevokeLeaseOf
  <2> QED BY <1>0, <1>b, <2>1, <2>2, <2>3 DEF ReleaseRun
<1>10. ASSUME NEW w \in Workers, NEW r \in Runs, RecoverClaim(w, r) PROVE Confined
  BY <1>0, <1>b, <1>10 DEF RecoverClaim, Recoverers, credVars
<1>11. ASSUME NEW w \in Workers, NEW r \in Runs, RecoverCleanupFailed(w, r) PROVE Confined
  BY <1>b, <1>11 DEF RecoverCleanupFailed, credVars
<1>12. ASSUME NEW w \in Workers, NEW r \in Runs, RecoverCommit(w, r) PROVE Confined
  BY <1>0, <1>b, <1>12 DEF RecoverCommit, ReleaseRun
<1>13. CASE UNCHANGED vars
  BY <1>b, <1>13 DEF vars, runVars, credVars
<1> QED
  BY <1>2, <1>3, <1>4, <1>5, <1>p, <1>6, <1>7, <1>8, <1>9, <1>10, <1>11, <1>12, <1>13
  DEF Next, ClientStep, WorkerStep

\* No live lease of a model credential outlives the run's lease or the
\* credential: the owner, and only the owner, ends both.
THEOREM CredentialsConfined == Spec => []CredentialConfined
<1>1. Init => CredentialConfined
  BY DEF Init, CredentialConfined
<1> QED BY <1>1, OwnershipInvariant, CredentialStep, PTL DEF Spec
-----------------------------------------------------------------------------
(***************************************************************************)
(* What a step may write to a run that has ended, or that a recovery owns. *)
(***************************************************************************)
Untouched(r) ==
  /\ status'[r] = status[r] /\ failure_class'[r] = failure_class[r]
  /\ evidence'[r] = evidence[r] /\ objects'[r] = objects[r]
  /\ events'[r] = events[r]

FencedStep(r) ==
  /\ evidence'[r] = evidence[r] /\ objects'[r] = objects[r]
  /\ \/ status'[r] = status[r]
     \/ status'[r] = "failed" /\ failure_class'[r] = "infra_failure"
     \/ status'[r] = "cancelled"
  /\ r \in credLive' => r \in credLive

Guarded(r) == /\ status[r] \in Terminal => Untouched(r)
              /\ lease_owner[r] \in Recoverers => FencedStep(r)

LEMMA GuardedSteps ==
  ASSUME TypeInv, OwnedWhileActive, [Next]_vars
  PROVE  \A r \in Runs : Guarded(r)
<1> SUFFICES ASSUME NEW x \in Runs PROVE Guarded(x)
  OBVIOUS
<1>0. /\ status \in [Runs -> Statuses] /\ lease_owner \in [Runs -> Owners]
      /\ failure_class \in [Runs -> {"none", "verification_failure", "infra_failure"}]
      /\ evidence \in [Runs -> [Cases -> {"none", "pass", "fail"}]]
      /\ objects \in [Runs -> SUBSET Labels]
      /\ events \in [Runs -> Seq(EventTypes)]
  BY DEF TypeInv, TypeOK
\* A worker is no recoverer, and a run it owns is active or cancelled.
<1>a. ASSUME NEW w \in Workers, NEW r \in Runs, lease_owner[r] = w
      PROVE  lease_owner[r] \notin Recoverers /\ status[r] \in Active \cup {"cancelled"}
  BY <1>0, <1>a, OwnersAssumption DEF OwnedWhileActive, Recoverers
\* A run nobody created or leased yet is owned by nobody.
<1>b. ASSUME NEW r \in Runs, status[r] \in {"absent", "queued"}
      PROVE  lease_owner[r] \notin Recoverers
  BY <1>b, OwnersAssumption DEF OwnedWhileActive, Recoverers
<1> USE DEF Guarded, Untouched, FencedStep
<1>1. ASSUME NEW r \in Runs, NEW q, InsertRun(r, q), UNCHANGED <<resultVars, credVars>>
      PROVE  Guarded(x)
  BY <1>0, <1>1, <1>b DEF InsertRun, Fresh, resultVars, credVars
<1>2. ASSUME NEW r \in Runs, Trigger(r) \/ Submit(r) PROVE Guarded(x)
  BY <1>1, <1>2 DEF Trigger, Submit
<1>3. ASSUME NEW r \in Runs, NEW new \in Runs, ReviewRerun(r, new) PROVE Guarded(x)
  BY <1>1, <1>3 DEF ReviewRerun
<1>4. ASSUME NEW r \in Runs, Cancel(r) PROVE Guarded(x)
  BY <1>0, <1>4 DEF Cancel, resultVars, credVars
<1>5. ASSUME NEW r \in Runs, ReviewRun(r) \/ ApproveSubmission(r) \/ RejectSubmission(r)
      PROVE  Guarded(x)
  BY <1>5 DEF ReviewRun, ApproveSubmission, RejectSubmission, runVars, resultVars, credVars
<1>6. ASSUME NEW r \in Runs, LeaseRejected(r) PROVE Guarded(x)
  BY <1>0, <1>b, <1>6 DEF LeaseRejected, resultVars, credVars
<1>7. ASSUME NEW r \in Runs, LeaseExpires(r) PROVE Guarded(x)
  BY <1>7 DEF LeaseExpires, resultVars, credVars
<1>8. ASSUME NEW c \in Creds, RevokeCredential(c) PROVE Guarded(x)
  BY <1>8 DEF RevokeCredential, runVars, resultVars
<1>p. ASSUME NEW p \in Projects, TeacherStep(p) PROVE Guarded(x)
  BY <1>p DEF TeacherStep, CalculateScore, FreezeScore, PublishScore, runVars, resultVars, credVars
<1>9. ASSUME NEW w \in Workers, NEW r \in Runs, Lease(w, r) PROVE Guarded(x)
  BY <1>0, <1>b, <1>9 DEF Lease, resultVars, credVars
<1>10. ASSUME NEW w \in Workers, NEW r \in Runs, Heartbeat(w, r) PROVE Guarded(x)
  BY <1>10 DEF Heartbeat, resultVars, credVars
<1>11. ASSUME NEW w \in Workers, NEW r \in Runs, Start(w, r) PROVE Guarded(x)
  BY <1>0, <1>a, <1>11 DEF Start, resultVars, credVars
<1>12. ASSUME NEW w \in Workers, NEW r \in Runs, LeaseCredential(w, r) PROVE Guarded(x)
  BY <1>a, <1>12 DEF LeaseCredential, runVars, resultVars
<1>13. ASSUME NEW w \in Workers, NEW r \in Runs, ReportSome(w, r) PROVE Guarded(x)
  <2>1. /\ lease_owner[r] = w /\ status[r] \in Active
        /\ \A y \in Runs : y # r => evidence'[y] = evidence[y] /\ objects'[y] = objects[y]
        /\ UNCHANGED <<runVars, credVars>>
    BY <1>0, <1>13 DEF ReportSome, ReportEvidence
  <2> QED BY <1>a, <2>1 DEF runVars, credVars
<1>14. ASSUME NEW w \in Workers, NEW r \in Runs, CompleteSome(w, r) PROVE Guarded(x)
  <2>1. /\ lease_owner[r] = w /\ RevokeLeaseOf(w, r) /\ UNCHANGED resultVars
        /\ \/ status[r] # "cancelled"
           \/ UNCHANGED <<status, failure_class, events>>
    BY <1>14 DEF CompleteSome, Complete, CompleteCancelled, MayComplete
  <2>2. \A y \in Runs : y # r => /\ status'[y] = status[y] /\ events'[y] = events[y]
                                 /\ failure_class'[y] = failure_class[y]
    <3>1. CASE UNCHANGED <<status, failure_class, events>>
      BY <3>1
    <3>2. CASE \E v, class, e : /\ status' = [status EXCEPT ![r] = v]
                                /\ failure_class' = [failure_class EXCEPT ![r] = class]
                                /\ events' = [events EXCEPT ![r] = e]
      BY <1>0, <3>2
    <3> QED BY <1>14, <3>1, <3>2 DEF CompleteSome, Complete, CompleteCancelled
  <2> QED BY <1>a, <2>1, <2>2 DEF resultVars, RevokeLeaseOf
<1>15. ASSUME NEW w \in Workers, NEW r \in Runs, RecoverClaim(w, r) PROVE Guarded(x)
  BY <1>15 DEF RecoverClaim, resultVars, credVars
<1>16. ASSUME NEW w \in Workers, NEW r \in Runs, RecoverCleanupFailed(w, r) PROVE Guarded(x)
  BY <1>16 DEF RecoverCleanupFailed, resultVars, credVars
<1>17. ASSUME NEW w \in Workers, NEW r \in Runs, RecoverCommit(w, r) PROVE Guarded(x)
  BY <1>0, <1>17 DEF RecoverCommit, resultVars
<1>18. CASE UNCHANGED vars
  BY <1>18 DEF vars, runVars, resultVars, credVars
<1> QED
  BY <1>2, <1>3, <1>4, <1>5, <1>6, <1>7, <1>8, <1>9, <1>10, <1>11, <1>12, <1>13, <1>14, <1>15,
     <1>16, <1>17, <1>18, <1>p
  DEF Next, ClientStep, WorkerStep

\* A verdict is final: nothing changes the record of a run that has ended.
THEOREM VerdictsAreFinal == Spec => VerdictIsFinal
<1>1. TypeInv /\ OwnedWhileActive /\ [Next]_vars =>
        [\A r \in Runs : status[r] \in Terminal => Untouched(r)]_vars
  BY GuardedSteps DEF Guarded
<1> QED BY <1>1, OwnershipInvariant, PTL DEF Spec, VerdictIsFinal, Untouched

\* A worker that lost its run to a recovery writes nothing to it any more.
THEOREM RecoveryFences == Spec => RecoveryFencesWorker
<1>1. TypeInv /\ OwnedWhileActive /\ [Next]_vars =>
        [\A r \in Runs : lease_owner[r] \in Recoverers => FencedStep(r)]_vars
  BY GuardedSteps DEF Guarded
<1> QED BY <1>1, OwnershipInvariant, PTL DEF Spec, RecoveryFencesWorker, FencedStep
-----------------------------------------------------------------------------
\* Only a run that has ended has a failure class.
OpenUnblamed == \A r \in Runs : status[r] \notin Terminal => failure_class[r] = "none"

LEMMA BlameEnds ==
  ASSUME TypeInv, [Next]_vars
  PROVE  \A x \in Runs : failure_class'[x] # failure_class[x] => status'[x] \in Terminal
<1> SUFFICES ASSUME NEW x \in Runs
             PROVE  failure_class'[x] # failure_class[x] => status'[x] \in Terminal
  OBVIOUS
<1> DEFINE Good == failure_class'[x] # failure_class[x] => status'[x] \in Terminal
<1>0. /\ status \in [Runs -> Statuses]
      /\ failure_class \in [Runs -> {"none", "verification_failure", "infra_failure"}]
  BY DEF TypeInv, TypeOK
<1>1. ASSUME NEW r \in Runs, Trigger(r) \/ Submit(r) PROVE Good
  BY <1>1 DEF Trigger, Submit, InsertRun
<1>2. ASSUME NEW r \in Runs, NEW new \in Runs, ReviewRerun(r, new) PROVE Good
  BY <1>2 DEF ReviewRerun, InsertRun
<1>3. ASSUME NEW r \in Runs,
             \/ Cancel(r) \/ ReviewRun(r) \/ ApproveSubmission(r) \/ RejectSubmission(r)
             \/ LeaseExpires(r)
      PROVE  Good
  BY <1>3 DEF Cancel, ReviewRun, ApproveSubmission, RejectSubmission, LeaseExpires, runVars
<1>4. ASSUME NEW r \in Runs, LeaseRejected(r) PROVE Good
  BY <1>0, <1>4 DEF LeaseRejected
<1>5. ASSUME NEW c \in Creds, RevokeCredential(c) PROVE Good
  BY <1>5 DEF RevokeCredential, runVars
<1>6. ASSUME NEW p \in Projects, TeacherStep(p) PROVE Good
  BY <1>6 DEF TeacherStep, CalculateScore, FreezeScore, PublishScore, runVars
<1>7. ASSUME NEW w \in Workers, NEW r \in Runs,
             \/ Lease(w, r) \/ Heartbeat(w, r) \/ Start(w, r) \/ LeaseCredential(w, r)
             \/ ReportSome(w, r) \/ RecoverClaim(w, r) \/ RecoverCleanupFailed(w, r)
      PROVE  Good
  BY <1>7 DEF Lease, Heartbeat, Start, LeaseCredential, ReportSome, ReportEvidence, RecoverClaim,
              RecoverCleanupFailed, runVars
<1>8. ASSUME NEW w \in Workers, NEW r \in Runs, CompleteSome(w, r) PROVE Good
  <2>1. CASE UNCHANGED failure_class
    BY <2>1
  <2>2. CASE \E report \in Reports : \E records, objectCount :
               Complete(w, r, report[1], report[2], records, objectCount)
    <3>1. \E final \in Terminal : \E class :
             /\ status' = [status EXCEPT ![r] = final]
             /\ failure_class' = [failure_class EXCEPT ![r] = class]
      <4>1. PICK report \in Reports : \E records, objectCount :
                   Complete(w, r, report[1], report[2], records, objectCount)
        BY <2>2
      <4> DEFINE final == IF report[1] = "passed" /\ MissingShowcase(r) # {} THEN "failed"
                          ELSE report[1]
      <4>2. final \in Terminal
        BY DEF Reports
      <4>3. /\ status' = [status EXCEPT ![r] = final]
            /\ \E class : failure_class' = [failure_class EXCEPT ![r] = class]
        BY <4>1 DEF Complete
      <4> QED BY <4>2, <4>3
    <3> QED BY <1>0, <3>1
  <2> QED BY <1>8, <2>1, <2>2 DEF CompleteSome, CompleteCancelled
<1>9. ASSUME NEW w \in Workers, NEW r \in Runs, RecoverCommit(w, r) PROVE Good
  BY <1>0, <1>9 DEF RecoverCommit
<1>10. CASE UNCHANGED vars
  BY <1>10 DEF vars, runVars
<1> QED
  BY <1>1, <1>2, <1>3, <1>4, <1>5, <1>6, <1>7, <1>8, <1>9, <1>10 DEF Next, ClientStep, WorkerStep

LEMMA OpenUnblamedStep ==
  TypeInv /\ OwnedWhileActive /\ OpenUnblamed /\ [Next]_vars => OpenUnblamed'
<1> SUFFICES ASSUME TypeInv, OwnedWhileActive, OpenUnblamed, [Next]_vars, NEW r \in Runs,
                    status'[r] \notin Terminal
             PROVE  failure_class'[r] = "none"
  BY DEF OpenUnblamed
<1>1. status[r] \notin Terminal
  BY GuardedSteps DEF Guarded, Untouched
<1> QED BY <1>1, BlameEnds DEF OpenUnblamed

-----------------------------------------------------------------------------
(***************************************************************************)
(* The event log.  LogFits is the inductive form of EventLogTellsStory: it *)
(* says exactly which logs a run of each status may have.                  *)
(***************************************************************************)
Begins(log, n) == /\ n \in 1 .. 3 /\ log[1] = "queued"
                  /\ n >= 2 => log[2] = "leased"
                  /\ n = 3  => log[3] = "step_started"
LogFits ==
  \A r \in Runs :
    /\ status[r] = "queued"  => Len(events[r]) = 1 /\ Begins(events[r], 1)
    /\ status[r] = "leased"  => Len(events[r]) = 2 /\ Begins(events[r], 2)
    /\ status[r] = "running" => Len(events[r]) = 3 /\ Begins(events[r], 3)
    /\ status[r] \in Terminal =>
         \E n \in 1 .. 3 : /\ Len(events[r]) = n + 1 /\ Begins(events[r], n)
                           /\ events[r][n + 1] = status[r]

\* What a step may do to the log of run r: an event goes with a change of status.
LogMove(r) ==
  \/ status'[r] = status[r] /\ events'[r] = events[r]
  \/ status'[r] = "queued" /\ events'[r] = <<"queued">>
  \/ status[r] = "queued" /\ status'[r] = "leased" /\ events'[r] = Append(events[r], "leased")
  \/ status[r] = "leased" /\ status'[r] = "running" /\ events'[r] = Append(events[r], "step_started")
  \/ /\ status[r] \in {"queued"} \cup Active /\ status'[r] \in Terminal
     /\ events'[r] = Append(events[r], status'[r])

LEMMA LogMoves ==
  ASSUME TypeInv, OwnedWhileActive, [Next]_vars
  PROVE  \A r \in Runs : LogMove(r)
<1> SUFFICES ASSUME NEW x \in Runs PROVE LogMove(x)
  OBVIOUS
<1>0. /\ status \in [Runs -> Statuses] /\ lease_owner \in [Runs -> Owners]
      /\ events \in [Runs -> Seq(EventTypes)]
  BY DEF TypeInv, TypeOK
<1> USE DEF LogMove
<1>1. ASSUME NEW r \in Runs, NEW q, InsertRun(r, q) PROVE LogMove(x)
  BY <1>0, <1>1 DEF InsertRun
<1>2. ASSUME NEW r \in Runs, Trigger(r) \/ Submit(r) PROVE LogMove(x)
  BY <1>1, <1>2 DEF Trigger, Submit
<1>3. ASSUME NEW r \in Runs, NEW new \in Runs, ReviewRerun(r, new) PROVE LogMove(x)
  BY <1>1, <1>3 DEF ReviewRerun
<1>4. ASSUME NEW r \in Runs, Cancel(r) \/ LeaseRejected(r) PROVE LogMove(x)
  BY <1>0, <1>4 DEF Cancel, LeaseRejected
<1>5. ASSUME NEW r \in Runs,
             ReviewRun(r) \/ ApproveSubmission(r) \/ RejectSubmission(r) \/ LeaseExpires(r)
      PROVE  LogMove(x)
  BY <1>5 DEF ReviewRun, ApproveSubmission, RejectSubmission, LeaseExpires, runVars
<1>6. ASSUME NEW c \in Creds, RevokeCredential(c) PROVE LogMove(x)
  BY <1>6 DEF RevokeCredential, runVars
<1>7. ASSUME NEW p \in Projects, TeacherStep(p) PROVE LogMove(x)
  BY <1>7 DEF TeacherStep, CalculateScore, FreezeScore, PublishScore, runVars
<1>8. ASSUME NEW w \in Workers, NEW r \in Runs, Lease(w, r) \/ Start(w, r) PROVE LogMove(x)
  BY <1>0, <1>8 DEF Lease, Start
<1>9. ASSUME NEW w \in Workers, NEW r \in Runs,
             \/ Heartbeat(w, r) \/ LeaseCredential(w, r) \/ ReportSome(w, r)
             \/ RecoverClaim(w, r) \/ RecoverCleanupFailed(w, r)
      PROVE  LogMove(x)
  BY <1>9 DEF Heartbeat, LeaseCredential, ReportSome, ReportEvidence, RecoverClaim,
              RecoverCleanupFailed, runVars
<1>10. ASSUME NEW w \in Workers, NEW r \in Runs, CompleteSome(w, r) PROVE LogMove(x)
  <2>1. PICK report \in Reports, records \in 0 .. Cardinality(Cases),
             objectCount \in 0 .. Cardinality(Labels) :
          \/ Complete(w, r, report[1], report[2], records, objectCount)
          \/ CompleteCancelled(w, r, report[1], records, objectCount)
    BY <1>10 DEF CompleteSome
  <2>2. report[1] \in Terminal
    BY DEF Reports
  <2>3. CASE Complete(w, r, report[1], report[2], records, objectCount)
    <3>1. PICK final \in Terminal : /\ status' = [status EXCEPT ![r] = final]
                                    /\ events' = [events EXCEPT ![r] = Append(@, final)]
      BY <2>2, <2>3 DEF Complete
    <3>2. status[r] \in Active
      BY <1>0, <2>3, OwnersAssumption DEF Complete, MayComplete, OwnedWhileActive
    <3> QED BY <1>0, <3>1, <3>2
  <2>4. CASE CompleteCancelled(w, r, report[1], records, objectCount)
    BY <2>4 DEF CompleteCancelled
  <2> QED BY <2>1, <2>3, <2>4
<1>11. ASSUME NEW w \in Workers, NEW r \in Runs, RecoverCommit(w, r) PROVE LogMove(x)
  BY <1>0, <1>11 DEF RecoverCommit
<1>12. CASE UNCHANGED vars
  BY <1>12 DEF vars, runVars
<1> QED
  BY <1>2, <1>3, <1>4, <1>5, <1>6, <1>7, <1>8, <1>9, <1>10, <1>11, <1>12
  DEF Next, ClientStep, WorkerStep

LEMMA OneMoreEvent ==
  ASSUME NEW log \in Seq(EventTypes), NEW e \in EventTypes, NEW n \in 1 .. 3,
         Len(log) = n, Begins(log, n)
  PROVE  LET more == Append(log, e) IN
         Len(more) = n + 1 /\ more[n + 1] = e /\ Begins(more, n)
BY DEF Begins

LEMMA LogStep == TypeInv /\ OwnedWhileActive /\ LogFits /\ [Next]_vars => LogFits'
<1> SUFFICES ASSUME TypeInv, OwnedWhileActive, LogFits, [Next]_vars, NEW r \in Runs
             PROVE  /\ status'[r] = "queued"  => Len(events'[r]) = 1 /\ Begins(events'[r], 1)
                    /\ status'[r] = "leased"  => Len(events'[r]) = 2 /\ Begins(events'[r], 2)
                    /\ status'[r] = "running" => Len(events'[r]) = 3 /\ Begins(events'[r], 3)
                    /\ status'[r] \in Terminal =>
                         \E n \in 1 .. 3 : /\ Len(events'[r]) = n + 1 /\ Begins(events'[r], n)
                                           /\ events'[r][n + 1] = status'[r]
  BY DEF LogFits, Begins
<1>0. events[r] \in Seq(EventTypes) /\ status[r] \in Statuses
  BY DEF TypeInv, TypeOK
<1>1. LogMove(r)
  BY LogMoves
<1>2. CASE status'[r] = status[r] /\ events'[r] = events[r]
  BY <1>2 DEF LogFits
<1>3. CASE status'[r] = "queued" /\ events'[r] = <<"queued">>
  BY <1>3 DEF Begins
<1>4. CASE status[r] = "queued" /\ status'[r] = "leased" /\ events'[r] = Append(events[r], "leased")
  BY <1>0, <1>4, OneMoreEvent DEF LogFits, Begins
<1>5. CASE /\ status[r] = "leased" /\ status'[r] = "running"
           /\ events'[r] = Append(events[r], "step_started")
  BY <1>0, <1>5, OneMoreEvent DEF LogFits, Begins
<1>6. CASE /\ status[r] \in {"queued"} \cup Active /\ status'[r] \in Terminal
           /\ events'[r] = Append(events[r], status'[r])
  <2>1. PICK n \in 1 .. 3 : Len(events[r]) = n /\ Begins(events[r], n)
    BY <1>6 DEF LogFits
  <2>2. LET more == Append(events[r], status'[r]) IN
        Len(more) = n + 1 /\ more[n + 1] = status'[r] /\ Begins(more, n)
    BY <1>0, <1>6, <2>1, OneMoreEvent
  <2> QED BY <1>6, <2>2
<1> QED BY <1>1, <1>2, <1>3, <1>4, <1>5, <1>6 DEF LogMove

\* Whoever polls the events of a run sees it queued, leased at most once, and
\* finished exactly once and last, with the verdict the run keeps.
THEOREM EventLogsTellStory == Spec => []EventLogTellsStory
<1>1. Init => LogFits
  BY DEF Init, LogFits
<1>2. TypeInv /\ LogFits => EventLogTellsStory
  <2> SUFFICES ASSUME TypeInv, LogFits, NEW r \in Runs, status[r] # "absent", NEW log,
                      log = events[r]
               PROVE  /\ log # <<>> /\ log[1] = "queued"
                      /\ \A i \in 2 .. Len(log) : log[i] # "queued" /\ (log[i] = "leased" => i = 2)
                      /\ \A i \in 1 .. Len(log) : log[i] = "step_started" => i = 3 /\ log[2] = "leased"
                      /\ \A i \in 1 .. Len(log) : log[i] \in Terminal => i = Len(log)
                      /\ status[r] \in Terminal => log[Len(log)] = status[r]
                      /\ status[r] \notin Terminal => log[Len(log)] \notin Terminal
    BY DEF EventLogTellsStory, Created
  <2>1. status[r] \in Statuses \ {"absent"} /\ log \in Seq(EventTypes)
    BY DEF TypeInv, TypeOK
  <2>2. CASE status[r] \notin Terminal
    <3>1. PICK n \in 1 .. 3 : Len(log) = n /\ Begins(log, n)
      BY <2>1, <2>2 DEF LogFits
    <3> QED BY <2>1, <2>2, <3>1 DEF Begins
  <2>3. CASE status[r] \in Terminal
    <3>1. PICK n \in 1 .. 3 : Len(log) = n + 1 /\ Begins(log, n) /\ log[n + 1] = status[r]
      BY <2>3 DEF LogFits
    <3> QED BY <2>1, <2>3, <3>1 DEF Begins
  <2> QED BY <2>2, <2>3
<1> QED BY <1>1, <1>2, OwnershipInvariant, LogStep, PTL DEF Spec
-----------------------------------------------------------------------------
(***************************************************************************)
(* Submissions.                                                            *)
(***************************************************************************)
Backed(r) == Total(r) > 0 /\ Passed(r) = Total(r)

\* The part of SubmissionFollowsRun about run r.
Follows(r) ==
  /\ submission[r] \in {"candidate", "complete"} => status[r] = "passed" /\ Backed(r)
  /\ submission[r] = "evaluating" => status[r] \in {"running", "failed"}
  /\ submission[r] \in {"queued", "evaluating"} /\ status[r] \in Terminal =>
       status[r] = "failed" /\ failure_class[r] = "infra_failure"

LEMMA FollowsAll == SubmissionFollowsRun <=> \A r \in Runs : Follows(r)
BY DEF SubmissionFollowsRun, Follows, Backed

LEMMA SubmissionStep ==
  TypeInv /\ OwnedWhileActive /\ SubmissionFollowsRun /\ [Next]_vars => SubmissionFollowsRun'
<1> SUFFICES ASSUME TypeInv, OwnedWhileActive, \A r \in Runs : Follows(r), [Next]_vars,
                    NEW x \in Runs
             PROVE  Follows(x)'
  BY FollowsAll DEF SubmissionFollowsRun, Follows, Backed
<1>0. /\ status \in [Runs -> Statuses] /\ lease_owner \in [Runs -> Owners]
      /\ failure_class \in [Runs -> {"none", "verification_failure", "infra_failure"}]
      /\ evidence \in [Runs -> [Cases -> {"none", "pass", "fail"}]]
      /\ submission \in [Runs -> SubmissionStates]
      /\ \A r \in Runs : submission[r] # "none" => status[r] # "absent"
  BY DEF TypeInv, TypeOK, RunsHaveRequests, SubmissionStates
<1>k. ASSUME evidence'[x] = evidence[x] PROVE Backed(x)' <=> Backed(x)
  BY <1>k DEF Backed, Total, Passed, Recorded
\* A step that leaves x alone.
<1>b. ASSUME submission'[x] = submission[x], status'[x] = status[x],
             failure_class'[x] = failure_class[x], evidence'[x] = evidence[x]
      PROVE  Follows(x)'
  BY <1>b, <1>k DEF Follows
<1>1. ASSUME NEW r \in Runs, NEW q, InsertRun(r, q), UNCHANGED resultVars,
             submission' \in {submission, [submission EXCEPT ![r] = "queued"]}
      PROVE  Follows(x)'
  <2>1. CASE x = r
    BY <1>0, <1>1, <2>1 DEF InsertRun, Fresh, Follows, SubmissionStates
  <2>2. CASE x # r
    BY <1>0, <1>1, <1>b, <2>2 DEF InsertRun, resultVars
  <2> QED BY <2>1, <2>2
<1>2. ASSUME NEW r \in Runs, Trigger(r) \/ Submit(r) PROVE Follows(x)'
  BY <1>1, <1>2 DEF Trigger, Submit, gateVars
<1>3. ASSUME NEW r \in Runs, NEW new \in Runs, ReviewRerun(r, new) PROVE Follows(x)'
  BY <1>1, <1>3 DEF ReviewRerun, gateVars
<1>4. ASSUME NEW r \in Runs, Cancel(r) \/ LeaseRejected(r) PROVE Follows(x)'
  <2>1. /\ status[r] \in {"queued"} \cup Active /\ FailPendingSubmission(r)
        /\ UNCHANGED resultVars
        /\ \/ status' = [status EXCEPT ![r] = "cancelled"] /\ UNCHANGED failure_class
           \/ /\ status' = [status EXCEPT ![r] = "failed"]
              /\ failure_class' = [failure_class EXCEPT ![r] = "infra_failure"]
    BY <1>4 DEF Cancel, LeaseRejected
  <2>2. CASE x = r
    <3>1. submission[x] \notin {"candidate", "complete"}
      BY <2>1, <2>2 DEF Follows
    <3>2. submission'[x] \in {"none", "failed"}
      BY <1>0, <2>1, <2>2, <3>1 DEF FailPendingSubmission, SubmissionStates
    <3> QED BY <3>2 DEF Follows
  <2>3. CASE x # r
    BY <1>0, <1>b, <2>1, <2>3 DEF FailPendingSubmission, resultVars
  <2> QED BY <2>2, <2>3
<1>5. ASSUME NEW r \in Runs, ReviewRun(r) \/ LeaseExpires(r) PROVE Follows(x)'
  BY <1>5, <1>b DEF ReviewRun, LeaseExpires, runVars, resultVars, gateVars
<1>6. ASSUME NEW r \in Runs, ApproveSubmission(r) \/ RejectSubmission(r) PROVE Follows(x)'
  BY <1>0, <1>6, <1>b, <1>k DEF ApproveSubmission, RejectSubmission, Follows, runVars, resultVars
<1>7. ASSUME NEW c \in Creds, RevokeCredential(c) PROVE Follows(x)'
  BY <1>7, <1>b DEF RevokeCredential, runVars, resultVars, gateVars
<1>8. ASSUME NEW p \in Projects, TeacherStep(p) PROVE Follows(x)'
  BY <1>8, <1>b DEF TeacherStep, CalculateScore, FreezeScore, PublishScore, runVars, resultVars
<1>9. ASSUME NEW w \in Workers, NEW r \in Runs, Lease(w, r) PROVE Follows(x)'
  BY <1>0, <1>9, <1>b DEF Lease, Follows, resultVars, gateVars
<1>10. ASSUME NEW w \in Workers, NEW r \in Runs, Start(w, r) PROVE Follows(x)'
  BY <1>0, <1>10, <1>b DEF Start, Follows, resultVars
<1>11. ASSUME NEW w \in Workers, NEW r \in Runs,
              \/ Heartbeat(w, r) \/ LeaseCredential(w, r)
              \/ RecoverClaim(w, r) \/ RecoverCleanupFailed(w, r)
       PROVE  Follows(x)'
  BY <1>11, <1>b DEF Heartbeat, LeaseCredential, RecoverClaim, RecoverCleanupFailed, runVars,
                     resultVars, gateVars
<1>12. ASSUME NEW w \in Workers, NEW r \in Runs, ReportSome(w, r) PROVE Follows(x)'
  <2>1. /\ status[r] \in Active /\ UNCHANGED <<runVars, gateVars>>
        /\ \A y \in Runs : y # r => evidence'[y] = evidence[y]
    BY <1>0, <1>12 DEF ReportSome, ReportEvidence
  <2>2. CASE x = r
    BY <2>1, <2>2 DEF Follows, runVars, gateVars
  <2>3. CASE x # r
    BY <1>b, <2>1, <2>3 DEF runVars, gateVars
  <2> QED BY <2>2, <2>3
<1>13. ASSUME NEW w \in Workers, NEW r \in Runs, CompleteSome(w, r) PROVE Follows(x)'
  <2>1. PICK report \in Reports, records \in 0 .. Cardinality(Cases),
             objectCount \in 0 .. Cardinality(Labels) :
          \/ Complete(w, r, report[1], report[2], records, objectCount)
          \/ CompleteCancelled(w, r, report[1], records, objectCount)
    BY <1>13 DEF CompleteSome
  <2>2. CASE CompleteCancelled(w, r, report[1], records, objectCount)
    BY <1>b, <2>2 DEF CompleteCancelled, resultVars, gateVars
  <2>3. CASE Complete(w, r, report[1], report[2], records, objectCount)
    <3> DEFINE final == IF report[1] = "passed" /\ MissingShowcase(r) # {} THEN "failed"
                        ELSE report[1]
    <3>1. /\ status' = [status EXCEPT ![r] = final]
          /\ \E class : failure_class' = [failure_class EXCEPT ![r] = class]
          /\ SettleSubmission(r, final)
      BY <2>3 DEF Complete
    <3>f. final \in Terminal /\ (final = "passed" => report[1] = "passed")
      BY DEF Reports
    <3> HIDE DEF final
    <3>2. MayComplete(w, r, report[1], records, objectCount) /\ UNCHANGED evidence
      BY <2>3 DEF Complete, resultVars
    <3>3. CASE submission[r] = "none"
      BY <1>0, <1>b, <3>1, <3>2, <3>3 DEF SettleSubmission, gateVars, Follows
    <3>4. CASE submission[r] # "none"
      <4>1. PICK settled \in {"failed", "candidate", "complete"} :
              /\ submission' = [submission EXCEPT ![r] = settled]
              /\ settled # "failed" => final = "passed"
        BY <3>1, <3>4 DEF SettleSubmission
      <4>2. final = "passed" => Backed(r)'
        BY <3>f, <3>2 DEF MayComplete, Backed, Total, Passed, Recorded
      <4> QED BY <1>0, <1>b, <3>1, <3>f, <3>2, <4>1, <4>2 DEF Follows
    <3> QED BY <3>3, <3>4
  <2> QED BY <2>1, <2>2, <2>3
<1>14. ASSUME NEW w \in Workers, NEW r \in Runs, RecoverCommit(w, r) PROVE Follows(x)'
  BY <1>0, <1>14, <1>b DEF RecoverCommit, Follows, resultVars, gateVars
<1>15. CASE UNCHANGED vars
  BY <1>15, <1>b DEF vars, runVars, resultVars, gateVars
<1> QED
  BY <1>2, <1>3, <1>4, <1>5, <1>6, <1>7, <1>8, <1>9, <1>10, <1>11, <1>12, <1>13, <1>14, <1>15
  DEF Next, ClientStep, WorkerStep

\* A submission never gets ahead of its run, and an open one on a finished run
\* is one whose run was failed as an infrastructure failure.
THEOREM SubmissionsFollowRuns == Spec => []SubmissionFollowsRun
<1>1. Init => SubmissionFollowsRun
  BY DEF Init, SubmissionFollowsRun
<1> QED BY <1>1, OwnershipInvariant, SubmissionStep, PTL DEF Spec
-----------------------------------------------------------------------------
(***************************************************************************)
(* Stages.  A project moves on only in a step that completes one of its    *)
(* submissions, and a completed submission stays.                          *)
(***************************************************************************)
Paid(p) == {r \in Runs : submission[r] = "complete" /\ req[r].project = p}

Completes(r) == /\ submission[r] # "complete" /\ submission'[r] = "complete"
                /\ status[r] # "absent" /\ req' = req
                /\ AdvanceStage(req[r].project)

LEMMA RunsFinite == IsFiniteSet(Runs)
BY RunsAssumption, FS_Interval DEF Runs

LEMMA StageMove ==
  ASSUME TypeInv, OwnedWhileActive, SubmissionFollowsRun, [Next]_vars
  PROVE  /\ \A x \in Runs : submission[x] = "complete" =>
                              submission'[x] = "complete" /\ req'[x] = req[x]
         /\ \/ UNCHANGED <<currentStage, openGates>>
            \/ \E r \in Runs : Completes(r)
<1> DEFINE Kept == \A x \in Runs : submission[x] = "complete" =>
                                     submission'[x] = "complete" /\ req'[x] = req[x]
           NoGate == UNCHANGED <<currentStage, openGates>>
           Goal == Kept /\ (NoGate \/ \E r \in Runs : Completes(r))
<1> SUFFICES Goal
  OBVIOUS
<1>0. /\ status \in [Runs -> Statuses] /\ lease_owner \in [Runs -> Owners]
      /\ req \in [Runs -> Requests \cup {NoRequest}]
      /\ submission \in [Runs -> SubmissionStates]
      /\ \A r \in Runs : submission[r] # "none" => status[r] # "absent"
      /\ \A r \in Runs : submission[r] = "complete" => status[r] = "passed"
  BY DEF TypeInv, TypeOK, RunsHaveRequests, SubmissionStates, SubmissionFollowsRun
<1>1. ASSUME NEW r \in Runs, NEW q, InsertRun(r, q), NoGate,
             submission' \in {submission, [submission EXCEPT ![r] = "queued"]}
      PROVE  Goal
  BY <1>0, <1>1 DEF InsertRun, Fresh
<1>2. ASSUME NEW r \in Runs, Trigger(r) \/ Submit(r) PROVE Goal
  BY <1>1, <1>2 DEF Trigger, Submit, gateVars
<1>3. ASSUME NEW r \in Runs, NEW new \in Runs, ReviewRerun(r, new) PROVE Goal
  BY <1>1, <1>3 DEF ReviewRerun, gateVars
<1>4. ASSUME NEW r \in Runs, Cancel(r) \/ LeaseRejected(r) PROVE Goal
  BY <1>0, <1>4 DEF Cancel, LeaseRejected, FailPendingSubmission
<1>5. ASSUME NEW r \in Runs, ReviewRun(r) \/ LeaseExpires(r) PROVE Goal
  BY <1>5 DEF ReviewRun, LeaseExpires, runVars, gateVars
<1>6. ASSUME NEW r \in Runs, ApproveSubmission(r) PROVE Goal
  BY <1>0, <1>6 DEF ApproveSubmission, Completes, runVars
<1>7. ASSUME NEW r \in Runs, RejectSubmission(r) PROVE Goal
  BY <1>0, <1>7 DEF RejectSubmission, runVars
<1>8. ASSUME NEW c \in Creds, RevokeCredential(c) PROVE Goal
  BY <1>8 DEF RevokeCredential, runVars, gateVars
<1>9. ASSUME NEW p \in Projects, TeacherStep(p) PROVE Goal
  BY <1>9 DEF TeacherStep, CalculateScore, FreezeScore, PublishScore, runVars
<1>10. ASSUME NEW w \in Workers, NEW r \in Runs, Start(w, r) PROVE Goal
  BY <1>0, <1>10 DEF Start
<1>11. ASSUME NEW w \in Workers, NEW r \in Runs,
              \/ Lease(w, r) \/ Heartbeat(w, r) \/ LeaseCredential(w, r) \/ ReportSome(w, r)
              \/ RecoverClaim(w, r) \/ RecoverCleanupFailed(w, r) \/ RecoverCommit(w, r)
       PROVE  Goal
  BY <1>11 DEF Lease, Heartbeat, LeaseCredential, ReportSome, ReportEvidence, RecoverClaim,
               RecoverCleanupFailed, RecoverCommit, runVars, gateVars
<1>12. ASSUME NEW w \in Workers, NEW r \in Runs, CompleteSome(w, r) PROVE Goal
  <2>1. PICK report \in Reports, records \in 0 .. Cardinality(Cases),
             objectCount \in 0 .. Cardinality(Labels) :
          \/ Complete(w, r, report[1], report[2], records, objectCount)
          \/ CompleteCancelled(w, r, report[1], records, objectCount)
    BY <1>12 DEF CompleteSome
  <2>2. CASE CompleteCancelled(w, r, report[1], records, objectCount)
    BY <2>2 DEF CompleteCancelled, gateVars
  <2>3. CASE Complete(w, r, report[1], report[2], records, objectCount)
    <3>1. \E final : SettleSubmission(r, final)
      BY <2>3 DEF Complete
    <3>2. status[r] \in Active /\ UNCHANGED req
      BY <1>0, <2>3, OwnersAssumption DEF Complete, MayComplete, OwnedWhileActive
    <3>3. CASE submission[r] = "none"
      BY <3>1, <3>2, <3>3 DEF SettleSubmission, gateVars
    <3>4. CASE submission[r] # "none"
      <4>1. PICK settled \in {"failed", "candidate", "complete"} :
              /\ submission' = [submission EXCEPT ![r] = settled]
              /\ IF settled = "complete" THEN AdvanceStage(req[r].project) ELSE NoGate
        BY <3>1, <3>4 DEF SettleSubmission
      <4> QED BY <1>0, <3>2, <4>1 DEF Completes
    <3> QED BY <3>3, <3>4
  <2> QED BY <2>1, <2>2, <2>3
<1>13. CASE UNCHANGED vars
  BY <1>13 DEF vars, runVars, gateVars
<1> QED
  BY <1>2, <1>3, <1>4, <1>5, <1>6, <1>7, <1>8, <1>9, <1>10, <1>11, <1>12, <1>13
  DEF Next, ClientStep, WorkerStep

\* A completed submission pays for one more stage of its project.
LEMMA PaidGrows ==
  ASSUME \A x \in Runs : submission[x] = "complete" =>
                           submission'[x] = "complete" /\ req'[x] = req[x],
         NEW p
  PROVE  /\ Cardinality(Paid(p)) \in Nat /\ Cardinality(Paid(p)') \in Nat
         /\ Cardinality(Paid(p)) <= Cardinality(Paid(p)')
         /\ \A r \in Runs : Completes(r) /\ req[r].project = p =>
              Cardinality(Paid(p)) + 1 <= Cardinality(Paid(p)')
<1>1. Paid(p) \subseteq Paid(p)' /\ Paid(p)' \subseteq Runs
  BY DEF Paid
<1>2. IsFiniteSet(Paid(p)) /\ IsFiniteSet(Paid(p)')
  BY <1>1, RunsFinite, FS_Subset
<1>3. ASSUME NEW r \in Runs, Completes(r), req[r].project = p
      PROVE  Cardinality(Paid(p)) + 1 <= Cardinality(Paid(p)')
  <2>1. r \notin Paid(p) /\ Paid(p) \cup {r} \subseteq Paid(p)'
    BY <1>1, <1>3 DEF Paid, Completes
  <2>2. Cardinality(Paid(p) \cup {r}) = Cardinality(Paid(p)) + 1
    BY <1>2, <2>1, FS_AddElement
  <2> QED BY <1>2, <2>1, <2>2, FS_Subset
<1> QED BY <1>1, <1>2, <1>3, FS_Subset, FS_CardinalityType

LEMMA StagesStep ==
  /\ TypeInv /\ OwnedWhileActive /\ SubmissionFollowsRun /\ StagesArePaidFor /\ [Next]_vars
  => StagesArePaidFor'
<1> SUFFICES ASSUME TypeInv, OwnedWhileActive, SubmissionFollowsRun, StagesArePaidFor, [Next]_vars
             PROVE  StagesArePaidFor'
  OBVIOUS
<1>0. currentStage \in [Projects -> 0 .. LastStage] /\ LastStage \in Nat
  BY RunsAssumption DEF TypeInv, TypeOK
<1>1. /\ \A x \in Runs : submission[x] = "complete" =>
                           submission'[x] = "complete" /\ req'[x] = req[x]
      /\ \/ UNCHANGED <<currentStage, openGates>>
         \/ \E r \in Runs : Completes(r)
  BY StageMove
<1>2. \A p : /\ Cardinality(Paid(p)) \in Nat /\ Cardinality(Paid(p)') \in Nat
             /\ Cardinality(Paid(p)) <= Cardinality(Paid(p)')
             /\ \A r \in Runs : Completes(r) /\ req[r].project = p =>
                  Cardinality(Paid(p)) + 1 <= Cardinality(Paid(p)')
  BY <1>1, PaidGrows
<1>3. \A p \in Projects : currentStage[p] <= Cardinality(Paid(p))
  BY DEF StagesArePaidFor, Paid
<1>4. \A p \in Projects : currentStage'[p] <= Cardinality(Paid(p)')
  <2> SUFFICES ASSUME NEW p \in Projects PROVE currentStage'[p] <= Cardinality(Paid(p)')
    OBVIOUS
  <2> DEFINE before == Cardinality(Paid(p))
             after  == Cardinality(Paid(p)')
  <2>1. before \in Nat /\ after \in Nat /\ before <= after /\ currentStage[p] <= before
    BY <1>2, <1>3
  <2>2. CASE currentStage'[p] = currentStage[p]
    BY <1>0, <2>1, <2>2
  <2>3. CASE currentStage'[p] # currentStage[p]
    <3>1. PICK r \in Runs : Completes(r)
      BY <1>1, <2>3
    <3>2. currentStage'[p] = currentStage[p] + 1 /\ req[r].project = p
      BY <1>0, <2>3, <3>1 DEF Completes, AdvanceStage
    <3>3. before + 1 <= after
      BY <1>2, <3>1, <3>2
    <3> QED BY <1>0, <2>1, <3>2, <3>3
  <2> QED BY <2>2, <2>3
<1>5. openGates' = {s \in Stages : s = 0 \/ \E p \in Projects : s <= currentStage'[p]}
  <2>1. openGates = {s \in Stages : s = 0 \/ \E p \in Projects : s <= currentStage[p]}
    BY DEF StagesArePaidFor
  <2>2. CASE UNCHANGED <<currentStage, openGates>>
    BY <2>1, <2>2
  <2>3. ASSUME NEW r \in Runs, Completes(r)
        PROVE  openGates' = {s \in Stages : s = 0 \/ \E p \in Projects : s <= currentStage'[p]}
    <3> DEFINE p == req[r].project
    <3>1. p \in Projects
      BY <2>3, RequestOf DEF Completes, Requests
    <3>2. CASE currentStage[p] < LastStage
      <4>1. /\ currentStage' = [currentStage EXCEPT ![p] = currentStage[p] + 1]
            /\ openGates' = openGates \cup {currentStage[p] + 1}
        BY <2>3, <3>2 DEF Completes, AdvanceStage
      <4>2. \A s \in 0 .. LastStage : s <= currentStage[p] + 1 <=>
                                        s <= currentStage[p] \/ s = currentStage[p] + 1
        BY <1>0, <3>1
      <4>3. \A s \in 0 .. LastStage :
              (\E q \in Projects : s <= currentStage'[q]) <=>
                (\E q \in Projects : s <= currentStage[q]) \/ s = currentStage[p] + 1
        BY <1>0, <3>1, <4>1, <4>2
      <4>4. currentStage[p] + 1 \in 0 .. LastStage
        BY <1>0, <3>1, <3>2
      <4> QED BY <2>1, <4>1, <4>3, <4>4
    <3>3. CASE ~(currentStage[p] < LastStage)
      BY <2>1, <2>3, <3>3 DEF Completes, AdvanceStage
    <3> QED BY <3>2, <3>3
  <2> QED BY <1>1, <2>2, <2>3
<1> QED BY <1>4, <1>5 DEF StagesArePaidFor, Paid

\* Every stage a project has moved past was paid for by a completed submission.
THEOREM StagesPaidFor == Spec => []StagesArePaidFor
<1>1. Init => StagesArePaidFor
  <2> SUFFICES ASSUME Init PROVE StagesArePaidFor
    OBVIOUS
  <2>1. \A p : Cardinality(Paid(p)) \in Nat
    BY RunsFinite, FS_Subset, FS_CardinalityType DEF Paid
  <2>2. currentStage = [p \in Projects |-> 0] /\ openGates = {0}
    BY DEF Init
  <2>3. \A p \in Projects : currentStage[p] <= Cardinality(Paid(p))
    BY <2>1, <2>2
  <2>4. openGates = {s \in Stages : s = 0 \/ \E p \in Projects : s <= currentStage[p]}
    BY <2>2, RunsAssumption
  <2> QED BY <2>3, <2>4 DEF StagesArePaidFor, Paid
<1> QED BY <1>1, OwnershipInvariant, SubmissionsFollowRuns, StagesStep, PTL DEF Spec
-----------------------------------------------------------------------------
(***************************************************************************)
(* Scores.  The newest snapshot's version counts what made snapshots, so   *)
(* the proof follows the set of submissions that passed.                   *)
(***************************************************************************)
PassedSubmission(r) == submission[r] # "none" /\ status[r] = "passed"
Passing(p) == {r \in Runs : PassedSubmission(r) /\ req[r].project = p}

\* A submission passes: the step drafts a baseline of its project.
Drafts(r) == /\ status[r] # "absent" /\ ~PassedSubmission(r) /\ PassedSubmission(r)'
             /\ \A x \in Runs \ {r} : PassedSubmission(x)' = PassedSubmission(x)
             /\ DraftBaseline(req[r].project, status')
             /\ UNCHANGED <<req, evidence, projectStatus>>

SamePassing == \A x \in Runs : PassedSubmission(x)' = PassedSubmission(x)

ScoreMove == \/ SamePassing /\ UNCHANGED <<score, projectStatus>>
             \/ SamePassing /\ \E p \in Projects : TeacherStep(p)
             \/ \E r \in Runs : Drafts(r)

LEMMA ScoreMoves ==
  ASSUME TypeInv, OwnedWhileActive, [Next]_vars
  PROVE  /\ ScoreMove
         /\ \A x \in Runs : status[x] # "absent" => req'[x] = req[x]
<1> DEFINE Same == \A x \in Runs : status[x] # "absent" => req'[x] = req[x]
           Quiet == SamePassing /\ UNCHANGED <<score, projectStatus>>
           Goal == ScoreMove /\ Same
<1> SUFFICES Goal
  OBVIOUS
<1>0. /\ status \in [Runs -> Statuses] /\ lease_owner \in [Runs -> Owners]
      /\ req \in [Runs -> Requests \cup {NoRequest}]
      /\ submission \in [Runs -> SubmissionStates]
      /\ \A r \in Runs : submission[r] # "none" => status[r] # "absent"
  BY DEF TypeInv, TypeOK, RunsHaveRequests, SubmissionStates
<1>q. ASSUME Quiet, Same PROVE Goal
  BY <1>q DEF ScoreMove
<1>s. ASSUME UNCHANGED <<req, score, projectStatus>>, NEW r \in Runs, NEW s \in Statuses \ {"passed"},
             status[r] # "passed",
             status' = [status EXCEPT ![r] = s], NEW t,
             submission' = [submission EXCEPT ![r] = t]
      PROVE  Goal
  <2>1. Quiet
    BY <1>0, <1>s DEF SamePassing, PassedSubmission
  <2> QED BY <2>1, <1>q, <1>s
<1>i. ASSUME UNCHANGED <<req, status, submission, score, projectStatus>> PROVE Goal
  BY <1>i, <1>q DEF SamePassing, PassedSubmission
<1>1. ASSUME NEW r \in Runs, NEW q, InsertRun(r, q), UNCHANGED <<score, projectStatus>>,
             submission' \in {submission, [submission EXCEPT ![r] = "queued"]}
      PROVE  Goal
  <2>1. Quiet /\ Same
    BY <1>0, <1>1 DEF InsertRun, Fresh, SamePassing, PassedSubmission
  <2> QED BY <2>1, <1>q
<1>2. ASSUME NEW r \in Runs, Trigger(r) \/ Submit(r) PROVE Goal
  BY <1>1, <1>2 DEF Trigger, Submit, gateVars
<1>3. ASSUME NEW r \in Runs, NEW new \in Runs, ReviewRerun(r, new) PROVE Goal
  BY <1>1, <1>3 DEF ReviewRerun, gateVars
<1>4. ASSUME NEW r \in Runs, Cancel(r) \/ LeaseRejected(r) PROVE Goal
  <2>1. /\ \E s \in Statuses \ {"passed"} : status' = [status EXCEPT ![r] = s]
        /\ status[r] # "passed" /\ UNCHANGED <<req, score, projectStatus>>
        /\ FailPendingSubmission(r)
    BY <1>4 DEF Cancel, LeaseRejected
  <2>2. \E t : submission' = [submission EXCEPT ![r] = t]
    <3>1. submission' = submission \/ submission' = [submission EXCEPT ![r] = "failed"]
      BY <2>1 DEF FailPendingSubmission
    <3>2. submission = [submission EXCEPT ![r] = submission[r]]
      BY <1>0
    <3> QED BY <3>1, <3>2
  <2> QED BY <1>s, <2>1, <2>2
<1>5. ASSUME NEW r \in Runs, ReviewRun(r) \/ LeaseExpires(r) PROVE Goal
  BY <1>5, <1>i DEF ReviewRun, LeaseExpires, runVars, gateVars
<1>6. ASSUME NEW r \in Runs, ApproveSubmission(r) \/ RejectSubmission(r) PROVE Goal
  <2>1. Quiet /\ Same
    BY <1>0, <1>6 DEF ApproveSubmission, RejectSubmission, runVars, SamePassing, PassedSubmission
  <2> QED BY <2>1, <1>q
<1>7. ASSUME NEW c \in Creds, RevokeCredential(c) PROVE Goal
  BY <1>7, <1>i DEF RevokeCredential, runVars, gateVars
<1>8. ASSUME NEW p \in Projects, TeacherStep(p) PROVE Goal
  <2>1. UNCHANGED <<req, status, submission>>
    BY <1>8 DEF TeacherStep, CalculateScore, FreezeScore, PublishScore, runVars
  <2> QED BY <1>8, <2>1 DEF ScoreMove, SamePassing, PassedSubmission
<1>9. ASSUME NEW w \in Workers, NEW r \in Runs,
             Lease(w, r) \/ Start(w, r) \/ RecoverCommit(w, r)
      PROVE  Goal
  <2>1. /\ \E s \in Statuses \ {"passed"} : status' = [status EXCEPT ![r] = s]
        /\ status[r] # "passed" /\ UNCHANGED <<req, score, projectStatus>>
        /\ submission' \in {submission, [submission EXCEPT ![r] = "evaluating"]}
    BY <1>9 DEF Lease, Start, RecoverCommit, gateVars
  <2>2. \E t : submission' = [submission EXCEPT ![r] = t]
    BY <1>0, <2>1
  <2> QED BY <1>s, <2>1, <2>2
<1>11. ASSUME NEW w \in Workers, NEW r \in Runs,
              \/ Heartbeat(w, r) \/ LeaseCredential(w, r) \/ ReportSome(w, r)
              \/ RecoverClaim(w, r) \/ RecoverCleanupFailed(w, r)
       PROVE  Goal
  BY <1>11, <1>i DEF Heartbeat, LeaseCredential, ReportSome, ReportEvidence, RecoverClaim,
               RecoverCleanupFailed, runVars, gateVars
<1>12. ASSUME NEW w \in Workers, NEW r \in Runs, CompleteSome(w, r) PROVE Goal
  <2>1. PICK report \in Reports, records \in 0 .. Cardinality(Cases),
             objectCount \in 0 .. Cardinality(Labels) :
          \/ Complete(w, r, report[1], report[2], records, objectCount)
          \/ CompleteCancelled(w, r, report[1], records, objectCount)
    BY <1>12 DEF CompleteSome
  <2>2. CASE CompleteCancelled(w, r, report[1], records, objectCount)
    BY <1>i, <2>2 DEF CompleteCancelled, gateVars
  <2>3. CASE Complete(w, r, report[1], report[2], records, objectCount)
    <3> DEFINE final == IF report[1] = "passed" /\ MissingShowcase(r) # {} THEN "failed"
                        ELSE report[1]
    <3>1. /\ status' = [status EXCEPT ![r] = final] /\ SettleSubmission(r, final)
          /\ UNCHANGED <<req, evidence, projectStatus>>
      BY <2>3 DEF Complete, resultVars
    <3>2. final \in Terminal
      BY DEF Reports
    <3> HIDE DEF final
    <3>3. status[r] \in Active
      BY <1>0, <2>3, OwnersAssumption DEF Complete, MayComplete, OwnedWhileActive
    <3>4. CASE submission[r] = "none"
      <4>1. SamePassing /\ UNCHANGED score
        BY <1>0, <3>1, <3>4 DEF SettleSubmission, gateVars, SamePassing, PassedSubmission
      <4> QED BY <1>q, <3>1, <4>1
    <3>5. CASE submission[r] # "none"
      <4>1. PICK settled \in {"failed", "candidate", "complete"} :
              submission' = [submission EXCEPT ![r] = settled]
        BY <3>1, <3>5 DEF SettleSubmission
      <4>2. IF final = "passed" THEN DraftBaseline(req[r].project, status') ELSE UNCHANGED score
        BY <3>1, <3>5 DEF SettleSubmission
      <4>3. CASE final = "passed"
        <5>1. Drafts(r)
          BY <1>0, <3>1, <3>3, <4>1, <4>2, <4>3 DEF Drafts, PassedSubmission
        <5> QED BY <3>1, <5>1 DEF ScoreMove
      <4>4. CASE final # "passed"
        BY <1>s, <3>1, <3>2, <3>3, <4>1, <4>2, <4>4
      <4> QED BY <4>3, <4>4
    <3> QED BY <3>4, <3>5
  <2> QED BY <2>1, <2>2, <2>3
<1>13. CASE UNCHANGED vars
  BY <1>i, <1>13 DEF vars, runVars, gateVars
<1> HIDE DEF Goal
<1> QED
  BY <1>2, <1>3, <1>4, <1>5, <1>6, <1>7, <1>8, <1>9, <1>11, <1>12, <1>13
  DEF Next, ClientStep, WorkerStep

Bonus(p) == (IF Calculated(p) THEN 1 ELSE 0)
  + (CASE score[p].state = "frozen" -> 1 [] score[p].state = "published" -> 2 [] OTHER -> 0)

\* What a snapshot may rest on.
Rests(p) == \A r \in score[p].refs :
  /\ req[r].project = p /\ (req[r].scope = "final" \/ Calculated(p))
  /\ status[r] \in {"passed", "failed"} /\ Recorded(r) # {}
  /\ \A x \in score[p].refs : req[x].stage = req[r].stage => x = r

ScoreInv == \A p \in Projects :
  /\ score[p].version = Cardinality(Passing(p)) + Bonus(p)
  /\ Rests(p)
  /\ score[p].state = "none" => score[p].version = 0

LEMMA PassingFinite ==
  ASSUME NEW p
  PROVE  /\ IsFiniteSet(Passing(p)) /\ Cardinality(Passing(p)) \in Nat
BY RunsFinite, FS_Subset, FS_CardinalityType DEF Passing

\* The runs that a score is calculated from are what a snapshot may rest on.
LEMMA NewestRest ==
  ASSUME NEW p, NEW st, NEW scopes, NEW r \in NewestOfStage(Scoreable(p, st, scopes))
  PROVE  /\ r \in Runs /\ status[r] # "absent" /\ req[r].project = p /\ req[r].scope \in scopes
         /\ st[r] \in {"passed", "failed"} /\ Recorded(r) # {}
         /\ \A x \in NewestOfStage(Scoreable(p, st, scopes)) :
              req[x].stage = req[r].stage => x = r
<1>1. NewestOfStage(Scoreable(p, st, scopes)) \subseteq Scoreable(p, st, scopes)
  BY DEF NewestOfStage
<1>2. Scoreable(p, st, scopes) \subseteq Int
  BY RunsAssumption DEF Scoreable, Created
<1>3. ASSUME NEW x \in NewestOfStage(Scoreable(p, st, scopes)), req[x].stage = req[r].stage
      PROVE  x = r
  BY <1>1, <1>2, <1>3 DEF NewestOfStage
<1> QED BY <1>1, <1>3 DEF Scoreable, Created

LEMMA PassingMove ==
  ASSUME TypeInv, \A x \in Runs : status[x] # "absent" => req'[x] = req[x], NEW p
  PROVE  /\ SamePassing => Passing(p)' = Passing(p)
         /\ \A r \in Runs : Drafts(r) =>
              Cardinality(Passing(p)')
                = Cardinality(Passing(p)) + (IF req[r].project = p THEN 1 ELSE 0)
<1>0. \A x \in Runs : PassedSubmission(x) => status[x] # "absent"
  BY DEF PassedSubmission
<1>1. ASSUME SamePassing PROVE Passing(p)' = Passing(p)
  BY <1>0, <1>1 DEF SamePassing, Passing
<1>2. ASSUME NEW r \in Runs, Drafts(r)
      PROVE  Cardinality(Passing(p)')
               = Cardinality(Passing(p)) + (IF req[r].project = p THEN 1 ELSE 0)
  <2>1. CASE req[r].project = p
    <3>1. Passing(p)' = Passing(p) \cup {r} /\ r \notin Passing(p)
      BY <1>2, <2>1 DEF Drafts, Passing
    <3> QED BY <2>1, <3>1, PassingFinite, FS_AddElement
  <2>2. CASE req[r].project # p
    <3>1. Passing(p)' = Passing(p)
      BY <1>2, <2>2 DEF Drafts, Passing
    <3> QED BY <2>2, <3>1, PassingFinite
  <2> QED BY <2>1, <2>2
<1> QED BY <1>1, <1>2

LEMMA ScoreStep == TypeInv /\ OwnedWhileActive /\ ScoreInv /\ [Next]_vars => ScoreInv'
<1> SUFFICES ASSUME TypeInv, OwnedWhileActive, ScoreInv, [Next]_vars, NEW p \in Projects
             PROVE  /\ score'[p].version = Cardinality(Passing(p)') + Bonus(p)'
                    /\ Rests(p)'
                    /\ score'[p].state = "none" => score'[p].version = 0
  BY DEF ScoreInv
<1> DEFINE Same == \A x \in Runs : status[x] # "absent" => req'[x] = req[x]
<1>0. /\ score \in [Projects -> [version : Nat, state : ScoreStates, refs : SUBSET Runs]]
      /\ projectStatus \in [Projects -> {"provisioning", "active", "frozen", "graded", "archived"}]
      /\ status \in [Runs -> Statuses]
  BY DEF TypeInv, TypeOK
<1>1. ScoreMove /\ Same
  BY ScoreMoves
<1>2. /\ score[p].version = Cardinality(Passing(p)) + Bonus(p) /\ Rests(p)
      /\ score[p].state = "none" => score[p].version = 0
      /\ Cardinality(Passing(p)) \in Nat
  BY PassingFinite DEF ScoreInv
\* What a snapshot rests on has ended, so it stays what it is.
<1>3. ASSUME NEW r \in Runs, status[r] \in {"passed", "failed"}
      PROVE  status'[r] = status[r] /\ (Recorded(r)' = Recorded(r)) /\ req'[r] = req[r]
  <2>1. Untouched(r)
    BY <1>3, GuardedSteps DEF Guarded
  <2> QED BY <1>1, <1>3, <2>1 DEF Untouched, Recorded
<1>4. score[p].refs \subseteq Runs
  BY <1>0
<1>5. ASSUME score'[p].refs = score[p].refs, Calculated(p) => Calculated(p)' PROVE Rests(p)'
  BY <1>2, <1>3, <1>4, <1>5 DEF Rests
<1>6. CASE SamePassing /\ score'[p] = score[p] /\ projectStatus'[p] = projectStatus[p]
  <2>1. Passing(p)' = Passing(p)
    BY <1>1, <1>6, PassingMove
  <2>2. Bonus(p)' = Bonus(p) /\ (Calculated(p)' <=> Calculated(p))
    BY <1>6 DEF Bonus, Calculated
  <2> QED BY <1>2, <1>5, <1>6, <2>1, <2>2
<1>7. ASSUME SamePassing, CalculateScore(p)
      PROVE  /\ score'[p].version = Cardinality(Passing(p)') + Bonus(p)'
             /\ Rests(p)'
             /\ score'[p].state = "none" => score'[p].version = 0
  <2>1. Passing(p)' = Passing(p)
    BY <1>1, <1>7, PassingMove
  <2>2. /\ score'[p] = [version |-> 1, state |-> "draft", refs |-> CalculatedRuns(p)]
        /\ score[p].state = "none" /\ projectStatus[p] = "active" /\ projectStatus'[p] = "frozen"
    BY <1>0, <1>7 DEF CalculateScore
  <2>3. Bonus(p) = 0 /\ Bonus(p)' = 1 /\ Calculated(p)'
    BY <2>2 DEF Bonus, Calculated
  <2>4. Rests(p)'
    <3> SUFFICES ASSUME NEW r \in CalculatedRuns(p)
                 PROVE  /\ req'[r].project = p /\ status'[r] \in {"passed", "failed"}
                        /\ Recorded(r)' # {}
                        /\ \A x \in CalculatedRuns(p) : req'[x].stage = req'[r].stage => x = r
      BY <2>2, <2>3 DEF Rests
    <3> QED BY <1>3, NewestRest DEF CalculatedRuns
  <2> QED BY <1>2, <2>1, <2>2, <2>3, <2>4
<1>8. ASSUME SamePassing, FreezeScore(p) \/ PublishScore(p)
      PROVE  /\ score'[p].version = Cardinality(Passing(p)') + Bonus(p)'
             /\ Rests(p)'
             /\ score'[p].state = "none" => score'[p].version = 0
  <2>1. Passing(p)' = Passing(p)
    BY <1>1, <1>8, PassingMove
  <2>2. /\ score'[p].version = score[p].version + 1 /\ score'[p].refs = score[p].refs
        /\ \/ /\ score[p].state = "draft" /\ score'[p].state = "frozen"
              /\ projectStatus'[p] = projectStatus[p]
           \/ /\ score[p].state = "frozen" /\ score'[p].state = "published"
              /\ projectStatus[p] = "frozen" /\ projectStatus'[p] = "graded"
    BY <1>0, <1>8 DEF FreezeScore, PublishScore
  <2>3. Bonus(p)' = Bonus(p) + 1 /\ Bonus(p) \in Nat /\ (Calculated(p) => Calculated(p)')
    BY <2>2 DEF Bonus, Calculated
  <2> QED BY <1>2, <1>5, <2>1, <2>2, <2>3
<1>9. ASSUME NEW r \in Runs, Drafts(r)
      PROVE  /\ score'[p].version = Cardinality(Passing(p)') + Bonus(p)'
             /\ Rests(p)'
             /\ score'[p].state = "none" => score'[p].version = 0
  <2>1. /\ Cardinality(Passing(p)')
             = Cardinality(Passing(p)) + (IF req[r].project = p THEN 1 ELSE 0)
        /\ UNCHANGED <<req, evidence, projectStatus>>
    BY <1>1, <1>9, PassingMove DEF Drafts
  <2>2. CASE req[r].project # p
    <3>1. score'[p] = score[p]
      BY <1>0, <1>9, <2>2 DEF Drafts, DraftBaseline
    <3>2. Bonus(p)' = Bonus(p) /\ (Calculated(p)' <=> Calculated(p))
      BY <2>1, <3>1 DEF Bonus, Calculated
    <3> QED BY <1>2, <1>5, <2>1, <2>2, <3>1, <3>2
  <2>3. CASE req[r].project = p
    <3>1. /\ score[p].state \in {"none", "draft"}
          /\ score'[p] = [version |-> score[p].version + 1, state |-> "draft",
                          refs |-> GradedRuns(p, status')]
      BY <1>0, <1>9, <2>3 DEF Drafts, DraftBaseline
    <3>2. Bonus(p)' = Bonus(p) /\ Bonus(p) \in Nat
      BY <2>1, <3>1 DEF Bonus, Calculated
    <3>3. Rests(p)'
      <4> SUFFICES ASSUME NEW x \in GradedRuns(p, status')
                   PROVE  /\ req'[x].project = p /\ req'[x].scope = "final"
                          /\ status'[x] \in {"passed", "failed"} /\ Recorded(x)' # {}
                          /\ \A y \in GradedRuns(p, status') :
                               req'[y].stage = req'[x].stage => y = x
        BY <3>1 DEF Rests
      <4>1. Recorded(x)' = Recorded(x)
        BY <2>1 DEF Recorded
      <4> QED BY <2>1, <4>1, NewestRest DEF GradedRuns
    <3> QED BY <1>2, <2>1, <2>3, <3>1, <3>2, <3>3
  <2> QED BY <2>2, <2>3
<1>10. ASSUME SamePassing, NEW q \in Projects, q # p, TeacherStep(q)
       PROVE  score'[p] = score[p] /\ projectStatus'[p] = projectStatus[p]
  BY <1>0, <1>10 DEF TeacherStep, CalculateScore, FreezeScore, PublishScore
<1> QED BY <1>1, <1>6, <1>7, <1>8, <1>9, <1>10 DEF ScoreMove, TeacherStep

LEMMA ScoreInvariant == Spec => []ScoreInv
<1>1. Init => ScoreInv
  <2> SUFFICES ASSUME Init, NEW p \in Projects
               PROVE  /\ score[p].version = Cardinality(Passing(p)) + Bonus(p)
                      /\ Rests(p)
                      /\ score[p].state = "none" => score[p].version = 0
    BY DEF ScoreInv
  <2>1. Passing(p) = {}
    BY DEF Init, Passing, PassedSubmission
  <2>2. score[p] = NoScore /\ projectStatus[p] = "active"
    BY DEF Init
  <2>3. Bonus(p) = 0 /\ Rests(p)
    BY <2>2 DEF Bonus, Calculated, NoScore, Rests
  <2> QED BY <2>1, <2>2, <2>3, FS_EmptySet DEF NoScore
<1> QED BY <1>1, OwnershipInvariant, ScoreStep, PTL DEF Spec

\* The newest snapshot of a project counts what made snapshots, and rests on
\* ended runs of its own, one for each stage.
THEOREM DraftsRest == Spec => []DraftRestsOnFinalRuns
<1>1. TypeInv /\ ScoreInv => DraftRestsOnFinalRuns
  <2> SUFFICES ASSUME TypeInv, ScoreInv, NEW p \in Projects
               PROVE  score[p].version = SnapshotsOf(p) /\ Rests(p)
    BY DEF DraftRestsOnFinalRuns, Rests
  <2>1. SnapshotsOf(p) = Cardinality(Passing(p)) + Bonus(p)
    <3>1. Passing(p) = {r \in Runs : /\ submission[r] # "none" /\ status[r] = "passed"
                                     /\ req[r].project = p}
      BY DEF Passing, PassedSubmission
    <3>2. Cardinality(Passing(p)) \in Nat
      BY PassingFinite
    <3> QED BY <3>1, <3>2 DEF SnapshotsOf, Bonus
  <2> QED BY <2>1 DEF ScoreInv
<1> QED BY <1>1, OwnershipInvariant, ScoreInvariant, PTL
-----------------------------------------------------------------------------
(***************************************************************************)
(* PipelineRuns implements RunLifecycle: initial states map to initial      *)
(* states, and every transaction maps to one step of one run or to none.    *)
(***************************************************************************)
\* Equal counts mean what MayComplete relies on: if every recorded case counts
\* as passed and there is one, then some case passes and none fails.
LEMMA CountsBackVerdict ==
  ASSUME NEW r \in Runs, evidence[r] \in [Cases -> {"none", "pass", "fail"}],
         Total(r) > 0, Passed(r) = Total(r)
  PROVE  L!Backed(evidence[r])
<1> DEFINE passing == {c \in Cases : evidence[r][c] = "pass"}
<1>1. IsFiniteSet(Recorded(r)) /\ passing \in SUBSET Recorded(r)
  BY FinitenessAssumption, FS_Subset DEF Recorded
<1>2. passing = Recorded(r)
  BY <1>1, FS_Subset DEF Passed, Total
<1>3. Recorded(r) # {}
  BY FS_EmptySet DEF Total
<1> QED BY <1>2, <1>3 DEF L!Backed, Recorded

LEMMA RefinementInit == Init => L!Init
BY DEF Init, L!Init, LifecycleState

\* The abstract state of a run changes when its row does.
LEMMA LifecycleOf ==
  ASSUME TypeInv, NEW r \in Runs, NEW s \in Statuses, status' = [status EXCEPT ![r] = s]
  PROVE  LifecycleState' = [LifecycleState EXCEPT ![r] = IF s \in Active THEN "claimed" ELSE s]
<1>1. status \in [Runs -> Statuses]
  BY DEF TypeInv, TypeOK
<1> QED BY <1>1 DEF LifecycleState

LEMMA LifecycleFunction ==
  ASSUME TypeInv, NEW r \in Runs
  PROVE  /\ status[r] \in {"absent", "queued"} \cup Terminal => LifecycleState[r] = status[r]
         /\ status[r] \in Active => LifecycleState[r] = "claimed"
         /\ LifecycleState \in [Runs -> L!States]
<1>1. status \in [Runs -> Statuses]
  BY DEF TypeInv, TypeOK
<1> QED BY <1>1 DEF LifecycleState, L!States, L!Verdicts

LEMMA RefinementStep ==
  ASSUME TypeInv, OwnedWhileActive, [Next]_vars
  PROVE  [L!Next]_L!vars
<1> DEFINE Quiet == UNCHANGED <<status, evidence>>
<1>0. status \in [Runs -> Statuses] /\ lease_owner \in [Runs -> Owners]
  BY DEF TypeInv, TypeOK
<1>q. ASSUME Quiet PROVE UNCHANGED L!vars
  BY <1>q DEF L!vars, LifecycleState
<1>r. ASSUME NEW r \in Runs,
             L!Create(r) \/ L!Claim(r) \/ L!Record(r) \/ L!Refuse(r) \/ L!Close(r)
      PROVE  L!Next
  BY <1>r DEF L!Next
<1>1. ASSUME NEW r \in Runs, NEW q, InsertRun(r, q), UNCHANGED evidence PROVE L!Create(r)
  BY <1>1, LifecycleOf, LifecycleFunction DEF L!Create, InsertRun, Fresh
<1>2. ASSUME NEW r \in Runs, Trigger(r) \/ Submit(r) PROVE L!Create(r)
  BY <1>1, <1>2 DEF Trigger, Submit, resultVars
<1>3. ASSUME NEW r \in Runs, NEW new \in Runs, ReviewRerun(r, new) PROVE L!Create(new)
  BY <1>1, <1>3 DEF ReviewRerun, resultVars
<1>4. ASSUME NEW r \in Runs, Cancel(r) PROVE L!Refuse(r) \/ L!Close(r)
  BY <1>4, LifecycleOf, LifecycleFunction
  DEF Cancel, L!Refuse, L!Close, L!Verdicts, resultVars
<1>5. ASSUME NEW r \in Runs, LeaseRejected(r) PROVE L!Refuse(r)
  BY <1>5, LifecycleOf, LifecycleFunction DEF LeaseRejected, L!Refuse, resultVars
<1>6. ASSUME NEW w \in Workers, NEW r \in Runs, Lease(w, r) PROVE L!Claim(r)
  BY <1>6, LifecycleOf, LifecycleFunction DEF Lease, L!Claim, resultVars
<1>7. ASSUME NEW w \in Workers, NEW r \in Runs, Start(w, r) PROVE UNCHANGED L!vars
  <2>1. LifecycleState' = [LifecycleState EXCEPT ![r] = "claimed"]
    BY <1>7, LifecycleOf DEF Start
  <2>2. LifecycleState[r] = "claimed" /\ LifecycleState \in [Runs -> L!States]
    BY <1>7, LifecycleFunction DEF Start
  <2> QED BY <1>7, <2>1, <2>2 DEF Start, resultVars, L!vars
<1>8. ASSUME NEW w \in Workers, NEW r \in Runs, ReportSome(w, r) PROVE L!Record(r)
  <2>1. PICK reported \in [Cases -> {"none", "pass", "fail"}], labels \in SUBSET Labels :
          ReportEvidence(w, r, reported, labels)
    BY <1>8 DEF ReportSome
  <2> DEFINE new == [c \in Cases |-> IF evidence[r][c] = "none" THEN reported[c]
                                     ELSE evidence[r][c]]
  <2>2. evidence[r] \in [Cases -> {"none", "pass", "fail"}]
    BY DEF TypeInv, TypeOK
  <2>3. /\ new \in [Cases -> L!Results]
        /\ \A c \in Cases : evidence[r][c] # "none" => new[c] = evidence[r][c]
    BY <2>2 DEF L!Results
  <2>4. evidence' = [evidence EXCEPT ![r] = new] /\ UNCHANGED status /\ status[r] \in Active
    BY <2>1 DEF ReportEvidence, runVars
  <2>5. UNCHANGED LifecycleState /\ LifecycleState[r] = "claimed"
    BY <2>4, LifecycleFunction DEF LifecycleState
  <2> HIDE DEF new
  <2> QED BY <2>3, <2>4, <2>5 DEF L!Record
<1>9. ASSUME NEW w \in Workers, NEW r \in Runs, CompleteSome(w, r)
      PROVE  L!Close(r) \/ UNCHANGED L!vars
  <2>1. PICK report \in Reports, records \in 0 .. Cardinality(Cases),
             objectCount \in 0 .. Cardinality(Labels) :
          \/ Complete(w, r, report[1], report[2], records, objectCount)
          \/ CompleteCancelled(w, r, report[1], records, objectCount)
    BY <1>9 DEF CompleteSome
  <2>2. CASE CompleteCancelled(w, r, report[1], records, objectCount)
    BY <1>q, <2>2 DEF CompleteCancelled, resultVars
  <2>3. CASE Complete(w, r, report[1], report[2], records, objectCount)
    <3> DEFINE final == IF report[1] = "passed" /\ MissingShowcase(r) # {} THEN "failed"
                        ELSE report[1]
    <3>1. /\ MayComplete(w, r, report[1], records, objectCount)
          /\ status[r] # "cancelled"
          /\ status' = [status EXCEPT ![r] = final]
          /\ UNCHANGED evidence
      BY <2>3 DEF Complete, resultVars
    <3>2. final \in L!Verdicts /\ (final = "passed" => report[1] = "passed")
      BY DEF Reports, L!Verdicts
    <3>3. final = "passed" => L!Backed(evidence[r])
      <4>1. evidence[r] \in [Cases -> {"none", "pass", "fail"}]
        BY DEF TypeInv, TypeOK
      <4> QED BY <3>1, <3>2, <4>1, CountsBackVerdict DEF MayComplete
    <3>4. status[r] \in Active
      BY <1>0, <3>1, OwnersAssumption DEF MayComplete, OwnedWhileActive
    <3> HIDE DEF final
    <3>5. LifecycleState' = [LifecycleState EXCEPT ![r] = final]
      BY <3>1, <3>2, LifecycleOf DEF L!Verdicts
    <3>6. LifecycleState[r] = "claimed"
      BY <3>4, LifecycleFunction
    <3> QED BY <3>1, <3>2, <3>3, <3>5, <3>6 DEF L!Close
  <2> QED BY <2>1, <2>2, <2>3
<1>10. ASSUME NEW w \in Workers, NEW r \in Runs, RecoverCommit(w, r) PROVE L!Close(r)
  <2>1. LifecycleState' = [LifecycleState EXCEPT ![r] = "failed"]
    BY <1>10, LifecycleOf DEF RecoverCommit
  <2>2. LifecycleState[r] = "claimed"
    BY <1>10, LifecycleFunction DEF RecoverCommit
  <2> QED BY <1>10, <2>1, <2>2 DEF RecoverCommit, resultVars, L!Close, L!Verdicts
<1>11. ASSUME NEW r \in Runs,
              ReviewRun(r) \/ ApproveSubmission(r) \/ RejectSubmission(r) \/ LeaseExpires(r)
       PROVE  Quiet
  BY <1>11 DEF ReviewRun, ApproveSubmission, RejectSubmission, LeaseExpires, runVars, resultVars
<1>12. ASSUME NEW c \in Creds, RevokeCredential(c) PROVE Quiet
  BY <1>12 DEF RevokeCredential, runVars, resultVars
<1>p. ASSUME NEW p \in Projects, TeacherStep(p) PROVE Quiet
  BY <1>p DEF TeacherStep, CalculateScore, FreezeScore, PublishScore, runVars, resultVars
<1>13. ASSUME NEW w \in Workers, NEW r \in Runs,
              \/ Heartbeat(w, r) \/ LeaseCredential(w, r)
              \/ RecoverClaim(w, r) \/ RecoverCleanupFailed(w, r)
       PROVE  Quiet
  BY <1>13 DEF Heartbeat, LeaseCredential, RecoverClaim, RecoverCleanupFailed, runVars, resultVars
<1>14. CASE UNCHANGED vars
  BY <1>q, <1>14 DEF vars, runVars, resultVars
<1> QED
  BY <1>q, <1>r, <1>2, <1>3, <1>4, <1>5, <1>6, <1>7, <1>8, <1>9, <1>10, <1>11, <1>12, <1>p, <1>13, <1>14
  DEF Next, ClientStep, WorkerStep

\* The portal's runs are runs as RunLifecycle promises them.
THEOREM PipelineRunsImplementRunLifecycle == Spec => ImplementsRunLifecycle
BY RefinementInit, RefinementStep, OwnershipInvariant, PTL DEF Spec, ImplementsRunLifecycle, L!Spec

-----------------------------------------------------------------------------
(***************************************************************************)
(* PipelineRuns implements ScoreLifecycle.  A step begins or ends the      *)
(* evaluation of at most one submission, and only the end drafts.          *)
(***************************************************************************)
UnderWay(r) == submission[r] # "none" /\ status[r] \in {"queued"} \cup Active
OthersUnderWay(r) == \A x \in Runs \ {r} : UnderWay(x)' = UnderWay(x)
SameUnderWay == \A x \in Runs : UnderWay(x)' = UnderWay(x)

BeginsEvaluation(r) ==
  /\ status[r] = "absent" /\ UnderWay(r)' /\ OthersUnderWay(r)
  /\ req'[r] \in Requests /\ projectStatus[req'[r].project] = "active"
  /\ UNCHANGED <<score, projectStatus>>

EndsEvaluation(r) ==
  /\ UnderWay(r) /\ ~UnderWay(r)' /\ OthersUnderWay(r)
  /\ score' = score \/ DraftBaseline(req[r].project, status')
  /\ UNCHANGED projectStatus

GradeMove == \/ SameUnderWay /\ UNCHANGED <<score, projectStatus>>
             \/ SameUnderWay /\ \E p \in Projects : TeacherStep(p)
             \/ \E r \in Runs : BeginsEvaluation(r) \/ EndsEvaluation(r)

LEMMA GradeMoves ==
  ASSUME TypeInv, OwnedWhileActive, [Next]_vars
  PROVE  GradeMove
<1> DEFINE Quiet == SameUnderWay /\ UNCHANGED <<score, projectStatus>>
<1>0. /\ status \in [Runs -> Statuses] /\ lease_owner \in [Runs -> Owners]
      /\ req \in [Runs -> Requests \cup {NoRequest}]
      /\ submission \in [Runs -> SubmissionStates]
      /\ \A r \in Runs : submission[r] # "none" => status[r] # "absent"
  BY DEF TypeInv, TypeOK, RunsHaveRequests, SubmissionStates
<1>q. ASSUME Quiet PROVE GradeMove
  BY <1>q DEF GradeMove
<1>i. ASSUME UNCHANGED <<status, submission, score, projectStatus>> PROVE GradeMove
  BY <1>i, <1>q DEF SameUnderWay, UnderWay
\* A step that moves one run and its submission, and no score.
<1>s. ASSUME NEW r \in Runs, NEW s \in Statuses, NEW t \in SubmissionStates,
             status[r] \in {"queued"} \cup Active, UNCHANGED <<score, projectStatus>>,
             status' = [status EXCEPT ![r] = s], submission' = [submission EXCEPT ![r] = t],
             t = "none" <=> submission[r] = "none"
      PROVE  GradeMove
  <2>1. OthersUnderWay(r)
    BY <1>0, <1>s DEF OthersUnderWay, UnderWay
  <2>2. CASE s \in {"queued"} \cup Active
    <3>1. UnderWay(r)' = UnderWay(r)
      BY <1>0, <1>s, <2>2 DEF UnderWay
    <3> QED BY <1>q, <1>s, <2>1, <3>1 DEF OthersUnderWay, SameUnderWay
  <2>3. CASE s \notin {"queued"} \cup Active /\ submission[r] = "none"
    <3>1. UnderWay(r)' = UnderWay(r)
      BY <1>0, <1>s, <2>3 DEF UnderWay
    <3> QED BY <1>q, <1>s, <2>1, <3>1 DEF OthersUnderWay, SameUnderWay
  <2>4. CASE s \notin {"queued"} \cup Active /\ submission[r] # "none"
    <3>1. EndsEvaluation(r)
      BY <1>0, <1>s, <2>1, <2>4 DEF EndsEvaluation, UnderWay
    <3> QED BY <3>1 DEF GradeMove
  <2> QED BY <2>2, <2>3, <2>4
<1>1. ASSUME NEW r \in Runs, NEW q, InsertRun(r, q), UNCHANGED <<submission, score, projectStatus>>
      PROVE  GradeMove
  <2>1. SameUnderWay
    BY <1>0, <1>1 DEF InsertRun, Fresh, SameUnderWay, UnderWay
  <2> QED BY <1>1, <1>q, <2>1
<1>2. ASSUME NEW r \in Runs, Trigger(r) PROVE GradeMove
  BY <1>1, <1>2 DEF Trigger, gateVars
<1>3. ASSUME NEW r \in Runs, Submit(r) PROVE GradeMove
  <2>1. PICK q \in SubmitInputs :
          /\ projectStatus[q.project] = "active" /\ InsertRun(r, q)
          /\ submission' = [submission EXCEPT ![r] = "queued"]
          /\ UNCHANGED <<score, projectStatus>>
    BY <1>3 DEF Submit
  <2>2. q \in Requests
    BY InputsAssumption
  <2>3. BeginsEvaluation(r)
    BY <1>0, <2>1, <2>2 DEF BeginsEvaluation, InsertRun, Fresh, UnderWay, OthersUnderWay
  <2> QED BY <2>3 DEF GradeMove
<1>4. ASSUME NEW r \in Runs, NEW new \in Runs, ReviewRerun(r, new) PROVE GradeMove
  BY <1>1, <1>4 DEF ReviewRerun, gateVars
<1>5. ASSUME NEW r \in Runs, Cancel(r) \/ LeaseRejected(r) PROVE GradeMove
  <2>1. /\ \E s \in Statuses : status' = [status EXCEPT ![r] = s]
        /\ status[r] \in {"queued"} \cup Active /\ UNCHANGED <<score, projectStatus>>
        /\ FailPendingSubmission(r)
    BY <1>5 DEF Cancel, LeaseRejected
  <2>2. \E t \in SubmissionStates : /\ submission' = [submission EXCEPT ![r] = t]
                                    /\ t = "none" <=> submission[r] = "none"
    <3>1. CASE submission[r] \in {"queued", "evaluating"}
      BY <2>1, <3>1 DEF FailPendingSubmission, SubmissionStates
    <3>2. CASE submission[r] \notin {"queued", "evaluating"}
      <4>1. submission' = [submission EXCEPT ![r] = submission[r]]
        BY <1>0, <2>1, <3>2 DEF FailPendingSubmission
      <4> QED BY <1>0, <4>1
    <3> QED BY <3>1, <3>2
  <2> QED BY <1>s, <2>1, <2>2
<1>6. ASSUME NEW r \in Runs, ReviewRun(r) \/ LeaseExpires(r) PROVE GradeMove
  BY <1>6, <1>i DEF ReviewRun, LeaseExpires, runVars, gateVars
<1>7. ASSUME NEW r \in Runs, ApproveSubmission(r) \/ RejectSubmission(r) PROVE GradeMove
  <2>1. SameUnderWay /\ UNCHANGED <<score, projectStatus>>
    BY <1>0, <1>7 DEF ApproveSubmission, RejectSubmission, runVars, SameUnderWay, UnderWay
  <2> QED BY <2>1, <1>q
<1>8. ASSUME NEW c \in Creds, RevokeCredential(c) PROVE GradeMove
  BY <1>8, <1>i DEF RevokeCredential, runVars, gateVars
<1>9. ASSUME NEW p \in Projects, TeacherStep(p) PROVE GradeMove
  <2>1. UNCHANGED <<status, submission>>
    BY <1>9 DEF TeacherStep, CalculateScore, FreezeScore, PublishScore, runVars
  <2> QED BY <1>9, <2>1 DEF GradeMove, SameUnderWay, UnderWay
<1>10. ASSUME NEW w \in Workers, NEW r \in Runs, Lease(w, r) \/ RecoverCommit(w, r)
       PROVE  GradeMove
  <2>1. /\ \E s \in Statuses : status' = [status EXCEPT ![r] = s]
        /\ status[r] \in {"queued"} \cup Active
        /\ UNCHANGED <<submission, score, projectStatus>>
    BY <1>10 DEF Lease, RecoverCommit, gateVars
  <2>2. submission' = [submission EXCEPT ![r] = submission[r]]
    BY <1>0, <2>1
  <2> QED BY <1>0, <1>s, <2>1, <2>2
<1>11. ASSUME NEW w \in Workers, NEW r \in Runs, Start(w, r) PROVE GradeMove
  <2>1. SameUnderWay /\ UNCHANGED <<score, projectStatus>>
    BY <1>0, <1>11 DEF Start, SameUnderWay, UnderWay
  <2> QED BY <1>q, <2>1
<1>12. ASSUME NEW w \in Workers, NEW r \in Runs,
              \/ Heartbeat(w, r) \/ LeaseCredential(w, r) \/ ReportSome(w, r)
              \/ RecoverClaim(w, r) \/ RecoverCleanupFailed(w, r)
       PROVE  GradeMove
  BY <1>12, <1>i DEF Heartbeat, LeaseCredential, ReportSome, ReportEvidence, RecoverClaim,
               RecoverCleanupFailed, runVars, gateVars
<1>13. ASSUME NEW w \in Workers, NEW r \in Runs, CompleteSome(w, r) PROVE GradeMove
  <2>1. PICK report \in Reports, records \in 0 .. Cardinality(Cases),
             objectCount \in 0 .. Cardinality(Labels) :
          \/ Complete(w, r, report[1], report[2], records, objectCount)
          \/ CompleteCancelled(w, r, report[1], records, objectCount)
    BY <1>13 DEF CompleteSome
  <2>2. CASE CompleteCancelled(w, r, report[1], records, objectCount)
    BY <1>i, <2>2 DEF CompleteCancelled, gateVars
  <2>3. CASE Complete(w, r, report[1], report[2], records, objectCount)
    <3> DEFINE final == IF report[1] = "passed" /\ MissingShowcase(r) # {} THEN "failed"
                        ELSE report[1]
    <3>1. /\ status' = [status EXCEPT ![r] = final] /\ SettleSubmission(r, final)
          /\ UNCHANGED projectStatus
      BY <2>3 DEF Complete
    <3>2. final \in Terminal
      BY DEF Reports
    <3> HIDE DEF final
    <3>3. status[r] \in Active
      BY <1>0, <2>3, OwnersAssumption DEF Complete, MayComplete, OwnedWhileActive
    <3>4. CASE submission[r] = "none"
      <4>1. SameUnderWay /\ UNCHANGED score
        BY <1>0, <3>1, <3>4 DEF SettleSubmission, gateVars, SameUnderWay, UnderWay
      <4> QED BY <1>q, <3>1, <4>1
    <3>5. CASE submission[r] # "none"
      <4>1. PICK settled \in {"failed", "candidate", "complete"} :
              submission' = [submission EXCEPT ![r] = settled]
        BY <3>1, <3>5 DEF SettleSubmission
      <4>2. score' = score \/ DraftBaseline(req[r].project, status')
        BY <3>1, <3>5 DEF SettleSubmission
      <4>3. EndsEvaluation(r)
        BY <1>0, <3>1, <3>2, <3>3, <3>5, <4>1, <4>2 DEF EndsEvaluation, UnderWay, OthersUnderWay
      <4> QED BY <4>3 DEF GradeMove
    <3> QED BY <3>4, <3>5
  <2> QED BY <2>1, <2>2, <2>3
<1>14. CASE UNCHANGED vars
  BY <1>i, <1>14 DEF vars, runVars, gateVars
<1> QED
  BY <1>2, <1>3, <1>4, <1>5, <1>6, <1>7, <1>8, <1>9, <1>10, <1>11, <1>12, <1>13, <1>14
  DEF Next, ClientStep, WorkerStep

LEMMA EvaluatingFinite ==
  ASSUME NEW p
  PROVE  /\ IsFiniteSet(Evaluating(p)) /\ Cardinality(Evaluating(p)) \in Nat
         /\ \A r : r \in Evaluating(p) <=> r \in Runs /\ UnderWay(r) /\ req[r].project = p
<1>1. Evaluating(p) \in SUBSET Runs
  BY DEF Evaluating
<1>2. IsFiniteSet(Evaluating(p)) /\ Cardinality(Evaluating(p)) \in Nat
  BY <1>1, RunsFinite, FS_Subset, FS_CardinalityType
<1> QED BY <1>2 DEF Evaluating, UnderWay

LEMMA CountAtOne ==
  ASSUME NEW f \in [Projects -> Nat], NEW g \in [Projects -> Nat], NEW q \in Projects, NEW n \in Nat,
         g[q] = n, \A p \in Projects \ {q} : g[p] = f[p]
  PROVE  g = [f EXCEPT ![q] = n]
OBVIOUS

\* The count of a project's evaluations follows the moves.
LEMMA EvaluatingMoves ==
  ASSUME TypeInv, \A x \in Runs : status[x] # "absent" => req'[x] = req[x]
  PROVE  /\ SameUnderWay => OpenSubmissions' = OpenSubmissions
         /\ \A r \in Runs : BeginsEvaluation(r) =>
              \E q \in Projects : /\ q = req'[r].project
                                  /\ OpenSubmissions' = [OpenSubmissions EXCEPT ![q] = @ + 1]
         /\ \A r \in Runs : EndsEvaluation(r) =>
              /\ OpenSubmissions[req[r].project] > 0
              /\ OpenSubmissions' = [OpenSubmissions EXCEPT ![req[r].project] = @ - 1]
<1>0. \A x \in Runs : UnderWay(x) => req[x] \in Requests /\ req'[x] = req[x]
  BY DEF UnderWay, TypeInv, RunsHaveRequests
<1>q. \A q \in Requests : q.project \in Projects
  BY DEF Requests
<1>f. ASSUME NEW p
      PROVE  /\ IsFiniteSet(Evaluating(p)) /\ Cardinality(Evaluating(p)) \in Nat
             /\ \A r : r \in Evaluating(p) <=> r \in Runs /\ UnderWay(r) /\ req[r].project = p
             /\ \A r : r \in Evaluating(p)' <=> r \in Runs /\ UnderWay(r)' /\ req'[r].project = p
  <2>1. \A r : r \in Evaluating(p)' <=> r \in Runs /\ UnderWay(r)' /\ req'[r].project = p
    BY DEF Evaluating, UnderWay
  <2> QED BY <2>1, EvaluatingFinite
<1>o. /\ OpenSubmissions \in [Projects -> Nat] /\ OpenSubmissions' \in [Projects -> Nat]
      /\ \A p \in Projects : /\ OpenSubmissions[p] = Cardinality(Evaluating(p))
                            /\ OpenSubmissions'[p] = Cardinality(Evaluating(p)')
  <2>1. \A p : Cardinality(Evaluating(p)') \in Nat
    <3> TAKE p
    <3>1. Evaluating(p)' \in SUBSET Runs
      BY DEF Evaluating
    <3> QED BY <3>1, RunsFinite, FS_Subset, FS_CardinalityType
  <2> QED BY <1>f, <2>1 DEF OpenSubmissions
<1>1. ASSUME SameUnderWay PROVE OpenSubmissions' = OpenSubmissions
  <2>1. \A p : Evaluating(p)' = Evaluating(p)
    BY <1>0, <1>1, <1>f DEF SameUnderWay
  <2> QED BY <2>1 DEF OpenSubmissions
<1>u. ASSUME NEW q \in Projects, NEW n \in Nat, Cardinality(Evaluating(q)') = n,
             \A p \in Projects \ {q} : Evaluating(p)' = Evaluating(p)
      PROVE  OpenSubmissions' = [OpenSubmissions EXCEPT ![q] = n]
  <2>1. OpenSubmissions'[q] = n /\ \A p \in Projects \ {q} : OpenSubmissions'[p] = OpenSubmissions[p]
    BY <1>o, <1>u
  <2> QED BY <1>o, <2>1, CountAtOne
<1>2. ASSUME NEW r \in Runs, BeginsEvaluation(r), NEW q \in Projects, q = req'[r].project
      PROVE  OpenSubmissions' = [OpenSubmissions EXCEPT ![q] = OpenSubmissions[q] + 1]
  <2>1. ~UnderWay(r) /\ UnderWay(r)' /\ OthersUnderWay(r)
    BY <1>2 DEF BeginsEvaluation, UnderWay
  <2>2. \A x \in Runs \ {r} : UnderWay(x)' = UnderWay(x) /\ (UnderWay(x) => req'[x] = req[x])
    BY <1>0, <2>1 DEF OthersUnderWay
  <2>3. Evaluating(q)' = Evaluating(q) \cup {r} /\ r \notin Evaluating(q)
    <3>1. \A x : x \in Evaluating(q)' <=> x \in Evaluating(q) \/ x = r
      BY <1>2, <1>f, <2>1, <2>2
    <3>2. r \notin Evaluating(q)
      BY <1>f, <2>1
    <3> QED BY <3>1, <3>2
  <2>4. Cardinality(Evaluating(q)') = OpenSubmissions[q] + 1
    <3>1. IsFiniteSet(Evaluating(q))
      BY <1>f
    <3>2. Cardinality(Evaluating(q) \cup {r}) = Cardinality(Evaluating(q)) + 1
      BY <2>3, <3>1, FS_AddElement
    <3> QED BY <1>o, <2>3, <3>2
  <2>5. \A p \in Projects \ {q} : Evaluating(p)' = Evaluating(p)
    <3> TAKE p \in Projects \ {q}
    <3>1. \A x : x \in Evaluating(p)' <=> x \in Evaluating(p)
      BY <1>2, <1>f, <2>1, <2>2
    <3> QED BY <3>1
  <2>6. OpenSubmissions[q] + 1 \in Nat
    BY <1>o
  <2> QED BY <1>u, <2>4, <2>5, <2>6
<1>3. ASSUME NEW r \in Runs, EndsEvaluation(r), NEW q \in Projects, q = req[r].project
      PROVE  /\ OpenSubmissions[q] > 0
             /\ OpenSubmissions' = [OpenSubmissions EXCEPT ![q] = OpenSubmissions[q] - 1]
  <2>1. UnderWay(r) /\ ~UnderWay(r)' /\ OthersUnderWay(r)
    BY <1>3 DEF EndsEvaluation
  <2>2. \A x \in Runs \ {r} : UnderWay(x)' = UnderWay(x) /\ (UnderWay(x) => req'[x] = req[x])
    BY <1>0, <2>1 DEF OthersUnderWay
  <2>3. Evaluating(q)' = Evaluating(q) \ {r} /\ r \in Evaluating(q)
    BY <1>3, <1>f, <2>1, <2>2
  <2>4. Cardinality(Evaluating(q)') = OpenSubmissions[q] - 1
    BY <1>f, <1>o, <2>3, FS_RemoveElement
  <2>5. OpenSubmissions[q] > 0 /\ OpenSubmissions[q] - 1 \in Nat
    <3>1. Cardinality(Evaluating(q)) # 0
      BY <1>f, <2>3, FS_EmptySet
    <3> QED BY <1>o, <3>1
  <2>6. \A p \in Projects \ {q} : Evaluating(p)' = Evaluating(p)
    <3> TAKE p \in Projects \ {q}
    <3>1. \A x : x \in Evaluating(p)' <=> x \in Evaluating(p)
      BY <1>3, <1>f, <2>1, <2>2
    <3> QED BY <3>1
  <2> QED BY <1>u, <2>4, <2>5, <2>6
<1>4. ASSUME NEW r \in Runs, BeginsEvaluation(r)
      PROVE  \E q \in Projects : /\ q = req'[r].project
                                 /\ OpenSubmissions' = [OpenSubmissions EXCEPT ![q] = @ + 1]
  <2>1. req'[r].project \in Projects
    BY <1>4, <1>q DEF BeginsEvaluation
  <2> QED BY <1>2, <1>4, <2>1
<1>5. ASSUME NEW r \in Runs, EndsEvaluation(r)
      PROVE  /\ OpenSubmissions[req[r].project] > 0
             /\ OpenSubmissions' = [OpenSubmissions EXCEPT ![req[r].project] = @ - 1]
  <2>1. req[r].project \in Projects
    BY <1>0, <1>5, <1>q DEF EndsEvaluation
  <2> QED BY <1>3, <1>5, <2>1
<1> QED BY <1>1, <1>4, <1>5

LEMMA ScoreRefinementInit == Init => Scores!Init
<1> SUFFICES ASSUME Init PROVE Scores!Init
  OBVIOUS
<1>1. \A p : Evaluating(p) = {}
  BY DEF Init, Evaluating
<1>2. OpenSubmissions = [p \in Projects |-> 0]
  BY <1>1, FS_EmptySet DEF OpenSubmissions
<1>3. StateOfScore = [p \in Projects |-> "none"] /\ VersionOfScore = [p \in Projects |-> 0]
  BY DEF Init, StateOfScore, VersionOfScore, NoScore
<1> QED BY <1>2, <1>3 DEF Init, Scores!Init

LEMMA ScoreAmended ==
  ASSUME NEW rec \in [version : Nat, state : ScoreStates, refs : SUBSET Runs], NEW v, NEW s
  PROVE  /\ [rec EXCEPT !.version = v, !.state = s].version = v
         /\ [rec EXCEPT !.version = v, !.state = s].state = s
OBVIOUS

\* A snapshot more is a snapshot more.
LEMMA ScoreSnapshot ==
  ASSUME TypeInv, NEW p \in Projects, NEW s \in ScoreStates, NEW new,
         new.version = score[p].version + 1, new.state = s, score' = [score EXCEPT ![p] = new]
  PROVE  Scores!Snapshot(p, s)
BY DEF TypeInv, TypeOK, Scores!Snapshot, StateOfScore, VersionOfScore

LEMMA ScoreRefinementStep ==
  ASSUME TypeInv, OwnedWhileActive, ScoreInv, [Next]_vars
  PROVE  [Scores!Next]_(Scores!vars)
<1>0. /\ score \in [Projects -> [version : Nat, state : ScoreStates, refs : SUBSET Runs]]
      /\ \A p \in Projects : StateOfScore[p] = score[p].state /\ VersionOfScore[p] = score[p].version
      /\ \A p \in Projects : score[p].state = "none" => score[p].version = 0
      /\ \A r \in Runs : UnderWay(r) => req[r].project \in Projects
      /\ {"none", "draft", "frozen", "published"} = ScoreStates
  BY DEF TypeInv, TypeOK, StateOfScore, VersionOfScore, ScoreInv, UnderWay, RunsHaveRequests, Requests,
     ScoreStates
<1>m. GradeMove /\ \A x \in Runs : status[x] # "absent" => req'[x] = req[x]
  BY GradeMoves, ScoreMoves
<1>k. ASSUME UNCHANGED score PROVE UNCHANGED <<StateOfScore, VersionOfScore>>
  BY <1>k DEF StateOfScore, VersionOfScore
<1>s. ASSUME NEW p \in Projects, Scores!Step(p) PROVE Scores!Next
  BY <1>s DEF Scores!Next
<1>1. CASE SameUnderWay /\ UNCHANGED <<score, projectStatus>>
  BY <1>1, <1>k, <1>m, EvaluatingMoves DEF Scores!vars
<1>2. ASSUME SameUnderWay, NEW p \in Projects, TeacherStep(p) PROVE Scores!Step(p)
  <2>1. UNCHANGED OpenSubmissions
    BY <1>2, <1>m, EvaluatingMoves
  <2>2. CASE CalculateScore(p)
    <3>1. /\ projectStatus[p] = "active" /\ score[p].version = 0
          /\ projectStatus' = [projectStatus EXCEPT ![p] = "frozen"]
          /\ score' = [score EXCEPT ![p] = [version |-> 1, state |-> "draft", refs |-> CalculatedRuns(p)]]
      BY <1>0, <2>2 DEF CalculateScore
    <3>2. score' = [score EXCEPT ![p] = [version |-> score[p].version + 1, state |-> "draft",
                                         refs |-> CalculatedRuns(p)]]
      BY <3>1
    <3>3. Scores!Snapshot(p, "draft")
      <4> DEFINE new == [version |-> score[p].version + 1, state |-> "draft", refs |-> CalculatedRuns(p)]
      <4>1. new.version = score[p].version + 1 /\ new.state = "draft"
        OBVIOUS
      <4> HIDE DEF new
      <4>2. score' = [score EXCEPT ![p] = new]
        BY <3>2 DEF new
      <4> QED BY <1>0, <4>1, <4>2, ScoreSnapshot
    <3> QED BY <1>0, <2>1, <3>1, <3>3 DEF Scores!Step, Scores!Calculate
  <2>3. ASSUME NEW s \in ScoreStates, score' = [score EXCEPT ![p].version = @ + 1, ![p].state = s]
        PROVE  Scores!Snapshot(p, s)
    <3> DEFINE new == [score[p] EXCEPT !.version = score[p].version + 1, !.state = s]
    <3>1. score[p] \in [version : Nat, state : ScoreStates, refs : SUBSET Runs]
      BY <1>0
    <3>2. new.version = score[p].version + 1 /\ new.state = s
      BY <3>1, ScoreAmended
    <3>3. score' = [score EXCEPT ![p] = new]
      BY <1>0, <2>3
    <3> HIDE DEF new
    <3> QED BY <3>2, <3>3, ScoreSnapshot
  <2>4. CASE FreezeScore(p)
    BY <1>0, <2>1, <2>3, <2>4 DEF FreezeScore, Scores!Step, Scores!Freeze
  <2>5. CASE PublishScore(p)
    BY <1>0, <2>1, <2>3, <2>5 DEF PublishScore, Scores!Step, Scores!Publish
  <2> QED BY <1>2, <2>2, <2>4, <2>5 DEF TeacherStep
<1>3. ASSUME NEW r \in Runs, BeginsEvaluation(r) PROVE Scores!Next
  <2>1. PICK p \in Projects : p = req'[r].project /\ OpenSubmissions' = [OpenSubmissions EXCEPT ![p] = @ + 1]
    BY <1>3, <1>m, EvaluatingMoves
  <2>2. Scores!Step(p)
    BY <1>3, <1>k, <2>1 DEF BeginsEvaluation, Scores!Step, Scores!Submit
  <2> QED BY <1>s, <2>2
<1>4. ASSUME NEW r \in Runs, EndsEvaluation(r) PROVE Scores!Step(req[r].project)
  <2> DEFINE p == req[r].project
  <2>1. Scores!Evaluated(p)
    BY <1>4, <1>m, EvaluatingMoves DEF Scores!Evaluated
  <2>2. CASE score' = score
    BY <1>4, <1>k, <2>1, <2>2 DEF EndsEvaluation, Scores!Step, Scores!NoBaseline
  <2>3. CASE DraftBaseline(p, status')
    <3>1. p \in Projects
      BY <1>0, <1>4 DEF EndsEvaluation
    <3>2. Scores!Snapshot(p, "draft")
      <4> DEFINE new == [version |-> score[p].version + 1, state |-> "draft",
                         refs |-> GradedRuns(p, status')]
      <4>1. new.version = score[p].version + 1 /\ new.state = "draft"
        OBVIOUS
      <4>2. score' = [score EXCEPT ![p] = new]
        BY <1>0, <2>3, <3>1 DEF DraftBaseline
      <4> HIDE DEF new
      <4> QED BY <1>0, <3>1, <4>1, <4>2, ScoreSnapshot
    <3> QED BY <1>0, <1>4, <2>1, <2>3, <3>1, <3>2
            DEF EndsEvaluation, DraftBaseline, Scores!Step, Scores!Baseline
  <2> QED BY <1>4, <2>2, <2>3 DEF EndsEvaluation
<1>5. \A r \in Runs : EndsEvaluation(r) => req[r].project \in Projects
  BY <1>0 DEF EndsEvaluation
<1> QED BY <1>m, <1>s, <1>1, <1>2, <1>3, <1>4, <1>5 DEF GradeMove

\* What Grading says of submissions in flight is true of runs: whatever workers,
\* leases, retries and recoveries do, scores are as ScoreLifecycle promises them.
THEOREM PipelineRunsImplementScoreLifecycle == Spec => ImplementsScoreLifecycle
BY ScoreRefinementInit, ScoreRefinementStep, OwnershipInvariant, ScoreInvariant, PTL
DEF Spec, ImplementsScoreLifecycle, Scores!Spec

-----------------------------------------------------------------------------
(* The workers.                                                            *)

(***************************************************************************)
(* Their inductive invariant.  A worker at work has a run, an executed run *)
(* has left the queue, and who is about to close it has the runner's word. *)
(***************************************************************************)
AtWork ==
  \A w \in Workers :
    /\ ~At(w, {"idle"}) => task[w].run \in Runs
    /\ At(w, Executing) => status[task[w].run] \notin {"absent", "queued"}
    /\ At(w, {"ended", "reported"}) => task[w].said \in RunnerStatuses

WorkerInv == WorkerTypeOK /\ AtWork /\ OneExecution
Inv == TypeInv /\ OwnedWhileActive /\ WorkerInv

Places == {"idle"} \cup Executing \cup Recovering
Tasks == [at : Places, run : Runs \cup {NoRun}, said : RunnerStatuses \cup {"none"},
          records : 0 .. Cardinality(Cases), objects : 0 .. Cardinality(Labels)]

LEMMA CountsAreBounded ==
  /\ Cardinality(Cases) \in Nat /\ Cardinality(Labels) \in Nat
  /\ \A some \in SUBSET Cases : Cardinality(some) \in 0 .. Cardinality(Cases)
  /\ \A some \in SUBSET Labels : Cardinality(some) \in 0 .. Cardinality(Labels)
BY FinitenessAssumption, FS_CardinalityType, FS_Subset

LEMMA WorkerInit == WInit => Inv
<1> SUFFICES ASSUME WInit PROVE Inv
  OBVIOUS
<1>1. TypeInv /\ OwnedWhileActive
  BY TypeInit DEF WInit, Init, OwnedWhileActive
<1>2. WorkerTypeOK
  BY CountsAreBounded, FaultsAssumption DEF WInit, WorkerTypeOK, Idle, Begin, Doing, NoRun
<1>3. AtWork /\ OneExecution
  BY DEF WInit, AtWork, OneExecution, At, Idle, Begin, Doing, Executing
<1> QED BY <1>1, <1>2, <1>3 DEF Inv, WorkerInv

-----------------------------------------------------------------------------
(* The workers follow the control plane.                                   *)

LEMMA VerdictOfRunner ==
  ASSUME NEW s \in RunnerStatuses
  PROVE  portalRunStatus(s) \in Terminal
BY DEF RunnerStatuses, portalRunStatus

LEMMA CloseIsRequest ==
  ASSUME WorkerTypeOK, NEW w \in Workers, NEW r \in Runs, NEW v, NEW class,
         <<v, class>> \in Reports, Close(w, r, v, class)
  PROVE  CompleteSome(w, r)
<1>1. task[w].records \in 0 .. Cardinality(Cases) /\ task[w].objects \in 0 .. Cardinality(Labels)
  BY DEF WorkerTypeOK
<1> QED BY <1>1 DEF Close, CompleteSome

\* Every step of the workers is a step of PipelineRuns or leaves it alone.
LEMMA WorkersSendRequests ==
  ASSUME WorkerInv, [WNext]_wvars
  PROVE  [Next]_vars
<1> DEFINE Good == Next \/ UNCHANGED vars
<1>t. /\ task \in [Workers -> Tasks]
      /\ \A w \in Workers : ~At(w, {"idle"}) => task[w].run \in Runs
  BY DEF WorkerInv, WorkerTypeOK, AtWork, Tasks, Places
<1>w. ASSUME NEW w \in Workers, NEW r \in Runs, WorkerStep(w, r) PROVE Next
  BY <1>w DEF Next
<1>1. ASSUME NEW w \in Workers, NEW r \in Runs, TakeRun(w, r) PROVE Good
  BY <1>1 DEF TakeRun, Next, WorkerStep
<1>2. ASSUME NEW w \in Workers, FirstHeartbeat(w) \/ WaitHeartbeat(w) PROVE Good
  <2>1. task[w].run \in Runs
    BY <1>2, <1>t DEF FirstHeartbeat, WaitHeartbeat, At
  <2> QED BY <1>2, <1>w, <2>1 DEF FirstHeartbeat, WaitHeartbeat, WorkerStep
<1>3. ASSUME NEW w \in Workers, PrepareCredential(w) PROVE Good
  <2>1. task[w].run \in Runs
    BY <1>3, <1>t DEF PrepareCredential, At
  <2> QED BY <1>3, <1>w, <2>1 DEF PrepareCredential, WorkerStep
<1>4. ASSUME NEW w \in Workers, StartRun(w) PROVE Good
  <2>1. task[w].run \in Runs
    BY <1>4, <1>t DEF StartRun, At
  <2> QED BY <1>4, <1>w, <2>1 DEF StartRun, WorkerStep
<1>5. ASSUME NEW w \in Workers, Report(w) PROVE Good
  <2>1. task[w].run \in Runs
    BY <1>5, <1>t DEF Report, At
  <2>2. \/ UNCHANGED vars
        \/ \E reported \in [Cases -> {"none", "pass", "fail"}], labels \in SUBSET Labels :
             ReportEvidence(w, task[w].run, reported, labels)
    BY <1>5 DEF Report
  <2> QED BY <1>w, <2>1, <2>2 DEF WorkerStep, ReportSome
<1>6. ASSUME NEW w \in Workers, CloseRun(w) PROVE Good
  <2>1. task[w].run \in Runs /\ task[w].said \in RunnerStatuses
    BY <1>6, <1>t DEF CloseRun, At, WorkerInv, AtWork
  <2> DEFINE v == portalRunStatus(task[w].said)
             class == IF v = "failed" THEN "verification_failure" ELSE "none"
  <2>2. v \in Terminal
    BY <2>1, VerdictOfRunner
  <2>3. <<v, class>> \in Reports
    <3> HIDE DEF v
    <3> QED BY <2>2 DEF Reports
  <2>4. Close(w, task[w].run, v, class)
    BY <1>6 DEF CloseRun
  <2> HIDE DEF v, class
  <2> QED BY <1>w, <2>1, <2>3, <2>4, CloseIsRequest DEF WorkerStep, WorkerInv
<1>7. ASSUME NEW w \in Workers, FailRun(w) PROVE Good
  <2>1. task[w].run \in Runs
    BY <1>7, <1>t DEF FailRun, At
  <2>2. <<"failed", "infra_failure">> \in Reports
    BY DEF Reports
  <2> QED BY <1>7, <1>w, <2>1, <2>2, CloseIsRequest DEF FailRun, WorkerStep, WorkerInv
<1>8. ASSUME NEW w \in Workers, NEW r \in Runs, Sweep(w, r) PROVE Good
  BY <1>8, <1>w DEF Sweep, WorkerStep
<1>9. ASSUME NEW w \in Workers, RemovalFails(w) \/ FinishRecovery(w) PROVE Good
  <2>1. task[w].run \in Runs
    BY <1>9, <1>t DEF RemovalFails, FinishRecovery, At
  <2> QED BY <1>9, <1>w, <2>1 DEF RemovalFails, FinishRecovery, WorkerStep
<1>10. ASSUME NEW w \in Workers,
              \/ Boot(w) \/ BootFails(w) \/ RunnerEnds(w) \/ StepFails(w) \/ Cleanup(w)
              \/ Crash(w) \/ RemoveContainers(w)
       PROVE  Good
  BY <1>10 DEF Boot, BootFails, RunnerEnds, StepFails, Cleanup, Crash, RemoveContainers
<1>11. ASSUME NEW r \in Runs, LeaseRunsOut(r) PROVE Good
  BY <1>11 DEF LeaseRunsOut, Next
<1>12. CASE Environment
  BY <1>12 DEF Environment, Next
<1>13. CASE UNCHANGED wvars
  BY <1>13 DEF wvars
<1> QED
  BY <1>1, <1>2, <1>3, <1>4, <1>5, <1>6, <1>7, <1>8, <1>9, <1>10, <1>11, <1>12, <1>13
  DEF WNext, Progress

-----------------------------------------------------------------------------
(* One execution: a run leaves the queue once, and only who takes it from  *)
(* the queue executes it.                                                  *)

LEMMA NeverRequeued ==
  ASSUME TypeInv, [Next]_vars, NEW r \in Runs, status[r] \notin {"absent", "queued"}
  PROVE  status'[r] \notin {"absent", "queued"}
BY RunMoves DEF RunMove, Stays

\* What must be shown of worker w's next task t.
GoodTask(w, t) ==
  /\ t \in Tasks
  /\ t.at # "idle" => t.run \in Runs
  /\ t.at \in {"ended", "reported"} => t.said \in RunnerStatuses
  /\ t.at \in Executing =>
       /\ status'[t.run] \notin {"absent", "queued"}
       /\ \A v \in Workers : v # w /\ At(v, Executing) => task[v].run # t.run

LEMMA TaskMove ==
  ASSUME TypeInv, WorkerInv, [Next]_vars, NEW w \in Workers, NEW t, GoodTask(w, t),
         task' = [task EXCEPT ![w] = t]
  PROVE  task' \in [Workers -> Tasks] /\ AtWork' /\ OneExecution'
<1>1. task \in [Workers -> Tasks]
  BY DEF WorkerInv, WorkerTypeOK, Tasks, Places
<1>2. task' \in [Workers -> Tasks] /\ task'[w] = t /\ \A v \in Workers : v # w => task'[v] = task[v]
  BY <1>1 DEF GoodTask
<1>3. AtWork'
  <2> SUFFICES ASSUME NEW v \in Workers
               PROVE  /\ task'[v].at # "idle" => task'[v].run \in Runs
                      /\ task'[v].at \in Executing => status'[task'[v].run] \notin {"absent", "queued"}
                      /\ task'[v].at \in {"ended", "reported"} => task'[v].said \in RunnerStatuses
    BY DEF AtWork, At
  <2>1. CASE v = w
    BY <1>2, <2>1 DEF GoodTask
  <2>2. CASE v # w
    <3>1. task'[v] = task[v]
      BY <1>2, <2>2
    <3>2. task[v].at \in Executing => task[v].at # "idle"
      BY DEF Executing
    <3> QED BY <3>1, <3>2, NeverRequeued DEF WorkerInv, AtWork, At
  <2> QED BY <2>1, <2>2
<1>4. OneExecution'
  BY <1>2 DEF WorkerInv, OneExecution, At, GoodTask
<1> QED BY <1>2, <1>3, <1>4

\* The same task at another place; a worker that executes has executed before.
LEMMA SameRun ==
  ASSUME TypeInv, WorkerInv, [Next]_vars, NEW w \in Workers, NEW t \in Tasks,
         t.run = task[w].run, ~At(w, {"idle"}),
         t.at \in Executing => At(w, Executing),
         t.at \in {"ended", "reported"} => t.said \in RunnerStatuses
  PROVE  GoodTask(w, t)
<1>1. task[w].run \in Runs
  BY DEF WorkerInv, AtWork
<1>2. t.at \in Executing => status[t.run] \notin {"absent", "queued"}
  BY DEF WorkerInv, AtWork
<1>3. \A v \in Workers : v # w /\ At(v, Executing) /\ At(w, Executing) => task[v].run # task[w].run
  BY <1>1 DEF WorkerInv, OneExecution
<1> QED BY <1>1, <1>2, <1>3, NeverRequeued DEF GoodTask

LEMMA GoMove ==
  ASSUME TypeInv, WorkerInv, [Next]_vars, NEW w \in Workers, NEW at \in Places, Go(w, at),
         ~At(w, {"idle"}), at \in Executing => At(w, Executing),
         at \in {"ended", "reported"} => task[w].said \in RunnerStatuses
  PROVE  task' \in [Workers -> Tasks] /\ AtWork' /\ OneExecution'
<1>1. task \in [Workers -> Tasks]
  BY DEF WorkerInv, WorkerTypeOK, Tasks, Places
<1> DEFINE t == [task[w] EXCEPT !.at = at]
<1>2. t \in Tasks /\ t.run = task[w].run /\ t.at = at /\ t.said = task[w].said
  BY <1>1 DEF Tasks
<1>3. task' = [task EXCEPT ![w] = t]
  BY DEF Go
<1> HIDE DEF t
<1> QED BY <1>2, <1>3, SameRun, TaskMove

LEMMA QuitMove ==
  ASSUME TypeInv, WorkerInv, [Next]_vars, NEW w \in Workers, Quit(w)
  PROVE  task' \in [Workers -> Tasks] /\ AtWork' /\ OneExecution'
<1>1. GoodTask(w, Idle)
  BY CountsAreBounded DEF GoodTask, Idle, Begin, Doing, Tasks, Places, Executing
<1> QED BY <1>1, TaskMove DEF Quit

\* A task that begins executes only what has just left the queue.
LEMMA BeginMove ==
  ASSUME TypeInv, WorkerInv, [Next]_vars, NEW w \in Workers, NEW r \in Runs,
         NEW at \in {"claimed", "sweeping"}, task' = [task EXCEPT ![w] = Begin(at, r)],
         at = "claimed" => status[r] = "queued" /\ status'[r] \notin {"absent", "queued"}
  PROVE  task' \in [Workers -> Tasks] /\ AtWork' /\ OneExecution'
<1>1. Begin(at, r) = [at |-> at, run |-> r, said |-> "none", records |-> 0, objects |-> 0]
  BY DEF Begin, Doing
<1>2. [at |-> at, run |-> r, said |-> "none", records |-> 0, objects |-> 0] \in Tasks
  BY CountsAreBounded DEF Tasks, Places, Executing, Recovering
<1>3. "sweeping" \notin Executing
  BY DEF Executing
<1>4. \A v \in Workers : At(v, Executing) => status[task[v].run] # "queued"
  BY DEF WorkerInv, AtWork
<1>5. GoodTask(w, Begin(at, r))
  BY <1>1, <1>2, <1>3, <1>4 DEF GoodTask
<1> QED BY <1>5, TaskMove

LEMMA WorkerStepInv == Inv /\ [WNext]_wvars => WorkerInv'
<1> SUFFICES ASSUME Inv, [WNext]_wvars PROVE WorkerInv'
  OBVIOUS
<1>0. TypeInv /\ WorkerInv /\ [Next]_vars
  BY WorkersSendRequests DEF Inv
<1>t. /\ task \in [Workers -> Tasks] /\ containers \subseteq Workers \X Runs
      /\ faults \in 0 .. MaxFaults
      /\ \A w \in Workers : ~At(w, {"idle"}) => task[w].run \in Runs
  BY <1>0 DEF WorkerInv, WorkerTypeOK, AtWork, Tasks, Places
<1> DEFINE TaskGood == task' \in [Workers -> Tasks] /\ AtWork' /\ OneExecution'
           OthersGood == containers' \subseteq Workers \X Runs /\ faults' \in 0 .. MaxFaults
<1>f. Fault => faults' \in 0 .. MaxFaults
  BY <1>t, FaultsAssumption DEF Fault
<1>u. ASSUME UNCHANGED task PROVE TaskGood
  <2>1. task' \in [Workers -> Tasks] /\ OneExecution'
    BY <1>0, <1>t, <1>u DEF WorkerInv, OneExecution, At
  <2>2. \A w \in Workers : At(w, Executing) => ~At(w, {"idle"})
    BY DEF At, Executing
  <2>3. AtWork'
    BY <1>0, <1>u, <2>2, NeverRequeued DEF WorkerInv, AtWork, At
  <2> QED BY <2>1, <2>3
<1>c. ASSUME UNCHANGED <<containers, faults>> PROVE OthersGood
  BY <1>c, <1>t
<1>b. ASSUME NEW w \in Workers, ~At(w, {"idle"}) PROVE <<w, task[w].run>> \in Workers \X Runs
  BY <1>b, <1>t
<1>g. ASSUME NEW w \in Workers, NEW at \in Places, Go(w, at), ~At(w, {"idle"}),
             at \in Executing => At(w, Executing),
             at \in {"ended", "reported"} => task[w].said \in RunnerStatuses
      PROVE  TaskGood
  BY <1>0, <1>g, GoMove
<1>q. ASSUME NEW w \in Workers, Quit(w) PROVE TaskGood
  BY <1>0, <1>q, QuitMove
\* Where an exception may be thrown the worker is executing a run.
<1>h. ASSUME NEW w \in Workers, At(w, Executing), Throw(w) PROVE TaskGood
  <2>1. PICK at \in {"failing", "unwinding"} : Go(w, at)
    BY <1>h DEF Throw
  <2> QED BY <1>g, <1>h, <2>1 DEF Places, Executing, At
<1>1. ASSUME NEW w \in Workers, NEW r \in Runs, TakeRun(w, r) PROVE TaskGood /\ OthersGood
  <2>1. CASE UNCHANGED task
    BY <1>1, <1>u, <1>c, <2>1 DEF TakeRun
  <2>2. CASE Lease(w, r) /\ task' = [task EXCEPT ![w] = Begin("claimed", r)]
    <3>1. status[r] = "queued" /\ status'[r] \notin {"absent", "queued"}
      <4>1. status \in [Runs -> Statuses]
        BY <1>0 DEF TypeInv, TypeOK
      <4> QED BY <2>2, <4>1 DEF Lease
    <3> QED BY <1>0, <1>1, <1>c, <2>2, <3>1, BeginMove DEF TakeRun
  <2> QED BY <1>1, <2>1, <2>2 DEF TakeRun
<1>2. ASSUME NEW w \in Workers, FirstHeartbeat(w) PROVE TaskGood /\ OthersGood
  <2>1. At(w, {"claimed"}) /\ UNCHANGED <<containers, faults>>
        /\ (Go(w, "prepared") \/ Quit(w))
    BY <1>2 DEF FirstHeartbeat
  <2> QED BY <1>c, <1>g, <1>q, <2>1 DEF At, Places, Executing
<1>3. ASSUME NEW w \in Workers, PrepareCredential(w) PROVE TaskGood /\ OthersGood
  <2>1. At(w, {"prepared"}) /\ UNCHANGED <<containers, faults>>
        /\ (Go(w, "booting") \/ Throw(w))
    BY <1>3 DEF PrepareCredential
  <2> QED BY <1>c, <1>g, <1>h, <2>1 DEF At, Places, Executing
<1>4. ASSUME NEW w \in Workers, Boot(w) PROVE TaskGood /\ OthersGood
  <2>1. At(w, {"booting"}) /\ Go(w, "booted") /\ UNCHANGED faults
        /\ containers' = containers \cup {<<w, task[w].run>>}
    BY <1>4 DEF Boot
  <2> QED BY <1>b, <1>g, <1>t, <2>1 DEF At, Places, Executing
<1>5. ASSUME NEW w \in Workers, BootFails(w) PROVE TaskGood /\ OthersGood
  <2>1. At(w, {"booting"}) /\ Throw(w)
        /\ \/ UNCHANGED <<containers, faults>>
           \/ Fault /\ containers' = containers \cup {<<w, task[w].run>>}
    BY <1>5 DEF BootFails
  <2> QED BY <1>b, <1>c, <1>f, <1>h, <1>t, <2>1 DEF At, Executing
<1>6. ASSUME NEW w \in Workers, StartRun(w) PROVE TaskGood /\ OthersGood
  <2>1. At(w, {"booted"}) /\ Go(w, "running") /\ UNCHANGED <<containers, faults>>
    BY <1>6 DEF StartRun
  <2> QED BY <1>c, <1>g, <2>1 DEF At, Places, Executing
\* The runner's answer is one of its statuses.
<1>7. ASSUME NEW w \in Workers, NEW s \in RunnerStatuses, At(w, {"running"}), Answered(w, s)
      PROVE  TaskGood
  <2> DEFINE t == Doing("ended", task[w].run, s, 0, 0)
  <2>1. t \in Tasks /\ t.run = task[w].run /\ t.at = "ended" /\ t.said = s
    BY <1>t, CountsAreBounded DEF Doing, Tasks, Places, Executing
  <2>2. task' = [task EXCEPT ![w] = t]
    BY <1>7 DEF Answered
  <2>3. ~At(w, {"idle"}) /\ At(w, Executing)
    BY <1>7 DEF At, Executing
  <2> HIDE DEF t
  <2>4. GoodTask(w, t)
    BY <1>0, <2>1, <2>3, SameRun
  <2> QED BY <1>0, <2>2, <2>4, TaskMove
<1>8. ASSUME NEW w \in Workers, WaitHeartbeat(w) PROVE TaskGood /\ OthersGood
  <2>1. At(w, {"running"}) /\ UNCHANGED <<containers, faults>>
        /\ (UNCHANGED task \/ Answered(w, "cancelled") \/ Throw(w))
    BY <1>8 DEF WaitHeartbeat
  <2> QED BY <1>c, <1>h, <1>u, <1>7, <2>1 DEF At, Executing, RunnerStatuses
<1>9. ASSUME NEW w \in Workers, RunnerEnds(w) PROVE TaskGood /\ OthersGood
  BY <1>c, <1>7, <1>9 DEF RunnerEnds
<1>10. ASSUME NEW w \in Workers, Report(w) PROVE TaskGood /\ OthersGood
  <2>1. At(w, {"ended"}) /\ UNCHANGED <<containers, faults>>
    BY <1>10 DEF Report
  <2>2. task[w].said \in RunnerStatuses /\ ~At(w, {"idle"}) /\ At(w, Executing)
    BY <1>0, <2>1 DEF WorkerInv, AtWork, At, Executing
  <2>3. CASE Go(w, "reported")
    BY <1>c, <1>g, <2>1, <2>2, <2>3 DEF Places, Executing
  <2>4. CASE Throw(w)
    BY <1>c, <1>h, <2>1, <2>2, <2>4
  <2>5. ASSUME NEW some \in SUBSET Cases, NEW labels \in SUBSET Labels,
               task' = [task EXCEPT ![w] = Doing("reported", task[w].run, task[w].said,
                                                 Cardinality(some), Cardinality(labels))]
        PROVE  TaskGood
    <3> DEFINE t == Doing("reported", task[w].run, task[w].said,
                          Cardinality(some), Cardinality(labels))
    <3>1. t \in Tasks /\ t.run = task[w].run /\ t.at = "reported" /\ t.said = task[w].said
      BY <1>t, CountsAreBounded DEF Doing, Tasks, Places, Executing
    <3>2. task' = [task EXCEPT ![w] = t]
      BY <2>5
    <3> HIDE DEF t
    <3>3. GoodTask(w, t)
      BY <1>0, <2>2, <3>1, SameRun
    <3> QED BY <1>0, <3>2, <3>3, TaskMove
  <2> QED BY <1>10, <1>c, <2>1, <2>3, <2>4, <2>5 DEF Report
<1>11. ASSUME NEW w \in Workers, CloseRun(w) PROVE TaskGood /\ OthersGood
  <2>1. At(w, {"reported"}) /\ UNCHANGED <<containers, faults>>
        /\ (Go(w, "closing") \/ Throw(w))
    BY <1>11 DEF CloseRun
  <2> QED BY <1>c, <1>g, <1>h, <2>1 DEF At, Places, Executing
<1>12. ASSUME NEW w \in Workers, StepFails(w) PROVE TaskGood /\ OthersGood
  BY <1>c, <1>h, <1>12 DEF StepFails, At, Executing
<1>13. ASSUME NEW w \in Workers, Cleanup(w) PROVE TaskGood /\ OthersGood
  <2>1. At(w, {"closing", "unwinding"}) /\ containers' \subseteq containers
        /\ (UNCHANGED faults \/ Fault) /\ (Quit(w) \/ Go(w, "failing"))
    BY <1>13 DEF Cleanup
  <2> QED BY <1>f, <1>g, <1>q, <1>t, <2>1 DEF At, Places, Executing
<1>14. ASSUME NEW w \in Workers, FailRun(w) \/ FinishRecovery(w) PROVE TaskGood /\ OthersGood
  BY <1>c, <1>q, <1>14 DEF FailRun, FinishRecovery
<1>15. ASSUME NEW w \in Workers, Crash(w) PROVE TaskGood /\ OthersGood
  BY <1>f, <1>q, <1>t, <1>15 DEF Crash
<1>16. ASSUME NEW w \in Workers, NEW r \in Runs, Sweep(w, r) PROVE TaskGood /\ OthersGood
  BY <1>0, <1>c, <1>16, BeginMove DEF Sweep
<1>17. ASSUME NEW w \in Workers, RemoveContainers(w) PROVE TaskGood /\ OthersGood
  <2>1. At(w, {"sweeping"}) /\ Go(w, "swept") /\ UNCHANGED faults
        /\ containers' \subseteq containers
    BY <1>17 DEF RemoveContainers
  <2> QED BY <1>g, <1>t, <2>1 DEF At, Places, Executing, Recovering
<1>18. ASSUME NEW w \in Workers, RemovalFails(w) PROVE TaskGood /\ OthersGood
  BY <1>f, <1>q, <1>t, <1>18 DEF RemovalFails
<1>19. ASSUME NEW r \in Runs, LeaseRunsOut(r) PROVE TaskGood /\ OthersGood
  BY <1>f, <1>t, <1>u, <1>19 DEF LeaseRunsOut
<1>20. ASSUME Environment \/ UNCHANGED wvars PROVE TaskGood /\ OthersGood
  BY <1>c, <1>u, <1>20 DEF Environment, workerVars, wvars
<1> HIDE DEF TaskGood, OthersGood
<1>21. TaskGood /\ OthersGood
  BY <1>1, <1>2, <1>3, <1>4, <1>5, <1>6, <1>8, <1>9, <1>10, <1>11, <1>12, <1>13, <1>14, <1>15,
     <1>16, <1>17, <1>18, <1>19, <1>20
  DEF WNext, Progress
<1> USE DEF TaskGood, OthersGood
<1> QED BY <1>21 DEF WorkerInv, WorkerTypeOK, Tasks, Places

LEMMA WorkerInvariant == WSpec => []Inv /\ [][Next]_vars
<1>1. Inv /\ [WNext]_wvars => Inv' /\ [Next]_vars
  <2> SUFFICES ASSUME Inv, [WNext]_wvars PROVE Inv' /\ [Next]_vars
    OBVIOUS
  <2>1. [Next]_vars
    BY WorkersSendRequests DEF Inv
  <2>2. WorkerInv'
    BY WorkerStepInv
  <2> QED BY <2>1, <2>2, TypeStep, OwnershipStep DEF Inv
<1> QED BY <1>1, WorkerInit, PTL DEF WSpec

\* The worker's loop is a client the control plane reckons with: its behaviours
\* are behaviours of PipelineRuns, so every theorem about those holds here.
THEOREM WorkersFollowControlPlane == WSpec => Spec
<1>1. WInit => Init
  BY DEF WInit
<1> QED BY <1>1, WorkerInvariant, PTL DEF WSpec, Spec

\* So the loop, with its crashes, lost replies and recoveries, implements both
\* abstract specifications.
THEOREM WorkersImplementLifecycles == WSpec => ImplementsRunLifecycle /\ ImplementsScoreLifecycle
BY WorkersFollowControlPlane, PipelineRunsImplementRunLifecycle, PipelineRunsImplementScoreLifecycle, PTL

\* And what clients see of a run is settled whatever its worker does: its verdict
\* is final, no submission gets ahead of it, no stage opens unpaid, no draft rests
\* on an unfinished run, and an unsealed credential stays with who holds the run.
THEOREM WorkersKeepPromises ==
  WSpec => /\ VerdictIsFinal /\ RecoveryFencesWorker /\ OneWorkerPerRun
           /\ [](EventLogTellsStory /\ SubmissionFollowsRun /\ StagesArePaidFor
                   /\ DraftRestsOnFinalRuns /\ CredentialConfined)
BY WorkersFollowControlPlane, VerdictsAreFinal, RecoveryFences, OneWorker, EventLogsTellStory,
   SubmissionsFollowRuns, StagesPaidFor, DraftsRest, CredentialsConfined, PTL

\* No run is ever evaluated twice.
THEOREM NoRunEvaluatedTwice == WSpec => []OneExecution
<1>1. Inv => OneExecution
  BY DEF Inv, WorkerInv
<1> QED BY <1>1, WorkerInvariant, PTL

\* Every reachable state of the workers has its types.
THEOREM WorkerTypeCorrect == WSpec => []WorkerTypeOK
<1>1. Inv => WorkerTypeOK
  BY DEF Inv, WorkerInv
<1> QED BY <1>1, WorkerInvariant, PTL
-----------------------------------------------------------------------------
(***************************************************************************)
(* Verdicts.  Only two requests of the loop close an active run with a     *)
(* verdict that is not its own or a cancellation: the one at the end, and  *)
(* that of the catch block.                                                *)
(***************************************************************************)
FromRunner(r) ==
  /\ status'[r] = "passed" => \E w \in Workers : task[w].run = r /\ task[w].said = "ok"
  /\ failure_class'[r] = "verification_failure" =>
       \/ \E w \in Workers : task[w].run = r /\ task[w].said = "partial"
       \/ MissingShowcase(r) # {}

\* What a request that closes run r may leave of it.
LEMMA CloseLeaves ==
  ASSUME TypeInv, OwnedWhileActive, OpenUnblamed, NEW w \in Workers, NEW r \in Runs,
         NEW v \in Terminal, NEW class, Close(w, r, v, class),
         NEW x \in Runs, status[x] \in Active, status'[x] \in Terminal
  PROVE  /\ x = r /\ (status'[r] = "passed" => v = "passed")
         /\ failure_class'[r] = "verification_failure" =>
              \/ MissingShowcase(r) # {} \/ class = "verification_failure"
              \/ class = "none" /\ v = "failed"
<1>0. /\ status \in [Runs -> Statuses]
      /\ failure_class \in [Runs -> {"none", "verification_failure", "infra_failure"}]
  BY DEF TypeInv, TypeOK
<1>1. Complete(w, r, v, class, task[w].records, task[w].objects)
  BY DEF Close, CompleteCancelled
<1> DEFINE final  == IF v = "passed" /\ MissingShowcase(r) # {} THEN "failed" ELSE v
           blamed == IF MissingShowcase(r) # {} THEN "verification_failure"
                     ELSE IF class = "none" /\ final = "failed" THEN "verification_failure"
                     ELSE class
<1>2. /\ status' = [status EXCEPT ![r] = final]
      /\ failure_class' = [failure_class EXCEPT ![r] = blamed]
  BY <1>1 DEF Complete
<1>3. x = r /\ status'[r] = final /\ failure_class'[r] = blamed
  BY <1>0, <1>2
<1> QED BY <1>3

LEMMA VerdictStep ==
  ASSUME Inv, OpenUnblamed, [WNext]_wvars, NEW x \in Runs,
         status[x] \in Active, status'[x] \in Terminal
  PROVE  FromRunner(x)
<1>0. /\ status \in [Runs -> Statuses]
      /\ failure_class \in [Runs -> {"none", "verification_failure", "infra_failure"}]
      /\ failure_class[x] = "none"
      /\ \A w \in Workers : ~At(w, {"idle"}) => task[w].run \in Runs
      /\ \A w \in Workers : At(w, {"reported"}) => task[w].said \in RunnerStatuses
  BY DEF Inv, TypeInv, TypeOK, OpenUnblamed, WorkerInv, AtWork, At
<1>u. status' # status
  BY <1>0
<1>1. ASSUME NEW w \in Workers, CloseRun(w) PROVE FromRunner(x)
  <2> DEFINE v     == portalRunStatus(task[w].said)
             class == IF v = "failed" THEN "verification_failure" ELSE "none"
             r     == task[w].run
  <2>1. r \in Runs /\ task[w].said \in RunnerStatuses /\ Close(w, r, v, class)
    BY <1>0, <1>1 DEF CloseRun, At
  <2>2. /\ v \in Terminal
        /\ v = "passed" => task[w].said = "ok"
        /\ v = "failed" => task[w].said = "partial"
    BY <2>1 DEF portalRunStatus, RunnerStatuses
  <2>c. class = "verification_failure" => v = "failed"
    OBVIOUS
  <2> HIDE DEF v, class
  <2>3. /\ x = r /\ (status'[r] = "passed" => v = "passed")
        /\ failure_class'[r] = "verification_failure" =>
             \/ MissingShowcase(r) # {} \/ class = "verification_failure"
             \/ class = "none" /\ v = "failed"
    BY <2>1, <2>2, CloseLeaves DEF Inv
  <2> QED BY <2>2, <2>c, <2>3 DEF FromRunner
<1>2. ASSUME NEW w \in Workers, FailRun(w) PROVE FromRunner(x)
  <2>1. task[w].run \in Runs /\ Close(w, task[w].run, "failed", "infra_failure")
    BY <1>0, <1>2, <1>u DEF FailRun, At, vars, runVars
  <2>2. /\ x = task[w].run /\ status'[x] # "passed"
        /\ failure_class'[x] = "verification_failure" => MissingShowcase(x) # {}
    BY <2>1, CloseLeaves DEF Inv
  <2> QED BY <2>2 DEF FromRunner
<1>3. ASSUME NEW w \in Workers, FinishRecovery(w) PROVE FromRunner(x)
  BY <1>0, <1>3, <1>u DEF FinishRecovery, RecoverCommit, FromRunner, vars, runVars
<1>4. ASSUME NEW w \in Workers, NEW r \in Runs, TakeRun(w, r) PROVE FromRunner(x)
  BY <1>0, <1>4 DEF TakeRun, Lease, LeaseRejected
<1>5. ASSUME NEW w \in Workers, StartRun(w) PROVE FromRunner(x)
  BY <1>0, <1>5 DEF StartRun, Start
<1>6. ASSUME NEW w \in Workers, \/ FirstHeartbeat(w) \/ WaitHeartbeat(w) \/ PrepareCredential(w)
                                \/ Report(w) \/ RemovalFails(w)
      PROVE  FromRunner(x)
  BY <1>6, <1>u DEF FirstHeartbeat, WaitHeartbeat, PrepareCredential, Report, RemovalFails,
     Heartbeat, LeaseCredential, ReportEvidence, RecoverCleanupFailed, vars, runVars
<1>7. ASSUME NEW w \in Workers,
             \/ Boot(w) \/ BootFails(w) \/ RunnerEnds(w) \/ StepFails(w) \/ Cleanup(w)
             \/ Crash(w) \/ RemoveContainers(w)
      PROVE  FromRunner(x)
  BY <1>7, <1>u DEF Boot, BootFails, RunnerEnds, StepFails, Cleanup, Crash, RemoveContainers,
     vars, runVars
<1>8. ASSUME NEW w \in Workers, NEW r \in Runs, Sweep(w, r) PROVE FromRunner(x)
  BY <1>8, <1>u DEF Sweep, RecoverClaim
<1>9. ASSUME NEW r \in Runs, LeaseRunsOut(r) PROVE FromRunner(x)
  BY <1>9, <1>u DEF LeaseRunsOut, LeaseExpires
<1>10. ASSUME NEW r \in Runs, ClientStep(r) PROVE FromRunner(x)
  <2>1. ASSUME NEW n \in Runs, NEW q, InsertRun(n, q) PROVE FALSE
    BY <1>0, <2>1 DEF InsertRun, Fresh
  <2>2. CASE Cancel(r)
    BY <1>0, <2>2 DEF Cancel, FromRunner
  <2>3. CASE ReviewRun(r) \/ ApproveSubmission(r) \/ RejectSubmission(r)
    BY <1>u, <2>3 DEF ReviewRun, ApproveSubmission, RejectSubmission, runVars
  <2> QED BY <1>10, <2>1, <2>2, <2>3 DEF ClientStep, Trigger, Submit, ReviewRerun
<1>11. CASE Environment
  BY <1>u, <1>10, <1>11 DEF Environment, RevokeCredential, TeacherStep, CalculateScore,
     FreezeScore, PublishScore, runVars
<1>12. CASE UNCHANGED wvars
  BY <1>u, <1>12 DEF wvars, vars, runVars
<1> QED
  BY <1>1, <1>2, <1>3, <1>4, <1>5, <1>6, <1>7, <1>8, <1>9, <1>11, <1>12 DEF WNext, Progress

\* A verdict is the runner's own: no crash, lost reply or lease that ran out
\* turns into a pass or into a failure of the student's code.
THEOREM VerdictsComeFromRunners == WSpec => VerdictComesFromRunner
<1>1. WInit => OpenUnblamed
  BY DEF WInit, Init, OpenUnblamed
<1>2. Inv /\ OpenUnblamed /\ [Next]_vars => OpenUnblamed'
  BY OpenUnblamedStep DEF Inv
<1>3. Inv /\ OpenUnblamed /\ [WNext]_wvars =>
        [\A r \in Runs : status[r] \in Active /\ status'[r] \in Terminal => FromRunner(r)]_wvars
  BY VerdictStep
<1> QED BY <1>1, <1>2, <1>3, WorkerInvariant, PTL DEF WSpec, VerdictComesFromRunner, FromRunner
=============================================================================
