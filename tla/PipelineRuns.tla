---------------------------- MODULE PipelineRuns ----------------------------
(***************************************************************************)
(* The control plane of evaluation runs in vos-portal: the tables that     *)
(* record runs, their leases, evidence, model-credential leases and        *)
(* assessment submissions, and every transaction that changes them.  Each  *)
(* action is one committed transaction; a request the code rejects changes *)
(* nothing and is no action.  The clients are as general as the network    *)
(* makes them: any worker may send any control request at any time, so a   *)
(* lost, duplicated or delayed request is an action that does not happen,  *)
(* happens twice or happens late.                                          *)
(***************************************************************************)
EXTENDS Integers, Sequences, FiniteSets

CONSTANTS
  MaxRuns,           \* bound: how many runs are ever created
  Workers, NoOwner,  \* worker identities; NoOwner is SQL null
  Projects, Commits, Manifests, NoManifest,
  LastStage,         \* stages of the experiment are numbered 0 .. LastStage
  Creds, NoCred,     \* model credentials (BYOK)
  Cases,             \* (suite, case, visibility) keys of evidence records
  Labels,            \* labels of verified objects
  ManualReview,      \* stages whose gate asks for a manual review
  Showcase,          \* stage -> labels its gate requires for showcase replay
  RequiredEvidence,  \* stage -> {<<case, result>>} a manual approval requires
  ReviewArtifacts,   \* stage -> labels a manual approval requires
  TriggerInputs,     \* bound: the pipeline requests clients send
  SubmitInputs,      \* bound: the assessment submissions students send
  NoRequest

Runs   == 1 .. MaxRuns
Stages == 0 .. LastStage
Scopes == {"public", "staff", "final"}

\* What a run was asked to evaluate; fixed when its row is inserted.
Requests == [project : Projects, commit : Commits, stage : Stages, scope : Scopes,
             cred : Creds \cup {NoCred}, manifest : Manifests \cup {NoManifest}]

\* The lease_owner that a recovering worker writes: `${workerId}.recovery`.
Recoverer(w) == <<w, "recovery">>
Recoverers   == {Recoverer(w) : w \in Workers}
Owners       == Workers \cup Recoverers \cup {NoOwner}

ASSUME RunsAssumption   == MaxRuns \in Nat /\ LastStage \in Nat
ASSUME OwnersAssumption ==
  \* No deployment names a worker "<other worker>.recovery".
  /\ NoOwner \notin Workers
  /\ \A w \in Workers : Recoverer(w) \notin Workers /\ Recoverer(w) # NoOwner
ASSUME InputsAssumption ==
  /\ TriggerInputs \subseteq {q \in Requests : q.manifest = NoManifest}
  /\ SubmitInputs \subseteq
       {q \in Requests : q.scope = "final" /\ q.cred = NoCred /\ q.manifest \in Manifests}
ASSUME NamesAssumption ==
  NoManifest \notin Manifests /\ NoCred \notin Creds /\ NoRequest \notin Requests
ASSUME GatesAssumption ==
  /\ ManualReview \subseteq Stages
  /\ Showcase \in [Stages -> SUBSET Labels]
  /\ RequiredEvidence \in [Stages -> SUBSET (Cases \X {"pass", "fail"})]
  /\ ReviewArtifacts \in [Stages -> SUBSET Labels]
ASSUME FinitenessAssumption == IsFiniteSet(Cases) /\ IsFiniteSet(Labels)

VARIABLES
  req,             \* pipeline_runs: project_id, commit_sha, stage_key, scope, model_credential_id
  status,          \* pipeline_runs.status ("absent": no such row)
  failure_class,   \* pipeline_runs.failure_class
  lease_owner,     \* pipeline_runs.lease_owner
  lease_expired,   \* leased_until < now() for a held lease
  evidence,        \* evidence_records of each run: case -> result
  objects,         \* labels of the verified object_refs of each run
  events,          \* pipeline_events of each run, in sequence order
  queuedOutbox,    \* runs whose 'pipeline.queued' outbox row is unpublished
  review,          \* pipeline_reviews.status
  credRevoked,     \* credentials with revoked_at set
  credHolder,      \* model_credential_leases.worker_id of each run's lease row
  credLive,        \* runs whose lease row has revoked_at null
  submission,      \* assessment_submissions.status of the run's submission
  projectStatus,   \* projects.status
  currentStage,    \* projects.current_stage_id
  openGates,       \* stage_gates with status 'open'
  score            \* newest score_snapshots row of each project, without adjustments
runVars    == <<req, status, failure_class, lease_owner, lease_expired, events, queuedOutbox>>
resultVars == <<evidence, objects>>
credVars   == <<credRevoked, credHolder, credLive>>
gateVars   == <<submission, currentStage, openGates, score>>
vars == <<runVars, resultVars, review, credVars, gateVars, projectStatus>>

Active   == {"leased", "running"}
Terminal == {"passed", "failed", "cancelled", "timed_out"}
Statuses == {"absent", "queued"} \cup Active \cup Terminal
\* A 'finished' event is modelled by the status in its payload.
EventTypes == {"queued", "leased", "step_started"} \cup Terminal
Created  == {r \in Runs : status[r] # "absent"}
NoScore  == [version |-> 0, state |-> "none", refs |-> {}]

Init ==
  /\ req           = [r \in Runs |-> NoRequest]
  /\ status        = [r \in Runs |-> "absent"]
  /\ failure_class = [r \in Runs |-> "none"]
  /\ lease_owner   = [r \in Runs |-> NoOwner]
  /\ lease_expired = [r \in Runs |-> FALSE]
  /\ evidence      = [r \in Runs |-> [c \in Cases |-> "none"]]
  /\ objects       = [r \in Runs |-> {}]
  /\ events        = [r \in Runs |-> <<>>]
  /\ queuedOutbox  = {}
  /\ review        = [r \in Runs |-> "none"]
  /\ credRevoked   = {}
  /\ credHolder    = [r \in Runs |-> NoOwner]
  /\ credLive      = {}
  /\ submission    = [r \in Runs |-> "none"]
  /\ projectStatus = [p \in Projects |-> "active"]
  /\ currentStage  = [p \in Projects |-> 0]
  /\ openGates     = {0}
  /\ score         = [p \in Projects |-> NoScore]

-----------------------------------------------------------------------------
(* Clients of the portal: students and course staff.                       *)

\* Run identifiers are handed out in creation order.
Fresh(r) == /\ status[r] = "absent"
            /\ \A x \in Runs : x < r => status[x] # "absent"

\* The rows every new run gets: pipeline_runs, its first event, its outbox row.
InsertRun(r, q) ==
  /\ Fresh(r)
  /\ req'          = [req EXCEPT ![r] = q]
  /\ status'       = [status EXCEPT ![r] = "queued"]
  /\ events'       = [events EXCEPT ![r] = <<"queued">>]
  /\ queuedOutbox' = queuedOutbox \cup {r}
  /\ UNCHANGED <<failure_class, lease_owner, lease_expired>>

\* A pipeline request; with retry_of it also needs an earlier run of the same
\* commit and stage that did not pass, and then has the same effect.
Trigger(r) ==
  \E q \in TriggerInputs :
    /\ projectStatus[q.project] = "active"
    /\ q.cred \notin credRevoked
    /\ InsertRun(r, q)
    /\ UNCHANGED <<resultVars, review, credVars, gateVars, projectStatus>>

\* An authoritative submission for the project's current stage.  The same
\* commit, stage and manifest submitted again gets the row that exists.
Submit(r) ==
  \E q \in SubmitInputs :
    /\ projectStatus[q.project] = "active"
    /\ currentStage[q.project] = q.stage
    /\ \A x \in Runs : submission[x] # "none" => req[x] # q
    /\ InsertRun(r, q)
    /\ submission' = [submission EXCEPT ![r] = "queued"]
    /\ UNCHANGED <<resultVars, review, credVars, currentStage, openGates, score, projectStatus>>

\* Slip: closing a run forgets its submission.
FailPendingSubmission_Forgets(r) == UNCHANGED submission

\* Closing a run that has not run to its end also fails its submission.
FailPendingSubmission(r) ==
  submission' = IF submission[r] \in {"queued", "evaluating"}
                THEN [submission EXCEPT ![r] = "failed"] ELSE submission

\* A cancelled run keeps its lease_owner: its worker learns of it by heartbeat.
Cancel(r) ==
  /\ status[r] \in {"queued"} \cup Active
  /\ status' = [status EXCEPT ![r] = "cancelled"]
  /\ events' = [events EXCEPT ![r] = Append(@, "cancelled")]
  /\ FailPendingSubmission(r)
  /\ UNCHANGED <<req, failure_class, lease_owner, lease_expired, queuedOutbox, resultVars,
                 review, credVars, currentStage, openGates, score, projectStatus>>

\* Staff review of a finished run: assign, escalate or approve it.
ReviewRun(r) ==
  /\ status[r] \in Terminal
  /\ \/ \E verdict \in {"assigned", "escalated"} : review' = [review EXCEPT ![r] = verdict]
     \/ /\ status[r] = "passed"
        /\ \E c \in Cases : evidence[r][c] # "none"
        /\ review' = [review EXCEPT ![r] = "approved"]
  /\ UNCHANGED <<runVars, resultVars, credVars, gateVars, projectStatus>>

\* A rerun is a new run of the same commit, stage, scope and credential; it
\* carries no submission, even when the run it repeats did.
ReviewRerun(r, new) ==
  /\ status[r] \in Terminal \ {"passed"}
  /\ InsertRun(new, [req[r] EXCEPT !.manifest = NoManifest])
  /\ review' = [review EXCEPT ![r] = "rerun_approved"]
  /\ UNCHANGED <<resultVars, credVars, gateVars, projectStatus>>

\* The owner of a credential revokes it, and every lease of it.
RevokeCredential(c) ==
  /\ c \notin credRevoked
  /\ credRevoked' = credRevoked \cup {c}
  /\ credLive'    = {r \in credLive : req[r].cred # c}
  /\ UNCHANGED <<runVars, resultVars, review, credHolder, gateVars, projectStatus>>

-----------------------------------------------------------------------------
(* Control requests of workers (WorkerControlService).                     *)

\* Slip: an expired run can be taken again, as if it were still queued.
Lease_Expired(w, r) ==
  /\ status[r] = "queued" \/ (status[r] \in Active /\ lease_expired[r])
  /\ status'        = [status EXCEPT ![r] = "leased"]
  /\ lease_owner'   = [lease_owner EXCEPT ![r] = w]
  /\ lease_expired' = [lease_expired EXCEPT ![r] = FALSE]
  /\ events'        = [events EXCEPT ![r] = Append(@, "leased")]
  /\ queuedOutbox'  = queuedOutbox \ {r}
  /\ UNCHANGED <<req, failure_class, resultVars, review, credVars, gateVars, projectStatus>>

\* A worker takes a queued run.  The query takes the oldest row that no other
\* transaction has locked (skip locked), which may be any of them.
Lease(w, r) ==
  /\ status[r] = "queued"
  /\ status'        = [status EXCEPT ![r] = "leased"]
  /\ lease_owner'   = [lease_owner EXCEPT ![r] = w]
  /\ lease_expired' = [lease_expired EXCEPT ![r] = FALSE]
  /\ events'        = [events EXCEPT ![r] = Append(@, "leased")]
  /\ queuedOutbox'  = queuedOutbox \ {r}
  /\ UNCHANGED <<req, failure_class, resultVars, review, credVars, gateVars, projectStatus>>

\* The run's repository binding, requester or commit is gone: fail closed.
\* Those tables belong to other components, so this may happen to any run.
LeaseRejected(r) ==
  /\ status[r] = "queued"
  /\ status'        = [status EXCEPT ![r] = "failed"]
  /\ failure_class' = [failure_class EXCEPT ![r] = "infra_failure"]
  /\ events'        = [events EXCEPT ![r] = Append(@, "failed")]
  /\ queuedOutbox'  = queuedOutbox \ {r}
  /\ FailPendingSubmission(r)
  /\ UNCHANGED <<req, lease_owner, lease_expired, resultVars, review, credVars,
                 currentStage, openGates, score, projectStatus>>

\* A heartbeat renews an active lease, late or not; of a cancelled run it only
\* returns the status, which is no step here.
Heartbeat(w, r) ==
  /\ lease_owner[r] = w
  /\ status[r] \in Active
  /\ lease_expired' = [lease_expired EXCEPT ![r] = FALSE]
  /\ UNCHANGED <<req, status, failure_class, lease_owner, events, queuedOutbox,
                 resultVars, review, credVars, gateVars, projectStatus>>

\* Slip: a repeated start request is accepted.
Start_Repeats(w, r) ==
  /\ lease_owner[r] = w
  /\ status[r] \in Active
  /\ status'        = [status EXCEPT ![r] = "running"]
  /\ lease_expired' = [lease_expired EXCEPT ![r] = FALSE]
  /\ events'        = [events EXCEPT ![r] = Append(@, "step_started")]
  /\ UNCHANGED <<req, failure_class, lease_owner, queuedOutbox, resultVars, review, credVars,
                 gateVars, projectStatus>>

\* The runner accepted the run: the run and its submission move on.
Start(w, r) ==
  /\ lease_owner[r] = w
  /\ status[r] = "leased"
  /\ status'        = [status EXCEPT ![r] = "running"]
  /\ lease_expired' = [lease_expired EXCEPT ![r] = FALSE]
  /\ events'        = [events EXCEPT ![r] = Append(@, "step_started")]
  /\ submission'    = IF submission[r] = "queued"
                      THEN [submission EXCEPT ![r] = "evaluating"] ELSE submission
  /\ UNCHANGED <<req, failure_class, lease_owner, queuedOutbox, resultVars, review, credVars,
                 currentStage, openGates, score, projectStatus>>

\* Slip: an evidence report checks the owner of the run but not its status.
ReportEvidence_AnyStatus(w, r, reported, labels) ==
  /\ lease_owner[r] = w
  /\ evidence' = [evidence EXCEPT ![r] =
       [c \in Cases |-> IF evidence[r][c] = "none" THEN reported[c] ELSE evidence[r][c]]]
  /\ objects'  = [objects EXCEPT ![r] = @ \cup labels]
  /\ UNCHANGED <<runVars, review, credVars, gateVars, projectStatus>>

\* Evidence and objects are inserted unless their key is already there; a
\* report that contradicts a stored object is rejected as a whole.
ReportEvidence(w, r, reported, labels) ==
  /\ lease_owner[r] = w
  /\ status[r] \in Active
  /\ evidence' = [evidence EXCEPT ![r] =
       [c \in Cases |-> IF evidence[r][c] = "none" THEN reported[c] ELSE evidence[r][c]]]
  /\ objects'  = [objects EXCEPT ![r] = @ \cup labels]
  /\ UNCHANGED <<runVars, review, credVars, gateVars, projectStatus>>

\* The worker unseals the run's credential for the runner, while its lease is
\* current and the credential is not revoked.
LeaseCredential(w, r) ==
  /\ status[r] \in Active
  /\ lease_owner[r] = w
  /\ ~lease_expired[r]
  /\ req[r].cred # NoCred
  /\ req[r].cred \notin credRevoked
  /\ projectStatus[req[r].project] = "active"
  /\ credHolder[r] \in {NoOwner, w}
  /\ credHolder' = [credHolder EXCEPT ![r] = w]
  /\ credLive'   = credLive \cup {r}
  /\ UNCHANGED <<runVars, resultVars, review, credRevoked, gateVars, projectStatus>>
-----------------------------------------------------------------------------
(* The terminal commit of a run and what hangs off it.                     *)

\* pipeline_runs.total and .passed, which every evidence report recomputes.
Recorded(r) == {c \in Cases : evidence[r][c] # "none"}
Total(r)    == Cardinality(Recorded(r))
Passed(r)   == Cardinality({c \in Cases : evidence[r][c] = "pass"})

\* The stage whose gate configures the verdict: the project's current stage at
\* the time of the commit, not the stage the run was submitted for.
GateStage(r) == currentStage[req[r].project]

\* Showcase artifacts the gate requires and no run of the same commit and stage
\* has stored.  Only runs with a submission are held to them.
MissingShowcase(r) ==
  IF submission[r] = "none" THEN {}
  ELSE Showcase[GateStage(r)] \
         UNION {objects[x] : x \in {y \in Created : /\ req[y].project = req[r].project
                                                    /\ req[y].commit = req[r].commit
                                                    /\ req[y].stage = req[r].stage}}

\* Runs of project p that may count for its score.
Scoreable(p, runStatus, scopes) ==
  {r \in Created : /\ req[r].project = p /\ req[r].scope \in scopes
                   /\ runStatus[r] \in {"passed", "failed"} /\ Recorded(r) # {}}
NewestOfStage(runs) ==
  {r \in runs : \A x \in runs : req[x].stage = req[r].stage => x <= r}

\* Slip: every scoreable final run counts, not the newest of its stage.
GradedRuns_All(p, runStatus) == Scoreable(p, runStatus, {"final"})

GradedRuns(p, runStatus) == NewestOfStage(Scoreable(p, runStatus, {"final"}))

\* Slip: a baseline is drafted over a score that is frozen or published.
DraftBaseline_Always(p, runStatus) ==
  score' = [score EXCEPT ![p] = [version |-> @.version + 1, state |-> "draft",
                                 refs |-> GradedRuns(p, runStatus)]]

\* A passing submission inserts the next draft of the project's score.
DraftBaseline(p, runStatus) ==
  /\ score[p].state \in {"none", "draft"}
  /\ score' = [score EXCEPT ![p] = [version |-> @.version + 1, state |-> "draft",
                                    refs |-> GradedRuns(p, runStatus)]]

\* Completing a submission moves its project from its current stage to the next
\* one and opens that gate; at the last stage it changes nothing.
AdvanceStage(p) ==
  IF currentStage[p] < LastStage
  THEN /\ currentStage' = [currentStage EXCEPT ![p] = @ + 1]
       /\ openGates'    = openGates \cup {currentStage[p] + 1}
  ELSE UNCHANGED <<currentStage, openGates>>

\* Slip: a submission that waits for its manual review advances the project.
SettleSubmission_Early(r, verdict) ==
  LET p == req[r].project IN
  IF submission[r] = "none" THEN UNCHANGED gateVars
  ELSE /\ submission' = [submission EXCEPT ![r] =
                           IF verdict # "passed" THEN "failed"
                           ELSE IF GateStage(r) \in ManualReview THEN "candidate" ELSE "complete"]
       /\ IF verdict = "passed" THEN DraftBaseline(p, status') /\ AdvanceStage(p)
          ELSE UNCHANGED <<score, currentStage, openGates>>

\* The submission of run r after the run ended with the given verdict.
SettleSubmission(r, verdict) ==
  LET p      == req[r].project
      settled == IF verdict # "passed" THEN "failed"
                 ELSE IF GateStage(r) \in ManualReview THEN "candidate" ELSE "complete"
  IN IF submission[r] = "none" THEN UNCHANGED gateVars
     ELSE /\ submission' = [submission EXCEPT ![r] = settled]
          /\ IF verdict = "passed" THEN DraftBaseline(p, status') ELSE UNCHANGED score
          /\ IF settled = "complete" THEN AdvanceStage(p)
             ELSE UNCHANGED <<currentStage, openGates>>

\* Slips: the terminal commit does not check the owner, or the evidence.
MayComplete_AnyOwner(w, r, verdict, records, objectCount) ==
  /\ status[r] \in Active
  /\ records = Total(r)
  /\ objectCount = Cardinality(objects[r])
  /\ verdict = "passed" => Total(r) > 0 /\ Passed(r) = Total(r)

MayComplete_AnyEvidence(w, r, verdict, records, objectCount) ==
  /\ lease_owner[r] = w
  /\ records = Total(r)
  /\ objectCount = Cardinality(objects[r])

\* What the worker must show before any terminal commit: it owns the run, its
\* counts match what is stored, and a pass is backed by evidence.
MayComplete(w, r, verdict, records, objectCount) ==
  /\ lease_owner[r] = w
  /\ records = Total(r)
  /\ objectCount = Cardinality(objects[r])
  /\ verdict = "passed" => Total(r) > 0 /\ Passed(r) = Total(r)

\* Slip: the end of a run leaves its owner in place.
ReleaseRun_KeepsOwner(r) == UNCHANGED <<lease_owner, lease_expired>>

\* Ending a run clears lease_owner and leased_until.
ReleaseRun(r) ==
  /\ lease_owner'   = [lease_owner EXCEPT ![r] = NoOwner]
  /\ lease_expired' = [lease_expired EXCEPT ![r] = FALSE]

\* The worker's own lease of the run's credential ends with the run.
RevokeLeaseOf(w, r) ==
  credLive' = IF credHolder[r] = w THEN credLive \ {r} ELSE credLive

\* Missing showcase artifacts turn a pass into a failure, and they replace the
\* failure class whatever the worker reported.
Complete(w, r, verdict, class, records, objectCount) ==
  LET missing == MissingShowcase(r)
      final   == IF verdict = "passed" /\ missing # {} THEN "failed" ELSE verdict
      blamed  == IF missing # {} THEN "verification_failure"
                 ELSE IF class = "none" /\ final = "failed" THEN "verification_failure"
                 ELSE class
  IN /\ MayComplete(w, r, verdict, records, objectCount)
     /\ status[r] # "cancelled"
     /\ status'        = [status EXCEPT ![r] = final]
     /\ failure_class' = [failure_class EXCEPT ![r] = blamed]
     /\ events'        = [events EXCEPT ![r] = Append(@, final)]
     /\ ReleaseRun(r)
     /\ RevokeLeaseOf(w, r)
     /\ SettleSubmission(r, final)
     /\ UNCHANGED <<req, queuedOutbox, resultVars, review, credRevoked, credHolder,
                    projectStatus>>

\* The worker of a cancelled run only releases it.
CompleteCancelled(w, r, verdict, records, objectCount) ==
  /\ MayComplete(w, r, verdict, records, objectCount)
  /\ status[r] = "cancelled"
  /\ ReleaseRun(r)
  /\ RevokeLeaseOf(w, r)
  /\ UNCHANGED <<req, status, failure_class, events, queuedOutbox, resultVars, review,
                 credRevoked, credHolder, gateVars, projectStatus>>

\* A teacher decides on a submission that waits for manual review.  Approval
\* checks the evidence its project's current gate requires.
ApproveSubmission(r) ==
  /\ submission[r] = "candidate"
  /\ \A need \in RequiredEvidence[GateStage(r)] : evidence[r][need[1]] = need[2]
  /\ ReviewArtifacts[GateStage(r)] \subseteq objects[r]
  /\ submission' = [submission EXCEPT ![r] = "complete"]
  /\ AdvanceStage(req[r].project)
  /\ UNCHANGED <<runVars, resultVars, review, credVars, score, projectStatus>>

\* A rejected submission fails; its run and the score draft stay as they are.
RejectSubmission(r) ==
  /\ submission[r] = "candidate"
  /\ submission' = [submission EXCEPT ![r] = "failed"]
  /\ UNCHANGED <<runVars, resultVars, review, credVars, currentStage, openGates, score,
                 projectStatus>>

-----------------------------------------------------------------------------
(* What teachers do to scores while runs are in flight (GradingService;    *)
(* adjustments and appeals are in Grading).                                *)

\* Runs of whatever scope.
CalculatedRuns(p) == NewestOfStage(Scoreable(p, status, Scopes))

\* The teacher's own baseline.  It is always version 1, so the unique index
\* rejects it where a submission has drafted one.  It freezes the project.
CalculateScore(p) ==
  /\ projectStatus[p] = "active"
  /\ CalculatedRuns(p) # {}
  /\ score[p].state = "none"
  /\ score' = [score EXCEPT ![p] = [version |-> 1, state |-> "draft",
                                    refs |-> CalculatedRuns(p)]]
  /\ projectStatus' = [projectStatus EXCEPT ![p] = "frozen"]
  /\ UNCHANGED <<runVars, resultVars, review, credVars, submission, currentStage, openGates>>

\* A copy of the newest snapshot, one step further.
FreezeScore(p) ==
  /\ score[p].state = "draft"
  /\ score' = [score EXCEPT ![p].version = @ + 1, ![p].state = "frozen"]
  /\ UNCHANGED <<runVars, resultVars, review, credVars, submission, currentStage, openGates,
                 projectStatus>>

PublishScore(p) ==
  /\ score[p].state = "frozen"
  /\ projectStatus[p] = "frozen"
  /\ score' = [score EXCEPT ![p].version = @ + 1, ![p].state = "published"]
  /\ projectStatus' = [projectStatus EXCEPT ![p] = "graded"]
  /\ UNCHANGED <<runVars, resultVars, review, credVars, submission, currentStage, openGates>>

-----------------------------------------------------------------------------
(* Expiry and recovery (recoverExpiredPipelineLeaseOne of any worker).     *)

\* Nothing renewed the lease for two minutes.  The worker sends no heartbeat
\* while it starts a runner or collects evidence, so this may happen while the
\* worker is alive.  Nothing reads the expiry of other runs.
LeaseExpires(r) ==
  /\ status[r] \in Active
  /\ lease_expired' = [lease_expired EXCEPT ![r] = TRUE]
  /\ UNCHANGED <<req, status, failure_class, lease_owner, events, queuedOutbox,
                 resultVars, review, credVars, gateVars, projectStatus>>

\* Slip: a recovery takes leases that have not expired.
RecoverClaim_Early(v, r) ==
  /\ status[r] \in Active
  /\ lease_owner'   = [lease_owner EXCEPT ![r] = Recoverer(v)]
  /\ lease_expired' = [lease_expired EXCEPT ![r] = FALSE]
  /\ UNCHANGED <<req, status, failure_class, events, queuedOutbox, resultVars, review,
                 credVars, gateVars, projectStatus>>

\* Slip: only runs that were started are recovered.
RecoverClaim_RunningOnly(v, r) ==
  /\ status[r] = "running"
  /\ lease_expired[r]
  /\ lease_owner'   = [lease_owner EXCEPT ![r] = Recoverer(v)]
  /\ lease_expired' = [lease_expired EXCEPT ![r] = FALSE]
  /\ UNCHANGED <<req, status, failure_class, events, queuedOutbox, resultVars, review,
                 credVars, gateVars, projectStatus>>

\* A worker claims an expired run for recovery, possibly from another recovery.
RecoverClaim(v, r) ==
  /\ status[r] \in Active
  /\ lease_expired[r]
  /\ lease_owner'   = [lease_owner EXCEPT ![r] = Recoverer(v)]
  /\ lease_expired' = [lease_expired EXCEPT ![r] = FALSE]
  /\ UNCHANGED <<req, status, failure_class, events, queuedOutbox, resultVars, review,
                 credVars, gateVars, projectStatus>>

\* Containers could not be removed: the claim is given up for another attempt.
RecoverCleanupFailed(v, r) ==
  /\ lease_owner[r] = Recoverer(v)
  /\ lease_expired' = [lease_expired EXCEPT ![r] = TRUE]
  /\ UNCHANGED <<req, status, failure_class, lease_owner, events, queuedOutbox, resultVars,
                 review, credVars, gateVars, projectStatus>>

\* Slip: a recovered run keeps its credential lease.
RecoverCommit_KeepsCredential(v, r) ==
  /\ lease_owner[r] = Recoverer(v)
  /\ status[r] \in Active
  /\ status'        = [status EXCEPT ![r] = "failed"]
  /\ failure_class' = [failure_class EXCEPT ![r] = "infra_failure"]
  /\ events'        = [events EXCEPT ![r] = Append(@, "failed")]
  /\ lease_owner'   = [lease_owner EXCEPT ![r] = NoOwner]
  /\ lease_expired' = [lease_expired EXCEPT ![r] = FALSE]
  /\ UNCHANGED <<req, queuedOutbox, resultVars, review, credVars, gateVars, projectStatus>>

\* The run is failed closed.  Its assessment submission is not touched.
RecoverCommit(v, r) ==
  /\ lease_owner[r] = Recoverer(v)
  /\ status[r] \in Active
  /\ status'        = [status EXCEPT ![r] = "failed"]
  /\ failure_class' = [failure_class EXCEPT ![r] = "infra_failure"]
  /\ events'        = [events EXCEPT ![r] = Append(@, "failed")]
  /\ ReleaseRun(r)
  /\ credLive'      = credLive \ {r}
  /\ UNCHANGED <<req, queuedOutbox, resultVars, review, credRevoked, credHolder, gateVars,
                 projectStatus>>

-----------------------------------------------------------------------------
ClientStep(r) ==
  \/ Trigger(r) \/ Submit(r) \/ Cancel(r) \/ ReviewRun(r)
  \/ \E new \in Runs : ReviewRerun(r, new)
  \/ ApproveSubmission(r) \/ RejectSubmission(r)

TeacherStep(p) == CalculateScore(p) \/ FreezeScore(p) \/ PublishScore(p)

\* What worker w reports of run r: any partial evidence, any objects.
ReportSome(w, r) ==
  \E reported \in [Cases -> {"none", "pass", "fail"}], labels \in SUBSET Labels :
    ReportEvidence(w, r, reported, labels)

\* The reports worker.ts makes: a failure class goes with a failure only.
Reports == {<<v, "none">> : v \in Terminal \ {"failed"}}
             \cup {<<"failed", "verification_failure">>, <<"failed", "infra_failure">>}

\* Any report with any counts a worker may believe in.
CompleteSome(w, r) ==
  \E report \in Reports, records \in 0 .. Cardinality(Cases),
     objectCount \in 0 .. Cardinality(Labels) :
    \/ Complete(w, r, report[1], report[2], records, objectCount)
    \/ CompleteCancelled(w, r, report[1], records, objectCount)

WorkerStep(w, r) ==
  \/ Lease(w, r) \/ Heartbeat(w, r) \/ Start(w, r) \/ LeaseCredential(w, r)
  \/ ReportSome(w, r) \/ CompleteSome(w, r)
  \/ RecoverClaim(w, r) \/ RecoverCleanupFailed(w, r) \/ RecoverCommit(w, r)

Next ==
  \/ \E r \in Runs : ClientStep(r) \/ LeaseRejected(r) \/ LeaseExpires(r)
  \/ \E c \in Creds : RevokeCredential(c)
  \/ \E p \in Projects : TeacherStep(p)
  \/ \E w \in Workers, r \in Runs : WorkerStep(w, r)

Spec == Init /\ [][Next]_vars
-----------------------------------------------------------------------------
(* Correctness.                                                            *)

ScoreStates == {"none", "draft", "frozen", "published"}

TypeOK ==
  /\ req \in [Runs -> Requests \cup {NoRequest}]
  /\ status \in [Runs -> Statuses]
  /\ failure_class \in [Runs -> {"none", "verification_failure", "infra_failure"}]
  /\ lease_owner \in [Runs -> Owners]
  /\ lease_expired \in [Runs -> BOOLEAN]
  /\ evidence \in [Runs -> [Cases -> {"none", "pass", "fail"}]]
  /\ objects \in [Runs -> SUBSET Labels]
  /\ events \in [Runs -> Seq(EventTypes)]
  /\ queuedOutbox \subseteq Runs
  /\ review \in [Runs -> {"none", "assigned", "approved", "escalated", "rerun_approved"}]
  /\ credRevoked \subseteq Creds
  /\ credHolder \in [Runs -> Workers \cup {NoOwner}]
  /\ credLive \subseteq Runs
  /\ submission \in [Runs -> {"none", "queued", "evaluating", "candidate", "complete", "failed"}]
  /\ projectStatus \in [Projects -> {"provisioning", "active", "frozen", "graded", "archived"}]
  /\ currentStage \in [Projects -> Stages]
  /\ openGates \subseteq Stages
  /\ score \in [Projects -> [version : Nat, state : ScoreStates, refs : SUBSET Runs]]

\* A verdict is final: no late, duplicated or recovered request changes the
\* status, failure class, evidence, objects or event log of a finished run.
VerdictIsFinal ==
  [][\A r \in Runs : status[r] \in Terminal =>
       /\ status'[r] = status[r] /\ failure_class'[r] = failure_class[r]
       /\ evidence'[r] = evidence[r] /\ objects'[r] = objects[r]
       /\ events'[r] = events[r]]_vars

\* Clients that poll events see each run queued first, leased at most once
\* before it starts, and finished exactly once, last, with the verdict the run
\* keeps; a run that is not finished shows no verdict.
EventLogTellsStory ==
  \A r \in Created :
    LET log == events[r] IN
    /\ log # <<>> /\ log[1] = "queued"
    /\ \A i \in 2 .. Len(log) : log[i] # "queued" /\ (log[i] = "leased" => i = 2)
    /\ \A i \in 1 .. Len(log) : log[i] = "step_started" => i = 3 /\ log[2] = "leased"
    /\ \A i \in 1 .. Len(log) : log[i] \in Terminal => i = Len(log)
    /\ status[r] \in Terminal => log[Len(log)] = status[r]
    /\ status[r] \notin Terminal => log[Len(log)] \notin Terminal

\* A run is owned exactly while a worker or a recovery still has to end it.
\* Only a cancelled run may stay owned, until its worker releases it.
OwnedWhileActive ==
  \A r \in Runs :
    /\ status[r] \in Active => lease_owner[r] # NoOwner
    /\ status[r] \notin Active \cup {"cancelled"} => lease_owner[r] = NoOwner

\* Over its whole life a run has one worker: ownership goes from nobody to a
\* worker only when the run is taken from the queue, from there only to a
\* recovery of the expired lease, and from anyone to nobody for good.
OneWorkerPerRun ==
  [][\A r \in Runs : lease_owner'[r] # lease_owner[r] =>
       \/ lease_owner'[r] \in Workers /\ status[r] = "queued" /\ lease_owner[r] = NoOwner
       \/ lease_owner'[r] \in Recoverers /\ lease_expired[r] /\ lease_owner[r] # NoOwner
       \/ lease_owner'[r] = NoOwner /\ status'[r] \in Terminal]_vars

\* The unsealed model credential of a run never outlives the run's lease or the
\* credential itself: a live credential lease belongs to the worker that holds
\* the run (or held it until a recovery took over), of an unrevoked credential.
CredentialConfined ==
  \A r \in credLive :
    /\ lease_owner[r] \in {credHolder[r]} \cup Recoverers
    /\ credHolder[r] \in Workers
    /\ req[r].cred \in Creds \ credRevoked

\* Once a recovery has claimed a run, the worker that lost it writes nothing:
\* no evidence, no start, and no verdict but the recovery's own or a cancel.
RecoveryFencesWorker ==
  [][\A r \in Runs : lease_owner[r] \in Recoverers =>
       /\ evidence'[r] = evidence[r] /\ objects'[r] = objects[r]
       /\ \/ status'[r] = status[r]
          \/ status'[r] = "failed" /\ failure_class'[r] = "infra_failure"
          \/ status'[r] = "cancelled"
       /\ r \in credLive' => r \in credLive]_vars

\* A submission never gets ahead of its run: it awaits review or is complete
\* only if the run passed on evidence that is all passing, it is evaluating only
\* after the run was started, and it is still open on a finished run only if
\* the run was failed as an infrastructure failure.
SubmissionFollowsRun ==
  \A r \in Runs :
    /\ submission[r] \in {"candidate", "complete"} =>
         status[r] = "passed" /\ Total(r) > 0 /\ Passed(r) = Total(r)
    /\ submission[r] = "evaluating" => status[r] \in {"running", "failed"}
    /\ submission[r] \in {"queued", "evaluating"} /\ status[r] \in Terminal =>
         status[r] = "failed" /\ failure_class[r] = "infra_failure"

\* Every stage a project has moved past was paid for by a completed submission
\* of its own, and exactly the gates up to the furthest project are open.
StagesArePaidFor ==
  /\ \A p \in Projects :
       currentStage[p] <=
         Cardinality({r \in Runs : submission[r] = "complete" /\ req[r].project = p})
  /\ openGates = {s \in Stages : s = 0 \/ \E p \in Projects : s <= currentStage[p]}

\* The snapshots of a project's score are one for every submission that ever
\* passed, one that its teacher calculated, one frozen and one published: no run
\* passes without its baseline, and none replaces a score that teachers froze.
Calculated(p) == projectStatus[p] # "active"
SnapshotsOf(p) ==
  Cardinality({r \in Runs : /\ submission[r] # "none" /\ status[r] = "passed"
                            /\ req[r].project = p})
  + (IF Calculated(p) THEN 1 ELSE 0)
  + (CASE score[p].state = "frozen" -> 1 [] score[p].state = "published" -> 2 [] OTHER -> 0)

\* The newest one rests on runs of its own project, with evidence, that have
\* ended, at most one for each stage, and on final ones unless a teacher took
\* others.
DraftRestsOnFinalRuns ==
  \A p \in Projects :
    /\ score[p].version = SnapshotsOf(p)
    /\ \A r \in score[p].refs :
         /\ req[r].project = p /\ (req[r].scope = "final" \/ Calculated(p))
         /\ status[r] \in {"passed", "failed"} /\ Recorded(r) # {}
         /\ \A x \in score[p].refs : req[x].stage = req[r].stage => x = r

\* The portal's runs are runs as RunLifecycle promises them.
LifecycleState == [r \in Runs |-> IF status[r] \in Active THEN "claimed" ELSE status[r]]
L == INSTANCE RunLifecycle WITH state <- LifecycleState, results <- evidence
ImplementsRunLifecycle == L!Spec

\* The scores of its projects are as ScoreLifecycle promises them: what Grading
\* says of submissions in flight is true of runs and their workers.
Evaluating(p) == {r \in Runs : /\ submission[r] # "none" /\ req[r].project = p
                               /\ status[r] \in {"queued"} \cup Active}
OpenSubmissions == [p \in Projects |-> Cardinality(Evaluating(p))]
StateOfScore    == [p \in Projects |-> score[p].state]
VersionOfScore  == [p \in Projects |-> score[p].version]
Scores == INSTANCE ScoreLifecycle WITH project <- projectStatus, open <- OpenSubmissions,
                                       state <- StateOfScore, version <- VersionOfScore
ImplementsScoreLifecycle == Scores!Spec

-----------------------------------------------------------------------------
(* What the documentation says and the transactions do not keep.           *)

\* 09-roles-workflow-and-stage-gates.md section 4: a stage that has not been
\* passed must not unlock the next one, so a project has a completed submission
\* of every stage behind it.
StagesPassedInOrder ==
  \A p \in Projects, s \in Stages :
    s < currentStage[p] => \E r \in Runs : /\ submission[r] = "complete"
                                           /\ req[r].project = p /\ req[r].stage = s
=============================================================================
