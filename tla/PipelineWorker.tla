--------------------------- MODULE PipelineWorker ---------------------------
(***************************************************************************)
(* The evaluation part of the portal worker's loop (runWorker), put on top *)
(* of the control plane of PipelineRuns: a worker takes a run, boots a     *)
(* runner container for it, waits, reports evidence and closes the run; or *)
(* it recovers a run whose lease has expired.  A worker is one sequential  *)
(* loop.  Requests may be refused, their replies may be lost, the worker   *)
(* may crash and restart anywhere, and its lease may expire while it is    *)
(* still at work; containers outlive all of that.                          *)
(***************************************************************************)
EXTENDS PipelineRuns

CONSTANT MaxFaults   \* bound: how many crashes, failed removals and slow recoveries occur
ASSUME FaultsAssumption == MaxFaults \in Nat

VARIABLES
  task,        \* what each worker is doing, kept in its process only
  containers,  \* runner containers that exist: <<worker that booted it, run label>>
  faults       \* how many of those have occurred

workerVars == <<task, containers, faults>>
wvars      == <<vars, workerVars>>

NoRun == 0
Executing  == {"claimed", "prepared", "booting", "booted", "running", "ended", "reported",
               "closing", "unwinding", "failing"}
Recovering == {"sweeping", "swept"}

\* Statuses of a run in vos serve; "partial" stands for every other final one.
RunnerStatuses == {"ok", "partial", "cancelled", "timed_out"}

\* Slip: an unfinished verification counts as a pass.
portalRunStatus_Lenient(s) == IF s \in {"ok", "partial"} THEN "passed" ELSE s

portalRunStatus(s) == IF s = "ok" THEN "passed" ELSE IF s = "partial" THEN "failed" ELSE s

\* at: place in the loop; said: what the runner answered; records and objects:
\* the counts of terminalContext.
Doing(at, r, said, records, objs) ==
  [at |-> at, run |-> r, said |-> said, records |-> records, objects |-> objs]
Begin(at, r) == Doing(at, r, "none", 0, 0)
Idle         == Begin("idle", NoRun)

WInit == /\ Init
         /\ task = [w \in Workers |-> Idle]
         /\ containers = {}
         /\ faults = 0

At(w, places) == task[w].at \in places
Go(w, at)     == task' = [task EXCEPT ![w].at = at]
Quit(w)       == task' = [task EXCEPT ![w] = Idle]
Fault         == faults < MaxFaults /\ faults' = faults + 1

\* An exception inside the try block: a booted runner is cleaned up first.
Throw(w) == Go(w, IF task[w].at \in {"prepared", "booting"} THEN "failing" ELSE "unwinding")

-----------------------------------------------------------------------------
(* Taking a run and booting its runner.                                    *)

TakeRun(w, r) ==
  /\ At(w, {"idle"})
  /\ \/ Lease(w, r) /\ task' = [task EXCEPT ![w] = Begin("claimed", r)]
     \/ LeaseRejected(r) /\ UNCHANGED task
  /\ UNCHANGED <<containers, faults>>

\* The heartbeat with the run's id: renewed, answered "cancelled", or refused.
HeartbeatRefused(w, r) == \/ lease_owner[r] # w
                          \/ status[r] \notin Active \cup {"cancelled"}
SeesCancelled(w, r) == lease_owner[r] = w /\ status[r] = "cancelled"

\* The first heartbeat ignores a cancellation; refused, it ends the process.
FirstHeartbeat(w) ==
  LET r == task[w].run IN
  /\ At(w, {"claimed"})
  /\ \/ Heartbeat(w, r) /\ Go(w, "prepared")
     \/ SeesCancelled(w, r) /\ Go(w, "prepared") /\ UNCHANGED vars
     \/ HeartbeatRefused(w, r) /\ Quit(w) /\ UNCHANGED vars
  /\ UNCHANGED <<containers, faults>>

\* leaseForRun: a run without a credential needs nothing; any refusal throws.
PrepareCredential(w) ==
  LET r == task[w].run IN
  /\ At(w, {"prepared"})
  /\ \/ req[r].cred = NoCred /\ Go(w, "booting") /\ UNCHANGED vars
     \/ LeaseCredential(w, r) /\ Go(w, "booting")
     \/ req[r].cred # NoCred /\ Throw(w) /\ UNCHANGED vars
  /\ UNCHANGED <<containers, faults>>

\* runtime.start needs no lease: a worker that lost the run boots a runner too.
Boot(w) ==
  /\ At(w, {"booting"})
  /\ containers' = containers \cup {<<w, task[w].run>>}
  /\ Go(w, "booted")
  /\ UNCHANGED <<vars, faults>>

\* A failed start removes its container again, and ignores it if that fails.
BootFails(w) ==
  /\ At(w, {"booting"})
  /\ Throw(w)
  /\ \/ UNCHANGED <<containers, faults>>
     \/ Fault /\ containers' = containers \cup {<<w, task[w].run>>}
  /\ UNCHANGED vars

\* The run is posted to the runner and the portal is told.
StartRun(w) ==
  /\ At(w, {"booted"})
  /\ Start(w, task[w].run)
  /\ Go(w, "running")
  /\ UNCHANGED <<containers, faults>>

-----------------------------------------------------------------------------
(* Waiting for the runner (waitForRun), then reporting.                    *)

Answered(w, s) == task' = [task EXCEPT ![w] = Doing("ended", task[w].run, s, 0, 0)]

WaitHeartbeat(w) ==
  LET r == task[w].run IN
  /\ At(w, {"running"})
  /\ \/ Heartbeat(w, r) /\ UNCHANGED task
     \/ SeesCancelled(w, r) /\ Answered(w, "cancelled") /\ UNCHANGED vars
     \/ HeartbeatRefused(w, r) /\ Throw(w) /\ UNCHANGED vars
  /\ UNCHANGED <<containers, faults>>

\* The runner is through, or the worker's deadline is over ("timed_out").
RunnerEnds(w) ==
  /\ At(w, {"running"})
  /\ \E s \in RunnerStatuses : Answered(w, s)
  /\ UNCHANGED <<vars, containers, faults>>

\* Evidence is collected and reported unless the run was cut short.  If the
\* reply is lost the worker does not know what it has reported.
Report(w) ==
  LET r == task[w].run IN
  /\ At(w, {"ended"})
  /\ IF portalRunStatus(task[w].said) \in {"cancelled", "timed_out"}
     THEN Go(w, "reported") /\ UNCHANGED vars
     ELSE \E reported \in [Cases -> {"none", "pass", "fail"}], labels \in SUBSET Labels :
            /\ ReportEvidence(w, r, reported, labels)
            /\ \/ task' = [task EXCEPT ![w] =
                    Doing("reported", r, task[w].said,
                          Cardinality({c \in Cases : reported[c] # "none"}), Cardinality(labels))]
               \/ Throw(w)
  /\ UNCHANGED <<containers, faults>>

\* The terminal request of run r, with what the worker knows it has reported.
Close(w, r, verdict, class) ==
  \/ Complete(w, r, verdict, class, task[w].records, task[w].objects)
  \/ CompleteCancelled(w, r, verdict, task[w].records, task[w].objects)

\* The reply may be lost after the commit.
CloseRun(w) ==
  LET verdict == portalRunStatus(task[w].said) IN
  /\ At(w, {"reported"})
  /\ Close(w, task[w].run, verdict, IF verdict = "failed" THEN "verification_failure" ELSE "none")
  /\ Go(w, "closing") \/ Throw(w)
  /\ UNCHANGED <<containers, faults>>

\* Anything inside the try block may fail: a portal or runner request is lost
\* or refused, evidence cannot be collected or disagrees with the status.
StepFails(w) ==
  /\ At(w, {"booted", "running", "ended", "reported"})
  /\ Throw(w)
  /\ UNCHANGED <<vars, containers, faults>>

-----------------------------------------------------------------------------
(* Leaving a run: session.cleanup, then the catch block if something threw. *)

Cleanup(w) ==
  /\ At(w, {"closing", "unwinding"})
  /\ \/ /\ containers' = containers \ {<<w, task[w].run>>}
        /\ IF At(w, {"closing"}) THEN Quit(w) ELSE Go(w, "failing")
        /\ UNCHANGED faults
     \/ Fault /\ Go(w, "failing") /\ UNCHANGED containers
  /\ UNCHANGED vars

\* Slip: the catch block leaves the failure class to the portal's default.
FailRun_Unclassified(w) ==
  /\ At(w, {"failing"})
  /\ Close(w, task[w].run, "failed", "none") \/ UNCHANGED vars
  /\ Quit(w)
  /\ UNCHANGED <<containers, faults>>

\* The catch block reports an infrastructure failure; if that is refused or
\* lost, it is only logged and the loop goes on.
FailRun(w) ==
  /\ At(w, {"failing"})
  /\ Close(w, task[w].run, "failed", "infra_failure") \/ UNCHANGED vars
  /\ Quit(w)
  /\ UNCHANGED <<containers, faults>>

\* The worker's process ends; only containers stay.  It restarts idle.
Crash(w) ==
  /\ ~At(w, {"idle"})
  /\ Fault
  /\ Quit(w)
  /\ UNCHANGED <<vars, containers>>

-----------------------------------------------------------------------------
(* Recovering a run (recoverExpiredPipelineLeaseOne).                      *)

Sweep(w, r) ==
  /\ At(w, {"idle"})
  /\ RecoverClaim(w, r)
  /\ task' = [task EXCEPT ![w] = Begin("sweeping", r)]
  /\ UNCHANGED <<containers, faults>>

Labelled(r) == {c \in containers : c[2] = r}

\* cleanupRun removes every container with the run's label.
RemoveContainers(w) ==
  /\ At(w, {"sweeping"})
  /\ containers' = containers \ Labelled(task[w].run)
  /\ Go(w, "swept")
  /\ UNCHANGED <<vars, faults>>

\* Some container stays: the claim is given up, and the exception ends the
\* process.
RemovalFails(w) ==
  LET r == task[w].run IN
  /\ At(w, {"sweeping"})
  /\ Fault
  /\ \E gone \in SUBSET Labelled(r) : containers' = containers \ gone
  /\ \/ RecoverCleanupFailed(w, r)
     \/ lease_owner[r] # Recoverer(w) /\ UNCHANGED vars
  /\ Quit(w)

\* The run is failed; if the claim was lost or the run cancelled, the exception
\* ends the process.
FinishRecovery(w) ==
  LET r == task[w].run IN
  /\ At(w, {"swept"})
  /\ \/ RecoverCommit(w, r)
     \/ ~(lease_owner[r] = Recoverer(w) /\ status[r] \in Active) /\ UNCHANGED vars
  /\ Quit(w)
  /\ UNCHANGED <<containers, faults>>

-----------------------------------------------------------------------------
\* Steps of one worker that its program takes by itself.
Progress(w) ==
  \/ FirstHeartbeat(w) \/ PrepareCredential(w) \/ Boot(w) \/ BootFails(w) \/ StartRun(w)
  \/ Report(w) \/ CloseRun(w) \/ StepFails(w) \/ Cleanup(w) \/ FailRun(w)
  \/ RemoveContainers(w) \/ RemovalFails(w) \/ FinishRecovery(w)

Environment ==
  /\ \/ \E r \in Runs : ClientStep(r)
     \/ \E c \in Creds : RevokeCredential(c)
     \/ \E p \in Projects : TeacherStep(p)
  /\ UNCHANGED workerVars

\* A lease of two minutes may run out under a worker at work at any time.  That
\* a recovery, which only removes containers, outlives its own claim is a fault.
LeaseRunsOut(r) ==
  /\ LeaseExpires(r)
  /\ IF \E w \in Workers : At(w, Recovering) /\ lease_owner[r] = Recoverer(w)
     THEN Fault ELSE UNCHANGED faults
  /\ UNCHANGED <<task, containers>>

WNext ==
  \/ \E w \in Workers : \/ Progress(w) \/ WaitHeartbeat(w) \/ RunnerEnds(w) \/ Crash(w)
                        \/ \E r \in Runs : TakeRun(w, r) \/ Sweep(w, r)
  \/ \E r \in Runs : LeaseRunsOut(r)
  \/ Environment

\* Nobody renews the lease of a run that no worker is executing.
Abandoned(r) == \A w \in Workers : task[w].run # r
TimePasses(r) == Abandoned(r) /\ LeaseExpires(r) /\ UNCHANGED workerVars

\* A worker is restarted when its process ends, Docker and the portal answer or
\* fail, a runner ends or meets the worker's deadline, and clocks advance.
Fairness ==
  /\ \A w \in Workers : /\ WF_wvars(Progress(w))
                        /\ WF_wvars(RunnerEnds(w))
                        /\ WF_wvars(\E r \in Runs : Sweep(w, r))
                        /\ WF_wvars(\E r \in Runs : TakeRun(w, r))
  /\ \A r \in Runs : WF_wvars(TimePasses(r))

WSpec == WInit /\ [][WNext]_wvars /\ Fairness

-----------------------------------------------------------------------------
(* Correctness.                                                            *)

WorkerTypeOK ==
  /\ task \in [Workers -> [at : {"idle"} \cup Executing \cup Recovering,
                           run : Runs \cup {NoRun},
                           said : RunnerStatuses \cup {"none"},
                           records : 0 .. Cardinality(Cases),
                           objects : 0 .. Cardinality(Labels)]]
  /\ containers \subseteq Workers \X Runs
  /\ faults \in 0 .. MaxFaults

\* No run is ever evaluated twice: at most one worker executes it, however
\* leases expire, recoveries overlap and replies get lost.
OneExecution ==
  \A r \in Runs, v, w \in Workers :
    task[v].run = r /\ At(v, Executing) /\ task[w].run = r /\ At(w, Executing) => v = w

\* A verdict is the runner's own: a run passes only if the runner of the worker
\* that closes it said so, and a failure is blamed on the student's code only
\* if that runner said it failed or the showcase replay lacks material (even
\* when the runner never answered), never on a crash, timeout or lost request.
VerdictComesFromRunner ==
  [][\A r \in Runs : status[r] \in Active /\ status'[r] \in Terminal =>
       /\ status'[r] = "passed" =>
            \E w \in Workers : task[w].run = r /\ task[w].said = "ok"
       /\ failure_class'[r] = "verification_failure" =>
            \/ \E w \in Workers : task[w].run = r /\ task[w].said = "partial"
            \/ MissingShowcase(r) # {}]_wvars

\* Whatever fails on the way, a run that was submitted ends: a worker closes
\* it or its lease expires and a recovery does.
EveryRunEnds ==
  \A r \in Runs : status[r] # "absent" ~> status[r] \in Terminal
=============================================================================
