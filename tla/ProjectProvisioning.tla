------------------------ MODULE ProjectProvisioning ------------------------
(***************************************************************************)
(* Project provisioning in vos-portal.  A teacher creates a project; a row *)
(* of the outbox asks the workers to make its Gitea repository, invite the *)
(* members and register the push webhook; only then does the project       *)
(* become active.  The outbox row is leased for two minutes, requests to   *)
(* Gitea may fail or lose their reply, workers may crash, and a worker     *)
(* slower than its lease is overtaken by another one.                      *)
(***************************************************************************)
EXTENDS Integers, FiniteSets

CONSTANTS
  Projects, Workers, NoOwner, NoProject,
  MaxAttempts,   \* MAX_PROVISION_ATTEMPTS
  MaxCrashes,    \* bound: crashes of workers
  MaxRetries,    \* bound: retries teachers ask for
  MaxOvertakes   \* bound: leases that run out while their worker is at work

ASSUME BoundsAssumption ==
  /\ MaxAttempts \in Nat \ {0}
  /\ MaxCrashes \in Nat /\ MaxRetries \in Nat /\ MaxOvertakes \in Nat
ASSUME OwnerAssumption == NoOwner \notin Workers /\ NoProject \notin Projects

VARIABLES
  project,     \* projects.status ("absent": no such row)
  repository,  \* project_repositories.status ("none": no such row)
  outbox,      \* the newest 'project.provision.requested' row of each project
  gitea,       \* what Gitea has of each project
  job,         \* what each worker is doing, kept in its process only
  crashes, retries, overtakes

tables == <<project, repository, outbox>>
counts == <<crashes, retries, overtakes>>
vars   == <<tables, gitea, job, counts>>

\* next_attempt_at is over, in the future, or 'infinity'.
Task    == [published : BOOLEAN, owner : Workers \cup {NoOwner}, expired : BOOLEAN,
            next : {"due", "later", "never"}, attempts : Nat]
Row(published, owner, next, attempts) ==
  [published |-> published, owner |-> owner, expired |-> FALSE, next |-> next,
   attempts |-> attempts]
NewTask == Row(FALSE, NoOwner, "due", 0)
NoTask  == Row(TRUE, NoOwner, "due", 0)

Nothing == [repo |-> FALSE, members |-> FALSE, hooks |-> 0]
Doing(at, p, attempt, created) ==
  [at |-> at, project |-> p, attempt |-> attempt, created |-> created]
Idle    == Doing("idle", NoProject, 0, FALSE)

Init ==
  /\ project    = [p \in Projects |-> "absent"]
  /\ repository = [p \in Projects |-> "none"]
  /\ outbox     = [p \in Projects |-> NoTask]
  /\ gitea      = [p \in Projects |-> Nothing]
  /\ job        = [w \in Workers |-> Idle]
  /\ crashes = 0 /\ retries = 0 /\ overtakes = 0

-----------------------------------------------------------------------------
(* Teachers.                                                               *)

CreateProject(p) ==
  /\ project[p] = "absent"
  /\ project'    = [project EXCEPT ![p] = "provisioning"]
  /\ repository' = [repository EXCEPT ![p] = "queued"]
  /\ outbox'     = [outbox EXCEPT ![p] = NewTask]
  /\ UNCHANGED <<gitea, job, counts>>

\* A retry makes the pending task due at once, or inserts a new one when the
\* last was published.  The attempts already made stay counted.
RetryProvisioning(p) ==
  /\ repository[p] = "failed"
  /\ retries < MaxRetries
  /\ retries'    = retries + 1
  /\ repository' = [repository EXCEPT ![p] = "queued"]
  /\ outbox'     = [outbox EXCEPT ![p] =
                      IF @.published THEN NewTask ELSE Row(FALSE, NoOwner, "due", @.attempts)]
  /\ UNCHANGED <<project, gitea, job, crashes, overtakes>>

-----------------------------------------------------------------------------
(* A worker takes a task (provisionOne) and works through Gitea's API.     *)

At(w, places) == job[w].at \in places
Go(w, at)     == job' = [job EXCEPT ![w].at = at]

\* An exception: a repository this attempt created is deleted again.
Throw(w) == Go(w, IF job[w].created THEN "undoing" ELSE "failing")

\* Slip: a lease is not looked at, only the schedule.
Free_Ignored(task) == TRUE

Free(task) == task.owner = NoOwner \/ task.expired

\* The transaction that leases the task; it counts the attempt.
Claim(w, p) ==
  LET task == outbox[p] IN
  /\ At(w, {"idle"})
  /\ ~task.published /\ task.next = "due" /\ Free(task)
  /\ outbox' = [outbox EXCEPT ![p] = Row(FALSE, w, "due", task.attempts + 1)]
  /\ job' = [job EXCEPT ![w] = Doing("claimed", p, task.attempts + 1, FALSE)]
  /\ UNCHANGED <<project, repository, gitea, counts>>

\* The repository row must be waiting and the project have active members.
Begin(w) ==
  LET p == job[w].project IN
  /\ At(w, {"claimed"})
  /\ \/ /\ repository[p] \in {"queued", "provisioning"}
        /\ repository' = [repository EXCEPT ![p] = "provisioning"]
        /\ Go(w, "looking")
     \/ Throw(w) /\ UNCHANGED repository
  /\ UNCHANGED <<project, outbox, gitea, counts>>

\* A repository that is there already is used as it is.
Look(w) ==
  /\ At(w, {"looking"})
  /\ \/ Go(w, IF gitea[job[w].project].repo THEN "inviting" ELSE "generating")
     \/ Throw(w)
  /\ UNCHANGED <<tables, gitea, counts>>

\* Only this call makes the attempt the repository's creator; a lost reply
\* leaves a repository nobody created.
Generate(w) ==
  LET p == job[w].project IN
  /\ At(w, {"generating"})
  /\ \/ /\ ~gitea[p].repo
        /\ gitea' = [gitea EXCEPT ![p].repo = TRUE]
        /\ \/ job' = [job EXCEPT ![w] = Doing("inviting", p, @.attempt, TRUE)]
           \/ Throw(w)
     \/ Throw(w) /\ UNCHANGED gitea
  /\ UNCHANGED <<tables, counts>>

\* Members are added one by one; a failure may leave some of them.
Invite(w) ==
  LET p == job[w].project IN
  /\ At(w, {"inviting"})
  /\ \/ /\ gitea[p].repo
        /\ gitea' = [gitea EXCEPT ![p].members = TRUE]
        /\ Go(w, "listing") \/ Throw(w)
     \/ Throw(w) /\ UNCHANGED gitea
  /\ UNCHANGED <<tables, counts>>

\* Slip: a webhook is registered without looking for one.
ListHooks_Blind(w) ==
  /\ At(w, {"listing"})
  /\ (gitea[job[w].project].repo /\ Go(w, "hooking")) \/ Throw(w)
  /\ UNCHANGED <<tables, gitea, counts>>

\* ensureWebhook looks for the portal's webhook first.
ListHooks(w) ==
  LET p == job[w].project IN
  /\ At(w, {"listing"})
  /\ \/ gitea[p].repo /\ Go(w, IF gitea[p].hooks > 0 THEN "provisioned" ELSE "hooking")
     \/ Throw(w)
  /\ UNCHANGED <<tables, gitea, counts>>

AddHook(w) ==
  LET p == job[w].project IN
  /\ At(w, {"hooking"})
  /\ \/ /\ gitea[p].repo
        /\ gitea' = [gitea EXCEPT ![p].hooks = @ + 1]
        /\ Go(w, "provisioned") \/ Throw(w)
     \/ Throw(w) /\ UNCHANGED gitea
  /\ UNCHANGED <<tables, counts>>

\* The rollback deletes the repository, whoever uses it by now; it may fail.
Undo(w) ==
  /\ At(w, {"undoing"})
  /\ gitea' = [gitea EXCEPT ![job[w].project] = Nothing] \/ UNCHANGED gitea
  /\ Go(w, "failing")
  /\ UNCHANGED <<tables, counts>>

-----------------------------------------------------------------------------
(* The two transactions that end an attempt.                               *)

\* Slip: the task is published although the repository row has moved on.
Activate_Unchecked(w) ==
  LET p == job[w].project IN
  /\ At(w, {"provisioned"})
  /\ IF repository[p] = "provisioning"
     THEN /\ repository' = [repository EXCEPT ![p] = "active"]
          /\ project' = [project EXCEPT ![p] = "active"]
     ELSE UNCHANGED <<repository, project>>
  /\ outbox' = IF outbox[p].owner = w
               THEN [outbox EXCEPT ![p] = Row(TRUE, NoOwner, @.next, @.attempts)]
               ELSE outbox
  /\ job' = [job EXCEPT ![w] = Idle]
  /\ UNCHANGED <<gitea, counts>>

\* Success: nothing here asks for the lease but the update of the task itself.
\* If the repository row has moved on the transaction throws.
Activate(w) ==
  LET p == job[w].project IN
  /\ At(w, {"provisioned"})
  /\ \/ /\ repository[p] = "provisioning"
        /\ repository' = [repository EXCEPT ![p] = "active"]
        /\ project' = [project EXCEPT ![p] = IF @ = "provisioning" THEN "active" ELSE @]
        /\ outbox' = IF outbox[p].owner = w
                     THEN [outbox EXCEPT ![p] = Row(TRUE, NoOwner, @.next, @.attempts)]
                     ELSE outbox
        /\ job' = [job EXCEPT ![w] = Idle]
     \/ Go(w, "failing") /\ UNCHANGED <<project, repository, outbox>>
  /\ UNCHANGED <<gitea, counts>>

GivesUp(w) == job[w].attempt >= MaxAttempts

\* The task goes back to the outbox, for later or for good.
Rescheduled(w) ==
  LET task == outbox[job[w].project] IN
  Row(task.published, NoOwner, IF GivesUp(w) THEN "never" ELSE "later", task.attempts)

\* Slips: the catch block takes any task for its own; it leaves the repository's
\* row as it was.
FailAttempt_AnyOwner(w) ==
  LET p == job[w].project IN
  /\ At(w, {"failing"})
  /\ repository' = [repository EXCEPT ![p] = IF GivesUp(w) THEN "failed" ELSE "queued"]
  /\ outbox' = [outbox EXCEPT ![p] = Rescheduled(w)]
  /\ job' = [job EXCEPT ![w] = Idle]
  /\ UNCHANGED <<project, gitea, counts>>

FailAttempt_KeepsRow(w) ==
  LET p == job[w].project IN
  /\ At(w, {"failing"})
  /\ outbox' = IF outbox[p].owner = w
               THEN [outbox EXCEPT ![p] = Rescheduled(w)]
               ELSE outbox
  /\ job' = [job EXCEPT ![w] = Idle]
  /\ UNCHANGED <<project, repository, gitea, counts>>

\* Failure (the catch block): the row of the repository is written whatever it
\* holds by now, the task only while this worker still leases it.
FailAttempt(w) ==
  LET p == job[w].project IN
  /\ At(w, {"failing"})
  /\ repository' = [repository EXCEPT ![p] = IF GivesUp(w) THEN "failed" ELSE "queued"]
  /\ outbox' = IF outbox[p].owner = w
               THEN [outbox EXCEPT ![p] = Rescheduled(w)]
               ELSE outbox
  /\ job' = [job EXCEPT ![w] = Idle]
  /\ UNCHANGED <<project, gitea, counts>>

-----------------------------------------------------------------------------
(* Time and crashes.                                                       *)

Crash(w) ==
  /\ ~At(w, {"idle"})
  /\ crashes < MaxCrashes
  /\ crashes' = crashes + 1
  /\ job' = [job EXCEPT ![w] = Idle]
  /\ UNCHANGED <<tables, gitea, retries, overtakes>>

\* The two minutes of a lease are over; its worker crashed, or is overtaken.
LeaseRunsOut(p) ==
  LET w == outbox[p].owner IN
  /\ w # NoOwner /\ ~outbox[p].expired
  /\ IF job[w].project = p
     THEN overtakes < MaxOvertakes /\ overtakes' = overtakes + 1
     ELSE UNCHANGED overtakes
  /\ outbox' = [outbox EXCEPT ![p].expired = TRUE]
  /\ UNCHANGED <<project, repository, gitea, job, crashes, retries>>

\* The backoff before the next attempt is over.
BackoffOver(p) ==
  /\ outbox[p].next = "later"
  /\ outbox' = [outbox EXCEPT ![p].next = "due"]
  /\ UNCHANGED <<project, repository, gitea, job, counts>>

Progress(w) ==
  \/ Begin(w) \/ Look(w) \/ Generate(w) \/ Invite(w) \/ ListHooks(w) \/ AddHook(w)
  \/ Undo(w) \/ Activate(w) \/ FailAttempt(w)

Next ==
  \/ \E p \in Projects : CreateProject(p) \/ RetryProvisioning(p) \/ LeaseRunsOut(p) \/ BackoffOver(p)
  \/ \E w \in Workers : \/ Progress(w) \/ Crash(w)
                        \/ \E p \in Projects : Claim(w, p)

\* Workers are restarted, Gitea answers or fails, clocks advance.
Fairness ==
  /\ \A w \in Workers : WF_vars(Progress(w)) /\ WF_vars(\E p \in Projects : Claim(w, p))
  /\ \A p \in Projects : WF_vars(BackoffOver(p)) /\ WF_vars(LeaseRunsOut(p))

Spec == Init /\ [][Next]_vars /\ Fairness

-----------------------------------------------------------------------------
(* Correctness.                                                            *)

Places == {"idle", "claimed", "looking", "generating", "inviting", "listing", "hooking",
           "provisioned", "undoing", "failing"}

TypeOK ==
  /\ project \in [Projects -> {"absent", "provisioning", "active"}]
  /\ repository \in [Projects -> {"none", "queued", "provisioning", "active", "failed"}]
  /\ outbox \in [Projects -> Task]
  /\ gitea \in [Projects -> [repo : BOOLEAN, members : BOOLEAN, hooks : Nat]]
  /\ job \in [Workers -> [at : Places, project : Projects \cup {NoProject},
                          attempt : Nat, created : BOOLEAN]]
  /\ crashes \in 0 .. MaxCrashes /\ retries \in 0 .. MaxRetries
  /\ overtakes \in 0 .. MaxOvertakes

\* architecture.md: a project is active only after its repository, members and
\* webhook are all there, so an active project has all three.
ActiveProjectIsComplete ==
  \A p \in Projects : project[p] = "active" => gitea[p].repo /\ gitea[p].members /\ gitea[p].hooks > 0

\* The same while no worker has outlived its lease: whatever replies were lost
\* and however often attempts crashed, rolled back or were repeated.
CompleteUnlessOvertaken == overtakes = 0 => ActiveProjectIsComplete

\* architecture.md: providers are queried first so that repeated attempts are
\* idempotent; however often an attempt is repeated, a repository gets one hook.
OneWebhook == overtakes = 0 => \A p \in Projects : gitea[p].hooks <= 1

\* api.md: a task that stopped after its last attempt can be put back by a
\* teacher; the retry endpoint accepts only a failed repository row.
StoppedTaskIsRetryable ==
  overtakes = 0 =>
    \A p \in Projects : ~outbox[p].published /\ outbox[p].next = "never" => repository[p] = "failed"

\* A project is given up only when its task has used up its attempts, and a task
\* is rescheduled only while it has attempts left.
GivesUpInTime ==
  overtakes = 0 =>
    \A p \in Projects :
      /\ repository[p] = "failed" => outbox[p].attempts >= MaxAttempts /\ outbox[p].next = "never"
      /\ outbox[p].next = "later" => outbox[p].attempts < MaxAttempts

\* A task is done only when its project is active; no attempt, however late,
\* takes it off the outbox before.
DoneMeansActive ==
  \A p \in Projects : project[p] # "absent" /\ outbox[p].published => project[p] = "active"

\* What the outbox says of a task can be relied on: done means that the project
\* is active, stopped means that a teacher can put it back.
TaskTellsState == DoneMeansActive /\ StoppedTaskIsRetryable

\* Until the first lease is overtaken, the rows of projects and repositories, the
\* outbox and Gitea together are a ProjectLifecycle: lost replies, crashes,
\* rollbacks and repeated attempts never show in what a teacher relies on, not
\* even between two of their steps.
StatusSeen ==
  [p \in Projects |->
     IF project[p] = "provisioning" /\ repository[p] = "failed" THEN "failed" ELSE project[p]]
PendingTasks == {p \in Projects : ~outbox[p].published /\ outbox[p].next # "never"}
AttemptsMade == [p \in Projects |-> outbox[p].attempts]
Delivered    == [p \in Projects |-> IF project[p] = "active" THEN gitea[p] ELSE Nothing]
Lifecycle == INSTANCE ProjectLifecycle WITH
  status <- StatusSeen, pending <- PendingTasks, attempts <- AttemptsMade, delivered <- Delivered
LifecycleUntilOvertaken ==
  Lifecycle!Init /\ [][overtakes' = 0 => Lifecycle!Next \/ UNCHANGED Lifecycle!vars]_vars

\* A task that stopped stays stopped until a teacher puts it back: no late
\* attempt reschedules it.
StoppedStaysStopped ==
  [][\A p \in Projects : outbox[p].next = "never" /\ outbox'[p].next # "never" =>
       retries' = retries + 1 /\ repository'[p] = "queued"]_vars

\* Every project's task is done or stopped some day, whoever is overtaken; and
\* if nobody is, the project is then active, or failed with the retry open to a
\* teacher.
EveryProjectSettles ==
  \A p \in Projects :
    project[p] # "absent" ~>
      /\ outbox[p].published \/ outbox[p].next = "never"
      /\ overtakes = 0 => repository[p] \in {"active", "failed"}
=============================================================================
