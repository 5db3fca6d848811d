---------------------- MODULE ProjectProvisioningProofs ----------------------
(***************************************************************************)
(* Theorems about ProjectProvisioning.  Whatever workers do, a task that   *)
(* is done has an active project and one that stopped stays stopped.  And  *)
(* while no lease has been overtaken (overtakes = 0), a worker at work on  *)
(* a project has it to itself, and everything the documentation promises   *)
(* holds for any number of projects, workers, crashes and retries.         *)
(***************************************************************************)
EXTENDS ProjectProvisioning, TLAPS

\* A worker at work is at work on some project.
AtWork == \A w \in Workers : job[w].at # "idle" => job[w].project \in Projects
TypeInv == TypeOK /\ AtWork

LEMMA TypeInit == Init => TypeInv
BY BoundsAssumption, OwnerAssumption
DEF Init, TypeInv, TypeOK, AtWork, Task, NoTask, Row, Nothing, Idle, Doing, Places

LEMMA RowType ==
  ASSUME NEW published \in BOOLEAN, NEW owner \in Workers \cup {NoOwner},
         NEW next \in {"due", "later", "never"}, NEW attempts \in Nat
  PROVE  Row(published, owner, next, attempts) \in Task
BY DEF Row, Task

LEMMA RowChange ==
  ASSUME NEW task \in Task
  PROVE  [task EXCEPT !.expired = TRUE] \in Task /\ [task EXCEPT !.next = "due"] \in Task
BY DEF Task

Gitea == [repo : BOOLEAN, members : BOOLEAN, hooks : Nat]
LEMMA GiteaChange ==
  ASSUME NEW g \in Gitea
  PROVE  /\ [g EXCEPT !.repo = TRUE] \in Gitea /\ [g EXCEPT !.members = TRUE] \in Gitea
         /\ [g EXCEPT !.hooks = @ + 1] \in Gitea /\ Nothing \in Gitea
<1>1. g.hooks + 1 \in Nat
  BY DEF Gitea
<1>2. [g EXCEPT !.hooks = @ + 1] \in Gitea
  BY <1>1 DEF Gitea
<1>3. [g EXCEPT !.repo = TRUE] \in Gitea /\ [g EXCEPT !.members = TRUE] \in Gitea
  BY DEF Gitea
<1>4. Nothing \in Gitea
  BY DEF Gitea, Nothing
<1> QED BY <1>2, <1>3, <1>4

Jobs == [at : Places, project : Projects \cup {NoProject}, attempt : Nat, created : BOOLEAN]
LEMMA JobChange ==
  ASSUME TypeInv, NEW w \in Workers, job[w].at # "idle",
         \/ \E at \in Places : Go(w, at)
         \/ Throw(w)
         \/ job' = [job EXCEPT ![w] = Doing("inviting", job[w].project, @.attempt, TRUE)]
         \/ job' = [job EXCEPT ![w] = Idle]
  PROVE  job' \in [Workers -> Jobs] /\ AtWork'
<1>1. /\ job \in [Workers -> Jobs] /\ AtWork /\ job[w] \in Jobs
      /\ job[w].project \in Projects
  BY DEF TypeInv, TypeOK, AtWork, Jobs
<1>2. {"failing", "undoing", "inviting", "idle"} \subseteq Places
  BY DEF Places
<1>3. ASSUME NEW j \in Jobs, job' = [job EXCEPT ![w] = j], j.at = "idle" \/ j.project \in Projects
      PROVE  job' \in [Workers -> Jobs] /\ AtWork'
  BY <1>1, <1>3 DEF AtWork
<1>4. ASSUME NEW at \in Places PROVE /\ [job[w] EXCEPT !.at = at] \in Jobs
                                     /\ [job[w] EXCEPT !.at = at].project \in Projects
  BY <1>1 DEF Jobs
<1>5. ASSUME NEW at \in Places, Go(w, at) PROVE job' \in [Workers -> Jobs] /\ AtWork'
  <2>1. job' = [job EXCEPT ![w] = [job[w] EXCEPT !.at = at]]
    BY <1>1, <1>5 DEF Go
  <2> QED BY <1>3, <1>4, <2>1
<1>6. CASE Throw(w)
  BY <1>2, <1>5, <1>6 DEF Throw
<1>7. CASE job' = [job EXCEPT ![w] = Doing("inviting", job[w].project, @.attempt, TRUE)]
  <2>1. Doing("inviting", job[w].project, job[w].attempt, TRUE) \in Jobs
    BY <1>1, <1>2 DEF Doing, Jobs
  <2>2. Doing("inviting", job[w].project, job[w].attempt, TRUE).project \in Projects
    BY <1>1 DEF Doing
  <2>3. job' = [job EXCEPT ![w] = Doing("inviting", job[w].project, job[w].attempt, TRUE)]
    BY <1>1, <1>7
  <2> QED BY <1>3, <2>1, <2>2, <2>3
<1>8. CASE job' = [job EXCEPT ![w] = Idle]
  <2>1. Idle \in Jobs /\ Idle.at = "idle"
    BY <1>2 DEF Idle, Doing, Jobs
  <2> QED BY <1>3, <1>8, <2>1
<1> QED BY <1>5, <1>6, <1>7, <1>8

LEMMA TypeStep == TypeInv /\ [Next]_vars => TypeInv'
<1> SUFFICES ASSUME TypeInv, [Next]_vars PROVE TypeInv'
  OBVIOUS
<1> USE BoundsAssumption, OwnerAssumption
<1>0. /\ project \in [Projects -> {"absent", "provisioning", "active"}]
      /\ repository \in [Projects -> {"none", "queued", "provisioning", "active", "failed"}]
      /\ outbox \in [Projects -> Task]
      /\ gitea \in [Projects -> Gitea]
      /\ job \in [Workers -> Jobs]
      /\ crashes \in 0 .. MaxCrashes /\ retries \in 0 .. MaxRetries
      /\ overtakes \in 0 .. MaxOvertakes
      /\ AtWork
  BY DEF TypeInv, TypeOK, Jobs, Gitea
<1>a. ASSUME /\ project' \in [Projects -> {"absent", "provisioning", "active"}]
             /\ repository' \in [Projects -> {"none", "queued", "provisioning", "active", "failed"}]
             /\ outbox' \in [Projects -> Task]
             /\ gitea' \in [Projects -> Gitea]
             /\ job' \in [Workers -> Jobs]
             /\ crashes' \in 0 .. MaxCrashes /\ retries' \in 0 .. MaxRetries
             /\ overtakes' \in 0 .. MaxOvertakes
             /\ AtWork'
      PROVE  TypeInv'
  BY <1>a DEF TypeInv, TypeOK, Jobs, Gitea
<1>b. ASSUME NEW p \in Projects, NEW task \in Task, outbox' = [outbox EXCEPT ![p] = task]
      PROVE  outbox' \in [Projects -> Task]
  BY <1>0, <1>b
<1>c. ASSUME UNCHANGED job PROVE job' \in [Workers -> Jobs] /\ AtWork'
  BY <1>0, <1>c DEF AtWork
<1>1. ASSUME NEW p \in Projects, CreateProject(p) PROVE TypeInv'
  <2>1. NewTask \in Task
    BY RowType DEF NewTask
  <2> QED BY <1>0, <1>1, <1>a, <1>b, <1>c, <2>1 DEF CreateProject, counts
<1>2. ASSUME NEW p \in Projects, RetryProvisioning(p) PROVE TypeInv'
  <2>1. outbox[p].attempts \in Nat
    BY <1>0 DEF Task
  <2>2. NewTask \in Task /\ Row(FALSE, NoOwner, "due", outbox[p].attempts) \in Task
    BY <2>1, RowType DEF NewTask
  <2>3. outbox' \in [Projects -> Task]
    BY <1>0, <1>2, <1>b, <2>2 DEF RetryProvisioning
  <2>4. retries' \in 0 .. MaxRetries /\ UNCHANGED <<crashes, overtakes>>
    BY <1>0, <1>2 DEF RetryProvisioning
  <2>5. UNCHANGED <<project, gitea, job>>
    BY <1>2 DEF RetryProvisioning
  <2>6. repository' \in [Projects -> {"none", "queued", "provisioning", "active", "failed"}]
    BY <1>0, <1>2 DEF RetryProvisioning
  <2> QED BY <1>0, <1>a, <1>c, <2>3, <2>4, <2>5, <2>6
<1>3. ASSUME NEW p \in Projects, LeaseRunsOut(p) PROVE TypeInv'
  <2>1. outbox' = [outbox EXCEPT ![p] = [outbox[p] EXCEPT !.expired = TRUE]]
    BY <1>0, <1>3 DEF LeaseRunsOut
  <2>2. outbox' \in [Projects -> Task]
    BY <1>0, <1>b, <2>1, RowChange
  <2> QED BY <1>0, <1>3, <1>a, <1>c, <2>2 DEF LeaseRunsOut
<1>4. ASSUME NEW p \in Projects, BackoffOver(p) PROVE TypeInv'
  <2>1. outbox' = [outbox EXCEPT ![p] = [outbox[p] EXCEPT !.next = "due"]]
    BY <1>0, <1>4 DEF BackoffOver
  <2>2. outbox' \in [Projects -> Task]
    BY <1>0, <1>b, <2>1, RowChange
  <2> QED BY <1>0, <1>4, <1>a, <1>c, <2>2 DEF BackoffOver, counts
<1>5. ASSUME NEW w \in Workers, NEW p \in Projects, Claim(w, p) PROVE TypeInv'
  <2>1. outbox[p].attempts + 1 \in Nat
    BY <1>0 DEF Task
  <2>2. outbox' \in [Projects -> Task]
    BY <1>5, <1>b, <2>1, RowType DEF Claim
  <2>3. Doing("claimed", p, outbox[p].attempts + 1, FALSE) \in Jobs
    BY <2>1 DEF Doing, Places, Jobs
  <2>4. Doing("claimed", p, outbox[p].attempts + 1, FALSE).project = p
    BY DEF Doing
  <2>5. job' \in [Workers -> Jobs] /\ AtWork'
    BY <1>0, <1>5, <2>3, <2>4 DEF Claim, AtWork
  <2> QED BY <1>0, <1>5, <1>a, <2>2, <2>5 DEF Claim, counts
<1>6. ASSUME NEW w \in Workers, Progress(w) PROVE TypeInv'
  <2> DEFINE p == job[w].project
  <2>1. job[w].at # "idle"
    BY <1>6 DEF Progress, Begin, Look, Generate, Invite, ListHooks, AddHook, Undo, Activate,
                FailAttempt, At
  <2>2. p \in Projects /\ job[w] \in Jobs /\ outbox[p] \in Task /\ gitea[p] \in Gitea
    BY <1>0, <2>1 DEF AtWork
  <2>3. job' \in [Workers -> Jobs] /\ AtWork'
    <3>1. {"looking", "inviting", "generating", "listing", "hooking", "provisioned", "failing"}
            \subseteq Places
      BY DEF Places
    <3>2. \/ \E at \in Places : Go(w, at)
          \/ Throw(w)
          \/ job' = [job EXCEPT ![w] = Doing("inviting", p, @.attempt, TRUE)]
          \/ job' = [job EXCEPT ![w] = Idle]
      BY <1>6, <3>1 DEF Progress, Begin, Look, Generate, Invite, ListHooks, AddHook, Undo,
                       Activate, FailAttempt
    <3> QED BY <2>1, <3>2, JobChange
  <2>4. counts' = counts
    BY <1>6 DEF Progress, Begin, Look, Generate, Invite, ListHooks, AddHook, Undo, Activate,
                FailAttempt
  <2>5. UNCHANGED tables \/ Begin(w) \/ Activate(w) \/ FailAttempt(w)
    BY <1>6 DEF Progress, Look, Generate, Invite, ListHooks, AddHook, Undo
  <2>6. /\ project' \in [Projects -> {"absent", "provisioning", "active"}]
        /\ repository' \in [Projects -> {"none", "queued", "provisioning", "active", "failed"}]
    <3>1. CASE UNCHANGED tables
      BY <1>0, <3>1 DEF tables
    <3>2. CASE Begin(w)
      BY <1>0, <2>2, <3>2 DEF Begin
    <3>3. CASE Activate(w)
      <4>1. /\ project' = project \/ \E x \in {"absent", "provisioning", "active"} :
                 project' = [project EXCEPT ![p] = x]
            /\ repository' = repository \/ repository' = [repository EXCEPT ![p] = "active"]
        BY <1>0, <2>2, <3>3 DEF Activate
      <4> QED BY <1>0, <2>2, <4>1
    <3>4. CASE FailAttempt(w)
      BY <1>0, <2>2, <3>4 DEF FailAttempt
    <3> QED BY <2>5, <3>1, <3>2, <3>3, <3>4
  <2>7. outbox' \in [Projects -> Task]
    <3>1. Rescheduled(w) \in Task /\ Row(TRUE, NoOwner, outbox[p].next, outbox[p].attempts) \in Task
      <4>1. /\ outbox[p].published \in BOOLEAN /\ outbox[p].attempts \in Nat
            /\ outbox[p].next \in {"due", "later", "never"}
        BY <2>2 DEF Task
      <4> QED BY <4>1, RowType DEF Rescheduled
    <3>2. \/ outbox' = outbox
          \/ outbox' = [outbox EXCEPT ![p] = Rescheduled(w)]
          \/ outbox' = [outbox EXCEPT ![p] = Row(TRUE, NoOwner, @.next, @.attempts)]
      BY <2>5 DEF Begin, Activate, FailAttempt, tables
    <3> QED BY <1>0, <1>b, <2>2, <3>1, <3>2
  <2>8. gitea' \in [Projects -> Gitea]
    <3>1. \/ gitea' = gitea
          \/ gitea' = [gitea EXCEPT ![p].repo = TRUE]
          \/ gitea' = [gitea EXCEPT ![p].members = TRUE]
          \/ gitea' = [gitea EXCEPT ![p].hooks = @ + 1]
          \/ gitea' = [gitea EXCEPT ![p] = Nothing]
      BY <1>6 DEF Progress, Begin, Look, Generate, Invite, ListHooks, AddHook, Undo,
                  Activate, FailAttempt
    <3>2. ASSUME NEW g \in Gitea, gitea' = [gitea EXCEPT ![p] = g]
          PROVE  gitea' \in [Projects -> Gitea]
      BY <1>0, <3>2
    <3>3. CASE gitea' = [gitea EXCEPT ![p].repo = TRUE]
      BY <1>0, <2>2, <3>2, <3>3, GiteaChange
    <3>4. CASE gitea' = [gitea EXCEPT ![p].members = TRUE]
      BY <1>0, <2>2, <3>2, <3>4, GiteaChange
    <3>5. CASE gitea' = [gitea EXCEPT ![p].hooks = @ + 1]
      BY <1>0, <2>2, <3>2, <3>5, GiteaChange
    <3> QED BY <1>0, <2>2, <3>1, <3>2, <3>3, <3>4, <3>5, GiteaChange
  <2> QED BY <1>0, <1>a, <2>3, <2>4, <2>6, <2>7, <2>8 DEF counts
<1>7. ASSUME NEW w \in Workers, Crash(w) PROVE TypeInv'
  <2>1. job' \in [Workers -> Jobs] /\ AtWork'
    BY <1>7, JobChange DEF Crash, At
  <2> QED BY <1>0, <1>7, <1>a, <2>1 DEF Crash, tables
<1>8. CASE UNCHANGED vars
  BY <1>0, <1>8, <1>a, <1>c DEF vars, tables, counts
<1> QED BY <1>1, <1>2, <1>3, <1>4, <1>5, <1>6, <1>7, <1>8 DEF Next

\* Every state is well formed.
THEOREM ProvisioningTypeCorrect == Spec => []TypeOK
<1>1. TypeInv => TypeOK
  BY DEF TypeInv
<1> QED BY <1>1, TypeInit, TypeStep, PTL DEF Spec

-----------------------------------------------------------------------------
(* What holds however leases are overtaken.                                *)

\* A project that does not exist has no rows and no worker; a task that stopped
\* is leased by nobody.
Quiet(p) ==
  /\ project[p] = "absent" =>
       /\ outbox[p].published /\ outbox[p].next = "due" /\ outbox[p].owner = NoOwner
       /\ repository[p] = "none"
       /\ \A w \in Workers : job[w].at # "idle" => job[w].project # p
  /\ outbox[p].next = "never" => outbox[p].owner = NoOwner
TaskInv == TypeInv /\ DoneMeansActive /\ \A p \in Projects : Quiet(p)

\* What a step may do to the rows of project p.
SameRows(p) ==
  /\ project'[p] = project[p] /\ repository'[p] = repository[p] /\ outbox'[p] = outbox[p]
ByTeacher(p) ==
  \/ /\ project[p] = "absent" /\ project'[p] = "provisioning" /\ outbox'[p] = NewTask
  \/ /\ repository[p] = "failed" /\ repository'[p] = "queued" /\ project'[p] = project[p]
     /\ retries' = retries + 1
     /\ \E attempts \in Nat : outbox'[p] = Row(FALSE, NoOwner, "due", attempts)
ByClock(p) ==
  /\ project'[p] = project[p] /\ repository'[p] = repository[p]
  /\ \/ outbox[p].owner # NoOwner /\ outbox'[p] = [outbox[p] EXCEPT !.expired = TRUE]
     \/ outbox[p].next = "later" /\ outbox'[p] = [outbox[p] EXCEPT !.next = "due"]
ByClaim(p) ==
  /\ ~outbox[p].published /\ outbox[p].next = "due" /\ Free(outbox[p])
  /\ project'[p] = project[p] /\ repository'[p] = repository[p]
  /\ \E w \in Workers : outbox'[p] = Row(FALSE, w, "due", outbox[p].attempts + 1)
ByWorker(p) ==
  \E w \in Workers :
    /\ job[w].at # "idle" /\ job[w].project = p
    /\ \/ /\ project'[p] = project[p] /\ repository'[p] = "provisioning"
          /\ outbox'[p] = outbox[p]
       \/ /\ repository[p] = "provisioning" /\ repository'[p] = "active"
          /\ project'[p] = (IF project[p] = "provisioning" THEN "active" ELSE project[p])
          /\ outbox'[p] = IF outbox[p].owner = w
                         THEN Row(TRUE, NoOwner, outbox[p].next, outbox[p].attempts)
                         ELSE outbox[p]
       \/ /\ project'[p] = project[p] /\ repository'[p] \in {"failed", "queued"}
          /\ outbox'[p] = IF outbox[p].owner = w THEN Rescheduled(w) ELSE outbox[p]

LEMMA RowMoves ==
  ASSUME TypeInv, [Next]_vars, NEW q \in Projects
  PROVE  SameRows(q) \/ ByTeacher(q) \/ ByClock(q) \/ ByClaim(q) \/ ByWorker(q)
<1> DEFINE Goal == SameRows(q) \/ ByTeacher(q) \/ ByClock(q) \/ ByClaim(q) \/ ByWorker(q)
<1>0. /\ project \in [Projects -> {"absent", "provisioning", "active"}]
      /\ repository \in [Projects -> {"none", "queued", "provisioning", "active", "failed"}]
      /\ outbox \in [Projects -> Task] /\ outbox[q].attempts \in Nat
      /\ AtWork
  BY DEF TypeInv, TypeOK, Task
<1>1. ASSUME NEW p \in Projects, CreateProject(p) PROVE Goal
  BY <1>0, <1>1 DEF CreateProject, ByTeacher, SameRows
<1>2. ASSUME NEW p \in Projects, RetryProvisioning(p) PROVE Goal
  BY <1>0, <1>2 DEF RetryProvisioning, ByTeacher, SameRows, NewTask
<1>3. ASSUME NEW p \in Projects, LeaseRunsOut(p) PROVE Goal
  BY <1>0, <1>3 DEF LeaseRunsOut, ByClock, SameRows
<1>4. ASSUME NEW p \in Projects, BackoffOver(p) PROVE Goal
  BY <1>0, <1>4 DEF BackoffOver, ByClock, SameRows
<1>5. ASSUME NEW w \in Workers, NEW p \in Projects, Claim(w, p) PROVE Goal
  BY <1>0, <1>5 DEF Claim, ByClaim, SameRows
<1>6. ASSUME NEW w \in Workers, Progress(w) PROVE Goal
  <2>1. CASE Begin(w)
    BY <1>0, <2>1 DEF Begin, At, SameRows, ByWorker, AtWork
  <2>2. CASE Look(w) \/ Generate(w) \/ Invite(w) \/ ListHooks(w) \/ AddHook(w) \/ Undo(w)
    BY <2>2 DEF Look, Generate, Invite, ListHooks, AddHook, Undo, tables, SameRows
  <2>3. CASE Activate(w)
    <3> PICK p \in Projects : p = job[w].project /\ job[w].at # "idle"
      BY <1>0, <2>3 DEF Activate, At, AtWork
    <3>1. job[w].at # "idle" /\ p = job[w].project
      OBVIOUS
    <3>a. \/ UNCHANGED <<project, repository, outbox>>
          \/ /\ repository[p] = "provisioning"
             /\ repository' = [repository EXCEPT ![p] = "active"]
             /\ project' = [project EXCEPT ![p] = IF project[p] = "provisioning"
                                                 THEN "active" ELSE project[p]]
             /\ outbox' = IF outbox[p].owner = w
                          THEN [outbox EXCEPT ![p] =
                                  Row(TRUE, NoOwner, outbox[p].next, outbox[p].attempts)]
                          ELSE outbox
      BY <2>3, <3>1 DEF Activate
    <3>2. CASE p # q
      BY <1>0, <3>a, <3>2 DEF SameRows
    <3>3. CASE p = q /\ UNCHANGED <<project, repository, outbox>>
      BY <3>3 DEF SameRows
    <3>4. CASE p = q /\ ~UNCHANGED <<project, repository, outbox>>
      <4>1. repository[q] = "provisioning" /\ repository'[q] = "active"
        BY <1>0, <3>a, <3>4
      <4>2. project'[q] = IF project[q] = "provisioning" THEN "active" ELSE project[q]
        BY <1>0, <3>a, <3>4
      <4>3. outbox'[q] = IF outbox[q].owner = w
                         THEN Row(TRUE, NoOwner, outbox[q].next, outbox[q].attempts)
                         ELSE outbox[q]
        <5>1. outbox' = IF outbox[p].owner = w
                       THEN [outbox EXCEPT ![p] =
                               Row(TRUE, NoOwner, outbox[p].next, outbox[p].attempts)]
                       ELSE outbox
          BY <3>a, <3>4
        <5> QED BY <1>0, <3>4, <5>1
      <4> QED BY <3>1, <3>4, <4>1, <4>2, <4>3 DEF ByWorker
    <3> QED BY <3>2, <3>3, <3>4
  <2>4. CASE FailAttempt(w)
    BY <1>0, <2>4 DEF FailAttempt, At, SameRows, ByWorker, AtWork
  <2> QED BY <1>6, <2>1, <2>2, <2>3, <2>4 DEF Progress
<1>7. ASSUME NEW w \in Workers, Crash(w) PROVE Goal
  BY <1>7 DEF Crash, tables, SameRows
<1>8. CASE UNCHANGED vars
  BY <1>8 DEF vars, tables, SameRows
<1> QED BY <1>1, <1>2, <1>3, <1>4, <1>5, <1>6, <1>7, <1>8 DEF Next

\* A worker goes on with its project, stops, or claims one whose task is pending.
LEMMA JobMoves ==
  ASSUME TypeInv, [Next]_vars, NEW v \in Workers, job'[v].at # "idle"
  PROVE  \/ job[v].at # "idle" /\ job'[v].project = job[v].project
         \/ /\ job'[v].project \in Projects
            /\ ~outbox[job'[v].project].published
<1> DEFINE Goal == \/ job[v].at # "idle" /\ job'[v].project = job[v].project
                   \/ /\ job'[v].project \in Projects
                      /\ ~outbox[job'[v].project].published
<1>0. job \in [Workers -> Jobs]
  BY DEF TypeInv, TypeOK, Jobs
<1>1. ASSUME UNCHANGED job PROVE Goal
  BY <1>1
<1>2. ASSUME NEW w \in Workers, NEW p \in Projects, Claim(w, p) PROVE Goal
  <2>1. job'[w].project = p
    BY <1>0, <1>2 DEF Claim, Doing
  <2>2. ~outbox[p].published
    BY <1>2 DEF Claim
  <2>3. v # w => job'[v] = job[v]
    BY <1>0, <1>2 DEF Claim
  <2> QED BY <2>1, <2>2, <2>3
<1>3. ASSUME NEW w \in Workers, job[w].at # "idle",
             \/ \E at \in Places : Go(w, at)
             \/ Throw(w)
             \/ job' = [job EXCEPT ![w] = Doing("inviting", job[w].project, @.attempt, TRUE)]
             \/ job' = [job EXCEPT ![w] = Idle]
      PROVE  Goal
  <2>1. ASSUME NEW at, Go(w, at) PROVE Goal
    BY <1>0, <1>3, <2>1 DEF Go, Jobs
  <2>2. CASE Throw(w)
    BY <2>1, <2>2 DEF Throw
  <2>3. CASE job' = [job EXCEPT ![w] = Doing("inviting", job[w].project, @.attempt, TRUE)]
    BY <1>0, <1>3, <2>3 DEF Doing
  <2>4. CASE job' = [job EXCEPT ![w] = Idle]
    BY <1>0, <2>4 DEF Idle, Doing
  <2> QED BY <1>3, <2>1, <2>2, <2>3, <2>4
<1>4. ASSUME NEW w \in Workers, Progress(w) PROVE Goal
  <2>1. job[w].at # "idle"
    BY <1>4 DEF Progress, Begin, Look, Generate, Invite, ListHooks, AddHook, Undo, Activate,
                FailAttempt, At
  <2>2. {"looking", "inviting", "generating", "listing", "hooking", "provisioned", "failing"}
          \subseteq Places
    BY DEF Places
  <2>3. \/ \E at \in Places : Go(w, at)
        \/ Throw(w)
        \/ job' = [job EXCEPT ![w] = Doing("inviting", job[w].project, @.attempt, TRUE)]
        \/ job' = [job EXCEPT ![w] = Idle]
    BY <1>4, <2>2 DEF Progress, Begin, Look, Generate, Invite, ListHooks, AddHook, Undo,
                      Activate, FailAttempt
  <2> QED BY <1>3, <2>1, <2>3
<1>5. ASSUME NEW w \in Workers, Crash(w) PROVE Goal
  BY <1>3, <1>5 DEF Crash, At
<1> QED BY <1>1, <1>2, <1>4, <1>5
     DEF Next, CreateProject, RetryProvisioning, LeaseRunsOut, BackoffOver, vars

LEMMA TaskStep == TaskInv /\ [Next]_vars => TaskInv'
<1> SUFFICES ASSUME TaskInv, [Next]_vars PROVE TaskInv'
  OBVIOUS
<1>1. TypeInv /\ TypeInv'
  BY TypeStep DEF TaskInv
<1> SUFFICES ASSUME NEW q \in Projects
             PROVE  /\ project'[q] # "absent" /\ outbox'[q].published => project'[q] = "active"
                    /\ Quiet(q)'
  BY <1>1 DEF TaskInv, DoneMeansActive
<1>2. /\ project[q] # "absent" /\ outbox[q].published => project[q] = "active"
      /\ Quiet(q)
  BY DEF TaskInv, DoneMeansActive
<1>3. /\ outbox[q] \in Task /\ outbox'[q] \in Task
      /\ project[q] \in {"absent", "provisioning", "active"}
      /\ \A w \in Workers : job[w].at # "idle" => job[w].project \in Projects
  BY <1>1 DEF TypeInv, TypeOK, AtWork
<1>4. CASE SameRows(q)
  <2>1. project'[q] = "absent" =>
          \A w \in Workers : job'[w].at # "idle" => job'[w].project # q
    BY <1>1, <1>2, <1>4, JobMoves DEF SameRows, Quiet
  <2> QED BY <1>2, <1>4, <2>1 DEF SameRows, Quiet
<1>5. CASE ByTeacher(q)
  <2>1. project'[q] # "absent"
    BY <1>2, <1>5 DEF ByTeacher, Quiet
  <2>2. PICK attempts \in Nat : outbox'[q] = Row(FALSE, NoOwner, "due", attempts)
    BY <1>5 DEF ByTeacher, NewTask
  <2>3. ~outbox'[q].published /\ outbox'[q].next # "never"
    BY <2>2 DEF Row
  <2> QED BY <2>1, <2>3 DEF Quiet
<1>6. CASE ByClock(q)
  <2>1. project[q] # "absent"
    BY <1>2, <1>6 DEF ByClock, Quiet
  <2>2. /\ outbox'[q].published = outbox[q].published /\ outbox'[q].owner = outbox[q].owner
        /\ outbox'[q].next = outbox[q].next \/ outbox'[q].next = "due"
    BY <1>3, <1>6 DEF ByClock, Task
  <2> QED BY <1>2, <1>6, <2>1, <2>2 DEF ByClock, Quiet
<1>7. CASE ByClaim(q)
  <2>1. project[q] # "absent"
    BY <1>2, <1>7 DEF ByClaim, Quiet
  <2>2. ~outbox'[q].published /\ outbox'[q].next # "never"
    BY <1>7 DEF ByClaim, Row
  <2> QED BY <1>7, <2>1, <2>2 DEF ByClaim, Quiet
<1>8. CASE ByWorker(q)
  <2>1. PICK w \in Workers :
    /\ job[w].at # "idle" /\ job[w].project = q
    /\ \/ /\ project'[q] = project[q] /\ outbox'[q] = outbox[q]
       \/ /\ repository[q] = "provisioning"
          /\ project'[q] = (IF project[q] = "provisioning" THEN "active" ELSE project[q])
          /\ outbox'[q] = IF outbox[q].owner = w
                         THEN Row(TRUE, NoOwner, outbox[q].next, outbox[q].attempts)
                         ELSE outbox[q]
       \/ /\ project'[q] = project[q]
          /\ outbox'[q] = IF outbox[q].owner = w THEN Rescheduled(w) ELSE outbox[q]
    BY <1>8 DEF ByWorker
  <2>2. project[q] # "absent"
    BY <1>2, <2>1 DEF Quiet
  <2>3. project'[q] # "absent" /\ (project[q] = "active" => project'[q] = "active")
    BY <1>3, <2>1, <2>2
  <2>4. outbox'[q].next = "never" => outbox'[q].owner = NoOwner
    BY <1>2, <2>1 DEF Quiet, Rescheduled, Row
  <2>5. outbox'[q].published => outbox[q].published \/ project'[q] = "active"
    BY <1>3, <2>1, <2>2 DEF Rescheduled, Row
  <2> QED BY <1>2, <2>2, <2>3, <2>4, <2>5 DEF Quiet
<1> QED BY <1>1, <1>4, <1>5, <1>6, <1>7, <1>8, RowMoves

LEMMA TaskInvariant == Spec => []TaskInv
<1>1. Init => TaskInv
  BY TypeInit DEF Init, TaskInv, DoneMeansActive, Quiet, NoTask, Row, Idle, Doing
<1> QED BY <1>1, TaskStep, PTL DEF Spec

\* A task is done only when its project is active, however late an attempt ends.
THEOREM TasksDoneWhenActive == Spec => []DoneMeansActive
<1>1. TaskInv => DoneMeansActive
  BY DEF TaskInv
<1> QED BY <1>1, TaskInvariant, PTL

\* Only a teacher puts a task back that has stopped.
THEOREM OnlyTeachersRestart == Spec => StoppedStaysStopped
<1>1. TaskInv /\ [Next]_vars =>
        [\A p \in Projects : outbox[p].next = "never" /\ outbox'[p].next # "never" =>
           retries' = retries + 1 /\ repository'[p] = "queued"]_vars
  <2> SUFFICES ASSUME TaskInv, [Next]_vars, NEW p \in Projects,
                      outbox[p].next = "never", outbox'[p].next # "never"
               PROVE  retries' = retries + 1 /\ repository'[p] = "queued"
    OBVIOUS
  <2>1. TypeInv /\ Quiet(p) /\ outbox[p] \in Task
    BY DEF TaskInv, TypeInv, TypeOK
  <2>2. ~SameRows(p) /\ ~ByClaim(p)
    BY DEF SameRows, ByClaim
  <2>3. ~ByClock(p)
    BY <2>1 DEF ByClock, Task
  <2>4. ~ByWorker(p)
    BY <2>1, OwnerAssumption DEF ByWorker, Quiet, Row
  <2>5. ByTeacher(p)
    BY <2>1, <2>2, <2>3, <2>4, RowMoves
  <2> QED BY <2>1, <2>5 DEF ByTeacher, Quiet
<1> QED BY <1>1, TaskInvariant, PTL DEF Spec, StoppedStaysStopped

-----------------------------------------------------------------------------
(* What holds if no lease is overtaken.                                    *)

\* What Gitea has when a worker is at some place of its attempt.
InGitea(at, g) ==
  /\ at \in {"inviting", "listing", "hooking", "provisioned"} => g.repo
  /\ at \in {"listing", "hooking", "provisioned"} => g.members
  /\ at = "hooking" => g.hooks = 0
  /\ at = "provisioned" => g.hooks > 0

\* A worker at work holds the lease of its project's task, which is pending.
Exclusive(w) ==
  LET p == job[w].project IN
  job[w].at # "idle" =>
    /\ outbox[p].owner = w /\ ~outbox[p].expired
    /\ ~outbox[p].published /\ outbox[p].next = "due"
    /\ job[w].attempt = outbox[p].attempts /\ outbox[p].attempts > 0
    /\ InGitea(job[w].at, gitea[p])

\* A pending project is waiting or given up, an active one has all it needs.
Settled(p) ==
  /\ project[p] = "absent" => outbox[p].attempts = 0
  /\ ~outbox[p].published =>
       project[p] = "provisioning" /\ repository[p] \in {"queued", "provisioning", "failed"}
  /\ outbox[p].published => repository[p] # "failed"
  /\ project[p] = "active" =>
       outbox[p].published /\ gitea[p].repo /\ gitea[p].members /\ gitea[p].hooks > 0
  /\ gitea[p].hooks <= 1
  /\ outbox[p].next = "never" <=> repository[p] = "failed"
  /\ outbox[p].next = "never" => outbox[p].attempts >= MaxAttempts
  /\ outbox[p].next = "later" => outbox[p].attempts < MaxAttempts

LeaseInv == /\ TaskInv
            /\ \A w \in Workers : Exclusive(w)
            /\ \A p \in Projects : Settled(p)

Same(p) == SameRows(p) /\ gitea'[p] = gitea[p]

LEMMA KeepWorker ==
  ASSUME NEW v \in Workers, Exclusive(v), job'[v] = job[v],
         job[v].at # "idle" => Same(job[v].project)
  PROVE  Exclusive(v)'
BY DEF Exclusive, Same, SameRows

LEMMA KeepProject ==
  ASSUME NEW p \in Projects, Settled(p), Same(p)
  PROVE  Settled(p)'
BY DEF Settled, Same, SameRows

\* A step that changes the job of one worker and what there is of one project
\* only has to be looked at for these two, if no other worker is on the project.
LEMMA OneStep ==
  ASSUME LeaseInv, TaskInv', NEW w \in Workers, NEW p \in Projects,
         \A v \in Workers \ {w} : /\ job'[v] = job[v]
                                  /\ job[v].at # "idle" => job[v].project # p,
         \A q \in Projects \ {p} : Same(q),
         Exclusive(w)', Settled(p)'
  PROVE  LeaseInv'
<1>1. AtWork
  BY DEF LeaseInv, TaskInv, TypeInv
<1>2. ASSUME NEW v \in Workers PROVE Exclusive(v)'
  <2>1. CASE v # w
    <3>1. job[v].at # "idle" => job[v].project \in Projects \ {p}
      BY <1>1, <2>1 DEF AtWork
    <3> QED BY <2>1, <3>1, KeepWorker DEF LeaseInv
  <2> QED BY <2>1
<1>3. ASSUME NEW q \in Projects PROVE Settled(q)'
  BY KeepProject DEF LeaseInv
<1> QED BY <1>2, <1>3 DEF LeaseInv

\* Two workers are never at work on the same project.
LEMMA Alone ==
  ASSUME LeaseInv, NEW w \in Workers, job[w].at # "idle", NEW v \in Workers \ {w},
         job[v].at # "idle"
  PROVE  job[v].project # job[w].project
BY DEF LeaseInv, Exclusive

\* Nobody is at work on a project whose task is not leased, or not pending.
LEMMA NobodyAt ==
  ASSUME LeaseInv, NEW p \in Projects,
         \/ outbox[p].owner \notin Workers
         \/ outbox[p].expired
         \/ outbox[p].next # "due"
         \/ outbox[p].owner \in Workers /\ job[outbox[p].owner].project # p
  PROVE  \A v \in Workers : job[v].at # "idle" => job[v].project # p
BY DEF LeaseInv, Exclusive

LEMMA ProjectStep ==
  ASSUME LeaseInv, TaskInv', NEW p \in Projects, UNCHANGED job,
         \A v \in Workers : job[v].at # "idle" => job[v].project # p,
         \A q \in Projects \ {p} : Same(q),
         Settled(p)'
  PROVE  LeaseInv'
<1>1. AtWork
  BY DEF LeaseInv, TaskInv, TypeInv
<1>2. ASSUME NEW v \in Workers PROVE Exclusive(v)'
  <2>1. job[v].at # "idle" => job[v].project \in Projects \ {p}
    BY <1>1 DEF AtWork
  <2> QED BY <2>1, KeepWorker DEF LeaseInv
<1>3. ASSUME NEW q \in Projects PROVE Settled(q)'
  BY KeepProject DEF LeaseInv
<1> QED BY <1>2, <1>3 DEF LeaseInv

LEMMA TeachersAndClocks ==
  ASSUME overtakes' = 0, LeaseInv, TaskInv', NEW p \in Projects,
         CreateProject(p) \/ RetryProvisioning(p) \/ LeaseRunsOut(p) \/ BackoffOver(p)
  PROVE  LeaseInv'
<1>0. /\ project \in [Projects -> {"absent", "provisioning", "active"}]
      /\ repository \in [Projects -> {"none", "queued", "provisioning", "active", "failed"}]
      /\ outbox \in [Projects -> Task]
      /\ outbox[p].attempts \in Nat
      /\ overtakes \in 0 .. MaxOvertakes
      /\ Quiet(p) /\ Settled(p)
  BY DEF LeaseInv, TaskInv, TypeInv, TypeOK, Task
<1>1. UNCHANGED <<job, gitea>> /\ \A q \in Projects \ {p} : Same(q)
  BY <1>0 DEF CreateProject, RetryProvisioning, LeaseRunsOut, BackoffOver, counts, Same, SameRows
<1>2. CASE CreateProject(p)
  <2>1. outbox'[p] = NewTask /\ project'[p] = "provisioning" /\ repository'[p] = "queued"
    BY <1>0, <1>2 DEF CreateProject
  <2>2. Settled(p)'
    BY <1>0, <1>1, <2>1, BoundsAssumption DEF Settled, NewTask, Row
  <2>3. \A v \in Workers : job[v].at # "idle" => job[v].project # p
    BY <1>0, <1>2 DEF CreateProject, Quiet
  <2> QED BY <1>1, <2>2, <2>3, ProjectStep
<1>3. CASE RetryProvisioning(p)
  <2>1. repository[p] = "failed" /\ repository'[p] = "queued" /\ project'[p] = project[p]
    BY <1>0, <1>3 DEF RetryProvisioning
  <2>2. ~outbox[p].published /\ outbox[p].next = "never"
    BY <1>0, <2>1 DEF Settled
  <2>3. outbox'[p] = Row(FALSE, NoOwner, "due", outbox[p].attempts)
    BY <1>0, <1>3, <2>2 DEF RetryProvisioning
  <2>4. Settled(p)'
    BY <1>0, <1>1, <2>1, <2>2, <2>3 DEF Settled, Row
  <2>5. \A v \in Workers : job[v].at # "idle" => job[v].project # p
    BY <2>2, NobodyAt
  <2> QED BY <1>1, <2>4, <2>5, ProjectStep
<1>4. CASE LeaseRunsOut(p)
  <2>1. outbox[p].owner \in Workers
    BY <1>0, <1>4 DEF LeaseRunsOut, Task
  <2>2. job[outbox[p].owner].project # p
    BY <1>0, <1>4 DEF LeaseRunsOut
  <2>3. /\ outbox'[p].published = outbox[p].published /\ outbox'[p].next = outbox[p].next
        /\ outbox'[p].attempts = outbox[p].attempts
    BY <1>0, <1>4 DEF LeaseRunsOut, Task
  <2>4. Settled(p)'
    BY <1>0, <1>1, <1>4, <2>3 DEF LeaseRunsOut, Settled
  <2>5. \A v \in Workers : job[v].at # "idle" => job[v].project # p
    BY <2>1, <2>2, NobodyAt
  <2> QED BY <1>1, <2>4, <2>5, ProjectStep
<1>5. CASE BackoffOver(p)
  <2>1. /\ outbox'[p].published = outbox[p].published /\ outbox'[p].next = "due"
        /\ outbox'[p].attempts = outbox[p].attempts /\ outbox[p].next = "later"
    BY <1>0, <1>5 DEF BackoffOver, Task
  <2>2. Settled(p)'
    BY <1>0, <1>1, <1>5, <2>1 DEF BackoffOver, Settled
  <2>3. \A v \in Workers : job[v].at # "idle" => job[v].project # p
    BY <2>1, NobodyAt
  <2> QED BY <1>1, <2>2, <2>3, ProjectStep
<1> QED BY <1>2, <1>3, <1>4, <1>5

LEMMA Claims ==
  ASSUME LeaseInv, TaskInv', NEW w \in Workers, NEW p \in Projects, Claim(w, p)
  PROVE  LeaseInv'
<1>0. /\ outbox \in [Projects -> Task] /\ job \in [Workers -> Jobs]
      /\ outbox[p].attempts \in Nat /\ Settled(p)
      /\ outbox[p].owner \in Workers \cup {NoOwner}
  BY DEF LeaseInv, TaskInv, TypeInv, TypeOK, Jobs, Task
<1>1. UNCHANGED <<project, repository, gitea>>
  BY DEF Claim
<1>2. outbox'[p] = Row(FALSE, w, "due", outbox[p].attempts + 1)
  BY <1>0 DEF Claim
<1>3. job'[w] = Doing("claimed", p, outbox[p].attempts + 1, FALSE)
  BY <1>0 DEF Claim
<1>4. /\ \A v \in Workers \ {w} : job'[v] = job[v]
      /\ \A q \in Projects \ {p} : Same(q)
  BY <1>0, <1>1 DEF Claim, Same, SameRows
<1>5. \A v \in Workers : job[v].at # "idle" => job[v].project # p
  BY <1>0, OwnerAssumption, NobodyAt DEF Claim, Free
<1>6. Exclusive(w)'
  <2>1. outbox[p].attempts + 1 > 0
    BY <1>0
  <2> QED BY <1>2, <1>3, <2>1 DEF Exclusive, Row, Doing, InGitea
<1>7. Settled(p)'
  BY <1>0, <1>1, <1>2 DEF Settled, Row, Claim
<1> QED BY <1>4, <1>5, <1>6, <1>7, OneStep

\* Where a step may take a worker, and what it leaves of its job.
Moved(w, at) == /\ job'[w].at = at /\ job'[w].project = job[w].project
                /\ job'[w].attempt = job[w].attempt

LEMMA Throws ==
  ASSUME TypeInv, NEW w \in Workers, job[w].at # "idle", Throw(w)
  PROVE  Moved(w, "undoing") \/ Moved(w, "failing")
<1>1. job \in [Workers -> Jobs]
  BY DEF TypeInv, TypeOK, Jobs
<1> QED BY <1>1 DEF Throw, Go, Moved, Jobs

LEMMA Goes ==
  ASSUME TypeInv, NEW w \in Workers, job[w].at # "idle", NEW at \in Places, Go(w, at)
  PROVE  Moved(w, at)
<1>1. job \in [Workers -> Jobs]
  BY DEF TypeInv, TypeOK, Jobs
<1> QED BY <1>1 DEF Go, Moved, Jobs

LEMMA WorkerSteps ==
  ASSUME LeaseInv, TaskInv', NEW w \in Workers, Progress(w)
  PROVE  LeaseInv'
<1>0. /\ project \in [Projects -> {"absent", "provisioning", "active"}]
      /\ repository \in [Projects -> {"none", "queued", "provisioning", "active", "failed"}]
      /\ outbox \in [Projects -> Task] /\ gitea \in [Projects -> Gitea]
      /\ job \in [Workers -> Jobs] /\ TypeInv
  BY DEF LeaseInv, TaskInv, TypeInv, TypeOK, Jobs, Gitea
<1>1. job[w].at # "idle"
  BY DEF Progress, Begin, Look, Generate, Invite, ListHooks, AddHook, Undo, Activate,
         FailAttempt, At
<1> PICK p \in Projects : p = job[w].project
  BY <1>1 DEF LeaseInv, TaskInv, TypeInv, AtWork
<1> DEFINE g == gitea[p]
<1>2. p = job[w].project /\ Exclusive(w) /\ Settled(p)
  BY DEF LeaseInv
<1>3. /\ g \in Gitea /\ g.hooks \in Nat /\ g.repo \in BOOLEAN /\ g.members \in BOOLEAN
      /\ outbox[p].attempts \in Nat
  BY <1>0, <1>2 DEF Gitea, Task
<1>4. /\ outbox[p].owner = w /\ ~outbox[p].expired /\ ~outbox[p].published
      /\ outbox[p].next = "due" /\ job[w].attempt = outbox[p].attempts
      /\ outbox[p].attempts > 0 /\ InGitea(job[w].at, g)
  BY <1>1, <1>2 DEF Exclusive
<1>5. /\ project[p] = "provisioning" /\ repository[p] \in {"queued", "provisioning"}
      /\ g.hooks <= 1
  BY <1>2, <1>4 DEF Settled
<1>6. \A v \in Workers \ {w} : job'[v] = job[v]
  BY <1>0 DEF Progress, Begin, Look, Generate, Invite, ListHooks, AddHook, Undo, Activate,
              FailAttempt, Throw, Go
<1>7. \A q \in Projects \ {p} : Same(q)
  <2>1. CASE Begin(w)
    BY <1>0, <1>2, <2>1 DEF Begin, Same, SameRows
  <2>2. CASE Look(w)
    BY <1>0, <1>2, <2>2 DEF Look, tables, Same, SameRows
  <2>3. CASE Generate(w)
    BY <1>0, <1>2, <2>3 DEF Generate, tables, Same, SameRows
  <2>4. CASE Invite(w)
    BY <1>0, <1>2, <2>4 DEF Invite, tables, Same, SameRows
  <2>5. CASE ListHooks(w)
    BY <1>0, <1>2, <2>5 DEF ListHooks, tables, Same, SameRows
  <2>6. CASE AddHook(w)
    BY <1>0, <1>2, <2>6 DEF AddHook, tables, Same, SameRows
  <2>7. CASE Undo(w)
    BY <1>0, <1>2, <2>7 DEF Undo, tables, Same, SameRows
  <2>8. CASE Activate(w)
    BY <1>0, <1>2, <2>8 DEF Activate, Same, SameRows
  <2>9. CASE FailAttempt(w)
    BY <1>0, <1>2, <2>9 DEF FailAttempt, Same, SameRows
  <2> QED BY <2>1, <2>2, <2>3, <2>4, <2>5, <2>6, <2>7, <2>8, <2>9 DEF Progress
<1>8. \A v \in Workers \ {w} : job[v].at # "idle" => job[v].project # p
  BY <1>1, Alone
<1> SUFFICES Exclusive(w)' /\ Settled(p)'
  BY <1>2, <1>6, <1>7, <1>8, OneStep
<1>9. ASSUME project'[p] = project[p], outbox'[p] = outbox[p],
             repository'[p] \in {"queued", "provisioning"}, gitea'[p].hooks <= 1,
             NEW at, Moved(w, at), InGitea(at, gitea'[p])
      PROVE  Exclusive(w)' /\ Settled(p)'
  <2>1. Exclusive(w)'
    BY <1>4, <1>9 DEF Exclusive, Moved
  <2>2. Settled(p)'
    BY <1>4, <1>5, <1>9 DEF Settled
  <2> QED BY <2>1, <2>2
<1>10. ASSUME project'[p] = project[p], outbox'[p] = outbox[p],
              repository'[p] = repository[p], gitea'[p].hooks <= 1,
              Throw(w)
       PROVE  Exclusive(w)' /\ Settled(p)'
  <2>1. InGitea("undoing", gitea'[p]) /\ InGitea("failing", gitea'[p])
    BY DEF InGitea
  <2> QED BY <1>0, <1>1, <1>5, <1>9, <1>10, <2>1, Throws
<1>11. CASE Begin(w)
  <2>1. /\ project'[p] = project[p] /\ outbox'[p] = outbox[p] /\ gitea'[p] = g
        /\ repository'[p] \in {"queued", "provisioning"}
    BY <1>0, <1>2, <1>5, <1>11 DEF Begin
  <2>2. Moved(w, "looking") \/ Moved(w, "undoing") \/ Moved(w, "failing")
    BY <1>0, <1>1, <1>11, Throws, Goes DEF Begin, Places
  <2>3. \A at \in {"looking", "undoing", "failing"} : InGitea(at, g)
    BY DEF InGitea
  <2> QED BY <1>5, <1>9, <2>1, <2>2, <2>3
<1>12. CASE Look(w)
  <2>1. UNCHANGED <<project, repository, outbox, gitea>>
    BY <1>12 DEF Look, tables
  <2>2. CASE Go(w, IF g.repo THEN "inviting" ELSE "generating")
    <3>1. PICK at \in {"inviting", "generating"} : Go(w, at) /\ InGitea(at, g)
      BY <2>2 DEF InGitea
    <3> QED BY <1>0, <1>1, <1>5, <1>9, <2>1, <3>1, Goes DEF Places
  <2> QED BY <1>5, <1>10, <1>12, <2>1, <2>2 DEF Look
<1>13. CASE Generate(w)
  <2>1. UNCHANGED <<project, repository, outbox>>
    BY <1>13 DEF Generate, tables
  <2>2. gitea'[p].hooks = g.hooks
    <3>1. gitea' = gitea \/ gitea' = [gitea EXCEPT ![p].repo = TRUE]
      BY <1>2, <1>13 DEF Generate
    <3>2. CASE gitea' = [gitea EXCEPT ![p].repo = TRUE]
      BY <1>0, <1>2, <3>2 DEF Gitea
    <3> QED BY <3>1, <3>2
  <2>3. CASE /\ gitea' = [gitea EXCEPT ![p].repo = TRUE]
             /\ job' = [job EXCEPT ![w] = Doing("inviting", p, @.attempt, TRUE)]
    <3>1. Moved(w, "inviting")
      BY <1>0, <2>3 DEF Moved, Doing
    <3>2. InGitea("inviting", gitea'[p])
      BY <1>0, <1>2, <2>3 DEF InGitea, Gitea
    <3> QED BY <1>5, <1>9, <2>1, <2>2, <3>1, <3>2
  <2> QED BY <1>5, <1>10, <1>13, <2>1, <2>2, <2>3 DEF Generate
<1>14. CASE Invite(w)
  <2>1. UNCHANGED <<project, repository, outbox>>
    BY <1>14 DEF Invite, tables
  <2>2. gitea'[p].hooks = g.hooks
    BY <1>0, <1>2, <1>3, <1>14 DEF Invite, Gitea
  <2>3. CASE g.repo /\ gitea' = [gitea EXCEPT ![p].members = TRUE] /\ Go(w, "listing")
    <3>1. InGitea("listing", gitea'[p])
      BY <1>0, <1>2, <2>3 DEF InGitea, Gitea
    <3> QED BY <1>0, <1>1, <1>5, <1>9, <2>1, <2>2, <2>3, <3>1, Goes DEF Places
  <2> QED BY <1>5, <1>10, <1>14, <2>1, <2>2, <2>3 DEF Invite
<1>15. CASE ListHooks(w)
  <2>1. UNCHANGED <<project, repository, outbox, gitea>>
    BY <1>15 DEF ListHooks, tables
  <2>2. CASE g.repo /\ Go(w, IF g.hooks > 0 THEN "provisioned" ELSE "hooking")
    <3>1. g.members
      BY <1>4, <1>15 DEF ListHooks, At, InGitea
    <3>2. PICK at \in {"provisioned", "hooking"} : Go(w, at) /\ InGitea(at, g)
      BY <1>3, <2>2, <3>1 DEF InGitea
    <3> QED BY <1>0, <1>1, <1>5, <1>9, <2>1, <3>2, Goes DEF Places
  <2> QED BY <1>5, <1>10, <1>15, <2>1, <2>2 DEF ListHooks
<1>16. CASE AddHook(w)
  <2>1. UNCHANGED <<project, repository, outbox>>
    BY <1>16 DEF AddHook, tables
  <2>2. g.repo /\ g.members /\ g.hooks = 0
    BY <1>4, <1>16 DEF AddHook, At, InGitea
  <2>3. gitea'[p].hooks <= 1
    BY <1>0, <1>2, <2>2, <1>16 DEF AddHook, Gitea
  <2>4. CASE gitea' = [gitea EXCEPT ![p].hooks = @ + 1] /\ Go(w, "provisioned")
    <3>1. InGitea("provisioned", gitea'[p])
      BY <1>0, <1>2, <2>2, <2>4 DEF InGitea, Gitea
    <3> QED BY <1>0, <1>1, <1>5, <1>9, <2>1, <2>3, <2>4, <3>1, Goes DEF Places
  <2> QED BY <1>5, <1>10, <1>16, <2>1, <2>3, <2>4 DEF AddHook
<1>17. CASE Undo(w)
  <2>1. UNCHANGED <<project, repository, outbox>>
    BY <1>17 DEF Undo, tables
  <2>2. gitea'[p].hooks <= 1
    BY <1>0, <1>2, <1>5, <1>17 DEF Undo, Nothing
  <2>3. InGitea("failing", gitea'[p])
    BY DEF InGitea
  <2> QED BY <1>0, <1>1, <1>5, <1>9, <1>17, <2>1, <2>2, <2>3, Goes DEF Undo, Places
<1>18. CASE Activate(w)
  <2>1. gitea' = gitea /\ g.repo /\ g.members /\ g.hooks > 0
    BY <1>4, <1>18 DEF Activate, At, InGitea
  <2>2. CASE Go(w, "failing") /\ UNCHANGED <<project, repository, outbox>>
    <3>1. InGitea("failing", g)
      BY DEF InGitea
    <3> QED BY <1>0, <1>1, <1>5, <1>9, <2>1, <2>2, <3>1, Goes DEF Places
  <2>3. CASE job' = [job EXCEPT ![w] = Idle]
    <3>0. ~Go(w, "failing")
      BY <1>0, <2>3 DEF Go, Idle, Doing, Jobs
    <3>1. outbox' = [outbox EXCEPT ![p] = Row(TRUE, NoOwner, @.next, @.attempts)]
      BY <1>2, <1>4, <1>18, <3>0 DEF Activate
    <3>2. outbox'[p] = Row(TRUE, NoOwner, "due", outbox[p].attempts)
      BY <1>0, <1>2, <1>4, <3>1
    <3>3. repository'[p] = "active" /\ project'[p] = "active"
      BY <1>0, <1>2, <1>5, <1>18, <3>0 DEF Activate
    <3>4. Settled(p)'
      BY <1>5, <2>1, <3>2, <3>3 DEF Settled, Row
    <3>5. Exclusive(w)'
      BY <1>0, <2>3 DEF Exclusive, Idle, Doing
    <3> QED BY <3>4, <3>5
  <2> QED BY <1>18, <2>2, <2>3 DEF Activate
<1>19. CASE FailAttempt(w)
  <2>1. project'[p] = "provisioning" /\ gitea'[p] = g
    BY <1>5, <1>19 DEF FailAttempt
  <2>2. outbox'[p] = Rescheduled(w)
    BY <1>0, <1>2, <1>4, <1>19 DEF FailAttempt
  <2>3. repository'[p] = IF GivesUp(w) THEN "failed" ELSE "queued"
    BY <1>0, <1>2, <1>19 DEF FailAttempt
  <2>4. GivesUp(w) <=> outbox[p].attempts >= MaxAttempts
    BY <1>4 DEF GivesUp
  <2>5. /\ ~outbox'[p].published /\ outbox'[p].attempts = outbox[p].attempts
        /\ outbox'[p].next = IF GivesUp(w) THEN "never" ELSE "later"
    BY <1>4, <2>2 DEF Rescheduled, Row
  <2>6. Settled(p)'
    BY <1>3, <1>5, <2>1, <2>3, <2>4, <2>5, BoundsAssumption DEF Settled
  <2>7. Exclusive(w)'
    BY <1>0, <1>19 DEF FailAttempt, Exclusive, Idle, Doing
  <2> QED BY <2>6, <2>7
<1> QED BY <1>11, <1>12, <1>13, <1>14, <1>15, <1>16, <1>17, <1>18, <1>19 DEF Progress

LEMMA LeaseStep == overtakes' = 0 /\ LeaseInv /\ [Next]_vars => LeaseInv'
<1> SUFFICES ASSUME overtakes' = 0, LeaseInv, [Next]_vars PROVE LeaseInv'
  OBVIOUS
<1>1. TaskInv'
  BY TaskStep DEF LeaseInv
<1>2. ASSUME NEW w \in Workers, Crash(w) PROVE LeaseInv'
  <2>1. /\ job \in [Workers -> Jobs] /\ job[w].at # "idle" /\ AtWork
        /\ job' = [job EXCEPT ![w] = Idle]
    BY <1>2 DEF Crash, At, LeaseInv, TaskInv, TypeInv, TypeOK, Jobs
  <2>2. \A q \in Projects : Same(q)
    BY <1>2 DEF Crash, tables, Same, SameRows
  <2>3. \A v \in Workers \ {w} :
          job'[v] = job[v] /\ (job[v].at # "idle" => job[v].project # job[w].project)
    BY <2>1, Alone
  <2>4. job[w].project \in Projects /\ Settled(job[w].project)
    BY <2>1 DEF AtWork, LeaseInv
  <2>5. Exclusive(w)'
    BY <2>1 DEF Exclusive, Idle, Doing
  <2>6. ASSUME NEW p \in Projects PROVE Settled(p)'
    BY <2>2, <2>6, KeepProject DEF LeaseInv
  <2>7. ASSUME NEW v \in Workers PROVE Exclusive(v)'
    <3>1. CASE v = w
      BY <2>5, <3>1
    <3>2. CASE v # w
      BY <2>1, <2>2, <2>3, <3>2, KeepWorker DEF LeaseInv, AtWork
    <3> QED BY <3>1, <3>2
  <2> QED BY <1>1, <2>6, <2>7 DEF LeaseInv
<1>3. CASE UNCHANGED vars
  BY <1>1, <1>3 DEF vars, tables, counts, LeaseInv, Exclusive, Settled
<1> QED BY <1>1, <1>2, <1>3, TeachersAndClocks, Claims, WorkerSteps DEF Next

\* The count of overtaken leases never falls.
LEMMA OvertakesStay == TaskInv /\ [Next]_vars /\ overtakes' = 0 => overtakes = 0
<1> SUFFICES ASSUME TaskInv, [Next]_vars, overtakes' = 0 PROVE overtakes = 0
  OBVIOUS
<1>1. overtakes \in Nat
  BY DEF TaskInv, TypeInv, TypeOK
<1>2. ASSUME NEW p \in Projects, LeaseRunsOut(p) PROVE overtakes = 0
  BY <1>1, <1>2 DEF LeaseRunsOut
<1>3. ASSUME NEW w \in Workers, Progress(w) \/ Crash(w) PROVE overtakes = 0
  BY <1>3 DEF Progress, Begin, Look, Generate, Invite, ListHooks, AddHook, Undo, Activate, FailAttempt, Crash, counts
<1> QED BY <1>2, <1>3 DEF Next, CreateProject, RetryProvisioning, BackoffOver, Claim, vars, counts

LEMMA LeaseInvariant == Spec => [](overtakes = 0 => LeaseInv)
<1>1. Init => LeaseInv
  <2> SUFFICES ASSUME Init PROVE LeaseInv
    OBVIOUS
  <2>1. TaskInv
    BY TypeInit DEF Init, TaskInv, DoneMeansActive, Quiet, NoTask, Row, Idle, Doing
  <2>2. \A w \in Workers : Exclusive(w)
    BY DEF Init, Exclusive, Idle, Doing
  <2>3. \A p \in Projects : Settled(p)
    BY DEF Init, Settled, NoTask, Row, Nothing
  <2> QED BY <2>1, <2>2, <2>3 DEF LeaseInv
<1>2. TaskInv /\ (overtakes = 0 => LeaseInv) /\ [Next]_vars => (overtakes = 0 => LeaseInv)'
  BY LeaseStep, OvertakesStay
<1> QED BY <1>1, <1>2, TaskInvariant, PTL DEF Spec

\* An active project has its repository, its members and its webhook.
THEOREM ActiveIsComplete == Spec => []CompleteUnlessOvertaken
<1>1. (overtakes = 0 => LeaseInv) => CompleteUnlessOvertaken
  BY DEF LeaseInv, Settled, CompleteUnlessOvertaken, ActiveProjectIsComplete
<1> QED BY <1>1, LeaseInvariant, PTL

\* However often attempts fail and are repeated, a repository gets one webhook.
THEOREM WebhookIsUnique == Spec => []OneWebhook
<1>1. (overtakes = 0 => LeaseInv) => OneWebhook
  BY DEF LeaseInv, Settled, OneWebhook
<1> QED BY <1>1, LeaseInvariant, PTL

\* The retry endpoint accepts every project whose task has stopped.
THEOREM StoppedIsRetryable == Spec => []StoppedTaskIsRetryable
<1>1. (overtakes = 0 => LeaseInv) => StoppedTaskIsRetryable
  BY DEF LeaseInv, Settled, StoppedTaskIsRetryable
<1> QED BY <1>1, LeaseInvariant, PTL

\* A task that is done or stopped says so truly of its project.
THEOREM TasksTellState == Spec => []TaskTellsState
BY TasksDoneWhenActive, StoppedIsRetryable, PTL DEF TaskTellsState

\* No project is given up early and none is tried again too often.
THEOREM AttemptsAreUsed == Spec => []GivesUpInTime
<1>1. (overtakes = 0 => LeaseInv) => GivesUpInTime
  BY DEF LeaseInv, Settled, GivesUpInTime
<1> QED BY <1>1, LeaseInvariant, PTL

-----------------------------------------------------------------------------
(* The refinement of ProjectLifecycle.                                     *)

\* What one project shows of itself, and that a step changes nothing of it.
Seen(p) == IF project[p] = "provisioning" /\ repository[p] = "failed" THEN "failed" ELSE project[p]
Pending(p) == ~outbox[p].published /\ outbox[p].next # "never"
Has(p) == IF project[p] = "active" THEN gitea[p] ELSE Nothing
Unseen(p) == /\ Seen(p)' = Seen(p) /\ Pending(p)' = Pending(p) /\ Has(p)' = Has(p)
             /\ outbox'[p].attempts = outbox[p].attempts

LEMMA SameIsUnseen ==
  ASSUME NEW p \in Projects, Same(p)
  PROVE  Unseen(p)
BY DEF Same, SameRows, Unseen, Seen, Pending, Has

LEMMA NothingSeen ==
  ASSUME \A p \in Projects : Unseen(p)
  PROVE  UNCHANGED Lifecycle!vars
<1>1. StatusSeen' = StatusSeen
  BY DEF Unseen, Seen, StatusSeen
<1>2. PendingTasks' = PendingTasks
  BY DEF Unseen, Pending, PendingTasks
<1>3. AttemptsMade' = AttemptsMade
  BY DEF Unseen, AttemptsMade
<1>4. Delivered' = Delivered
  BY DEF Unseen, Has, Delivered
<1> QED BY <1>1, <1>2, <1>3, <1>4 DEF Lifecycle!vars

\* A step that is seen at one project only is seen as what it does to that one.
LEMMA OneSeen ==
  ASSUME NEW p \in Projects, \A q \in Projects \ {p} : Unseen(q)
  PROVE  /\ StatusSeen' = [StatusSeen EXCEPT ![p] = Seen(p)']
         /\ PendingTasks' = IF Pending(p)' THEN PendingTasks \cup {p} ELSE PendingTasks \ {p}
         /\ AttemptsMade' = [AttemptsMade EXCEPT ![p] = outbox'[p].attempts]
         /\ Delivered' = [Delivered EXCEPT ![p] = Has(p)']
<1>1. StatusSeen' = [StatusSeen EXCEPT ![p] = Seen(p)']
  BY DEF Unseen, Seen, StatusSeen
<1>2. PendingTasks' = IF Pending(p)' THEN PendingTasks \cup {p} ELSE PendingTasks \ {p}
  BY DEF Unseen, Pending, PendingTasks
<1>3. AttemptsMade' = [AttemptsMade EXCEPT ![p] = outbox'[p].attempts]
  BY DEF Unseen, AttemptsMade
<1>4. Delivered' = [Delivered EXCEPT ![p] = Has(p)']
  BY DEF Unseen, Has, Delivered
<1> QED BY <1>1, <1>2, <1>3, <1>4

LEMMA SeenAt ==
  ASSUME NEW p \in Projects
  PROVE  /\ StatusSeen[p] = Seen(p) /\ AttemptsMade[p] = outbox[p].attempts
         /\ p \in PendingTasks <=> Pending(p)
         /\ [StatusSeen EXCEPT ![p] = Seen(p)] = StatusSeen
         /\ [AttemptsMade EXCEPT ![p] = outbox[p].attempts] = AttemptsMade
         /\ [Delivered EXCEPT ![p] = Has(p)] = Delivered
BY DEF StatusSeen, AttemptsMade, Delivered, PendingTasks, Seen, Has, Pending

LEMMA TeachersSeen ==
  ASSUME overtakes' = 0, LeaseInv, NEW p \in Projects,
         CreateProject(p) \/ RetryProvisioning(p) \/ LeaseRunsOut(p) \/ BackoffOver(p)
  PROVE  Lifecycle!Next \/ UNCHANGED Lifecycle!vars
<1>0. /\ project \in [Projects -> {"absent", "provisioning", "active"}]
      /\ repository \in [Projects -> {"none", "queued", "provisioning", "active", "failed"}]
      /\ outbox \in [Projects -> Task]
      /\ outbox[p].attempts \in Nat
      /\ Quiet(p) /\ Settled(p)
  BY DEF LeaseInv, TaskInv, TypeInv, TypeOK, Task
<1>1. gitea' = gitea /\ \A q \in Projects \ {p} : Unseen(q)
  <2>1. gitea' = gitea /\ \A q \in Projects \ {p} : Same(q)
    BY <1>0 DEF CreateProject, RetryProvisioning, LeaseRunsOut, BackoffOver, counts, Same, SameRows
  <2> QED BY <2>1, SameIsUnseen
<1>2. CASE CreateProject(p)
  <2>1. /\ project[p] = "absent" /\ outbox'[p] = NewTask
        /\ project'[p] = "provisioning" /\ repository'[p] = "queued"
    BY <1>0, <1>2 DEF CreateProject
  <2>2. outbox[p].attempts = 0
    BY <1>0, <2>1 DEF Settled
  <2>3. /\ Seen(p) = "absent" /\ Seen(p)' = "provisioning" /\ Pending(p)'
        /\ Has(p)' = Has(p) /\ outbox'[p].attempts = outbox[p].attempts
    BY <2>1, <2>2 DEF Seen, Pending, Has, NewTask, Row
  <2>4. Lifecycle!Ask(p)
    BY <1>1, <2>3, OneSeen, SeenAt DEF Lifecycle!Ask, Lifecycle!Becomes
  <2> QED BY <2>4 DEF Lifecycle!Next
<1>3. CASE RetryProvisioning(p)
  <2>1. repository[p] = "failed" /\ repository'[p] = "queued" /\ project'[p] = project[p]
    BY <1>0, <1>3 DEF RetryProvisioning
  <2>2. ~outbox[p].published /\ outbox[p].next = "never" /\ project[p] = "provisioning"
    BY <1>0, <2>1 DEF Settled
  <2>3. outbox'[p] = Row(FALSE, NoOwner, "due", outbox[p].attempts)
    BY <1>0, <1>3, <2>2 DEF RetryProvisioning
  <2>4. /\ Seen(p) = "failed" /\ Seen(p)' = "provisioning" /\ Pending(p)'
        /\ Has(p)' = Has(p) /\ outbox'[p].attempts = outbox[p].attempts
    BY <2>1, <2>2, <2>3 DEF Seen, Pending, Has, Row
  <2>5. Lifecycle!PutBack(p)
    BY <1>1, <2>4, OneSeen, SeenAt DEF Lifecycle!PutBack, Lifecycle!Becomes
  <2> QED BY <2>5 DEF Lifecycle!Next
<1>4. CASE LeaseRunsOut(p) \/ BackoffOver(p)
  <2>1. project' = project /\ repository' = repository
    BY <1>4 DEF LeaseRunsOut, BackoffOver
  <2>2. /\ outbox'[p].published = outbox[p].published
        /\ outbox'[p].attempts = outbox[p].attempts
        /\ outbox'[p].next = "never" <=> outbox[p].next = "never"
    BY <1>0, <1>4 DEF LeaseRunsOut, BackoffOver, Task
  <2>3. Unseen(p)
    BY <1>1, <2>1, <2>2 DEF Unseen, Seen, Pending, Has
  <2> QED BY <1>1, <2>3, NothingSeen
<1> QED BY <1>2, <1>3, <1>4

LEMMA ClaimsSeen ==
  ASSUME LeaseInv, NEW w \in Workers, NEW p \in Projects, Claim(w, p)
  PROVE  Lifecycle!Next
<1>0. /\ outbox \in [Projects -> Task] /\ Settled(p)
  BY DEF LeaseInv, TaskInv, TypeInv, TypeOK
<1>1. \A q \in Projects \ {p} : Unseen(q)
  <2>1. \A q \in Projects \ {p} : Same(q)
    BY <1>0 DEF Claim, Same, SameRows
  <2> QED BY <2>1, SameIsUnseen
<1>2. /\ UNCHANGED <<project, repository, gitea>>
      /\ ~outbox[p].published /\ outbox[p].next = "due"
      /\ outbox'[p] = Row(FALSE, w, "due", outbox[p].attempts + 1)
  BY <1>0 DEF Claim
<1>3. /\ Seen(p) = "provisioning" /\ Seen(p)' = Seen(p) /\ Pending(p) /\ Pending(p)'
      /\ Has(p)' = Has(p) /\ outbox'[p].attempts = outbox[p].attempts + 1
  BY <1>0, <1>2 DEF Seen, Pending, Has, Settled, Row
<1>4. Lifecycle!Try(p)
  BY <1>1, <1>3, OneSeen, SeenAt DEF Lifecycle!Try
<1> QED BY <1>4 DEF Lifecycle!Next

\* What a worker does before it ends its attempt is not seen.
LEMMA WorkersSeen ==
  ASSUME LeaseInv, NEW w \in Workers, Progress(w)
  PROVE  Lifecycle!Next \/ UNCHANGED Lifecycle!vars
<1>0. /\ project \in [Projects -> {"absent", "provisioning", "active"}]
      /\ repository \in [Projects -> {"none", "queued", "provisioning", "active", "failed"}]
      /\ outbox \in [Projects -> Task] /\ gitea \in [Projects -> Gitea]
      /\ job \in [Workers -> Jobs]
  BY DEF LeaseInv, TaskInv, TypeInv, TypeOK, Jobs, Gitea
<1>1. job[w].at # "idle"
  BY DEF Progress, Begin, Look, Generate, Invite, ListHooks, AddHook, Undo, Activate,
         FailAttempt, At
<1> PICK p \in Projects : p = job[w].project
  BY <1>1 DEF LeaseInv, TaskInv, TypeInv, AtWork
<1>2. p = job[w].project /\ Exclusive(w) /\ Settled(p)
  BY DEF LeaseInv
<1>3. /\ outbox[p].owner = w /\ ~outbox[p].published /\ outbox[p].next = "due"
      /\ job[w].attempt = outbox[p].attempts /\ outbox[p].attempts > 0
      /\ InGitea(job[w].at, gitea[p])
  BY <1>1, <1>2 DEF Exclusive
<1>4. project[p] = "provisioning" /\ repository[p] \in {"queued", "provisioning"}
  BY <1>2, <1>3 DEF Settled
<1>5. CASE \/ Look(w) \/ Generate(w) \/ Invite(w) \/ ListHooks(w) \/ AddHook(w) \/ Undo(w)
  <2>1. UNCHANGED tables /\ \A q \in Projects \ {p} : gitea'[q] = gitea[q]
    BY <1>0, <1>2, <1>5 DEF Look, Generate, Invite, ListHooks, AddHook, Undo
  <2>2. \A q \in Projects : Unseen(q)
    BY <1>4, <2>1 DEF tables, Unseen, Seen, Pending, Has
  <2> QED BY <2>2, NothingSeen
<1>6. CASE Begin(w)
  <2>1. /\ UNCHANGED <<project, outbox, gitea>>
        /\ \A q \in Projects : \/ repository'[q] = repository[q]
                               \/ q = p /\ repository'[q] = "provisioning"
    BY <1>0, <1>2, <1>6 DEF Begin
  <2>2. \A q \in Projects : Unseen(q)
    BY <1>4, <2>1 DEF Unseen, Seen, Pending, Has
  <2> QED BY <2>2, NothingSeen
<1>7. ASSUME Activate(w) \/ FailAttempt(w)
      PROVE  gitea' = gitea /\ \A q \in Projects \ {p} : Unseen(q)
  <2>1. CASE Activate(w)
    BY <1>0, <1>2, <2>1, SameIsUnseen DEF Activate, Same, SameRows
  <2>2. CASE FailAttempt(w)
    BY <1>0, <1>2, <2>2, SameIsUnseen DEF FailAttempt, Same, SameRows
  <2> QED BY <1>7, <2>1, <2>2
<1>8. CASE Activate(w)
  <2>1. CASE UNCHANGED <<project, repository, outbox>>
    <3>1. \A q \in Projects : Unseen(q)
      BY <1>7, <1>8, <2>1 DEF Unseen, Seen, Pending, Has
    <3> QED BY <3>1, NothingSeen
  <2>2. CASE ~UNCHANGED <<project, repository, outbox>>
    <3>1. /\ repository' = [repository EXCEPT ![p] = "active"]
          /\ project' = [project EXCEPT ![p] = IF @ = "provisioning" THEN "active" ELSE @]
          /\ outbox' = [outbox EXCEPT ![p] = Row(TRUE, NoOwner, @.next, @.attempts)]
      BY <1>2, <1>3, <1>8, <2>2 DEF Activate
    <3>2. /\ project'[p] = "active"
          /\ outbox'[p] = Row(TRUE, NoOwner, outbox[p].next, outbox[p].attempts)
      BY <1>0, <1>4, <3>1
    <3>3. gitea[p] = Lifecycle!Complete
      <4>1. /\ gitea[p] \in Gitea /\ gitea[p].repo /\ gitea[p].members
            /\ gitea[p].hooks > 0 /\ gitea[p].hooks <= 1
        BY <1>0, <1>2, <1>3, <1>8 DEF Activate, At, InGitea, Settled
      <4>2. gitea[p].hooks = 1
        BY <4>1 DEF Gitea
      <4> QED BY <4>1, <4>2 DEF Gitea, Lifecycle!Complete
    <3>4. /\ Seen(p) = "provisioning" /\ Seen(p)' = "active" /\ ~Pending(p)'
          /\ Has(p)' = Lifecycle!Complete /\ outbox'[p].attempts = outbox[p].attempts
      BY <1>4, <1>7, <1>8, <3>2, <3>3 DEF Seen, Pending, Has, Row
    <3>5. Lifecycle!Succeed(p)
      BY <1>3, <1>7, <1>8, <3>4, OneSeen, SeenAt DEF Lifecycle!Succeed, Lifecycle!Becomes
    <3> QED BY <3>5 DEF Lifecycle!Next
  <2> QED BY <2>1, <2>2
<1>9. CASE FailAttempt(w)
  <2>1. /\ project'[p] = "provisioning"
        /\ repository'[p] = IF GivesUp(w) THEN "failed" ELSE "queued"
        /\ outbox'[p] = Row(FALSE, NoOwner, IF GivesUp(w) THEN "never" ELSE "later",
                            outbox[p].attempts)
    <3>1. /\ project' = project
          /\ repository' = [repository EXCEPT ![p] = IF GivesUp(w) THEN "failed" ELSE "queued"]
          /\ outbox' = [outbox EXCEPT ![p] = Rescheduled(w)]
      BY <1>2, <1>3, <1>9 DEF FailAttempt
    <3>2. Rescheduled(w) = Row(FALSE, NoOwner, IF GivesUp(w) THEN "never" ELSE "later",
                              outbox[p].attempts)
      <4>1. outbox[p].published = FALSE
        BY <1>0, <1>3 DEF Task
      <4> QED BY <1>2, <4>1 DEF Rescheduled
    <3> QED BY <1>0, <1>4, <3>1, <3>2
  <2>2. CASE GivesUp(w)
    <3>1. outbox[p].attempts >= MaxAttempts
      BY <1>3, <2>2 DEF GivesUp
    <3>2. /\ Seen(p) = "provisioning" /\ Seen(p)' = "failed" /\ ~Pending(p)'
          /\ Has(p)' = Has(p) /\ outbox'[p].attempts = outbox[p].attempts
      BY <1>4, <2>1, <2>2 DEF Seen, Pending, Has, Row
    <3>3. Lifecycle!GiveUp(p)
      BY <1>7, <1>9, <3>1, <3>2, OneSeen, SeenAt DEF Lifecycle!GiveUp, Lifecycle!Becomes
    <3> QED BY <3>3 DEF Lifecycle!Next
  <2>3. CASE ~GivesUp(w)
    <3>1. Unseen(p)
      BY <1>3, <1>4, <2>1, <2>3 DEF Unseen, Seen, Pending, Has, Row
    <3> QED BY <1>7, <1>9, <3>1, NothingSeen
  <2> QED BY <2>2, <2>3
<1> QED BY <1>5, <1>6, <1>8, <1>9 DEF Progress

\* While nobody is overtaken, lost replies, crashes, rollbacks and attempts that
\* are repeated show as nothing but asking, trying, succeeding, giving up and
\* putting back, each of them complete.
THEOREM ProvisioningImplementsLifecycle == Spec => LifecycleUntilOvertaken
<1>1. Init => Lifecycle!Init
  BY DEF Init, Lifecycle!Init, StatusSeen, PendingTasks, AttemptsMade, Delivered, NoTask, Row,
         Nothing, Lifecycle!Nothing
<1>2. LeaseInv /\ overtakes' = 0 /\ [Next]_vars => Lifecycle!Next \/ UNCHANGED Lifecycle!vars
  <2> SUFFICES ASSUME LeaseInv, overtakes' = 0, [Next]_vars
               PROVE  Lifecycle!Next \/ UNCHANGED Lifecycle!vars
    OBVIOUS
  <2>1. ASSUME NEW w \in Workers, Crash(w) PROVE UNCHANGED Lifecycle!vars
    <3>1. \A q \in Projects : Same(q)
      BY <2>1 DEF Crash, tables, Same, SameRows
    <3> QED BY <3>1, SameIsUnseen, NothingSeen
  <2>2. CASE UNCHANGED vars
    <3>1. \A q \in Projects : Same(q)
      BY <2>2 DEF vars, tables, Same, SameRows
    <3> QED BY <3>1, SameIsUnseen, NothingSeen
  <2> QED BY <2>1, <2>2, TeachersSeen, ClaimsSeen, WorkersSeen DEF Next
<1>3. TaskInv /\ (overtakes = 0 => LeaseInv) /\ [Next]_vars =>
        [overtakes' = 0 => Lifecycle!Next \/ UNCHANGED Lifecycle!vars]_vars
  BY <1>2, OvertakesStay
<1> QED BY <1>1, <1>3, TaskInvariant, LeaseInvariant, PTL DEF Spec, LifecycleUntilOvertaken

=============================================================================
