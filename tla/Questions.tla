----------------------------- MODULE Questions -----------------------------
(***************************************************************************)
(* Course questions of vos-portal.  Asking a question reserves model usage *)
(* under the monthly quota of the course and, if there is one, of the user *)
(* who asks (reserveModelUsage), and puts a leased task on the outbox.  A  *)
(* worker asks the agent and settles the usage with what the answer really *)
(* cost; after the last failed attempt the reservation is released         *)
(* (dispatchQaOne).  The agent may take longer than the lease, workers may *)
(* crash, and an administrator may change the quotas meanwhile.            *)
(***************************************************************************)
EXTENDS Integers, FiniteSets, Functions

CONSTANTS
  Users, Questions, Workers, NoOwner, NoQuestion,
  Asker,         \* who asks a question
  Limits,        \* the quotas an administrator may set, NoLimit aside
  NoLimit,       \* no enabled quota
  Reservations,  \* what a question may reserve (tokens, or their cost)
  Actuals,       \* what an answer may cost
  MaxAttempts,   \* five in the code
  MaxFaults      \* bound: crashes, and leases that run out under a worker

Course == "course"
Scopes == Users \cup {Course}

ASSUME QuestionsAssumption ==
  /\ Course \notin Users /\ NoOwner \notin Workers /\ NoQuestion \notin Questions
  /\ Asker \in [Questions -> Users] /\ IsFiniteSet(Questions)
  /\ Limits \subseteq [requests : Nat, tokens : Nat] /\ NoLimit \notin Limits
  /\ Reservations \subseteq Nat /\ Actuals \subseteq Nat
  /\ MaxAttempts \in Nat \ {0} /\ MaxFaults \in Nat

VARIABLES
  quota,      \* model_quota_policies: the enabled quota of each scope
  courseRow,  \* the question whose transaction has the course row locked
  asking,     \* how far the transaction of ask has come
  usage,      \* model_usage_ledger.status ("none": no such row)
  cost,       \* its reserved amount, and its actual amount once settled
  answered,   \* the assistant's message and its audit exist
  event,      \* the 'qa.agent.requested' row of the outbox
  job,        \* what each worker is doing, kept in its process only
  faults

asks == <<quota, courseRow, asking>>
ledger == <<usage, cost, answered>>
vars == <<asks, ledger, event, job, faults>>

Event(state, owner, due, attempts) ==
  [state |-> state, owner |-> owner, expired |-> FALSE, due |-> due, attempts |-> attempts]
NoEvent == Event("none", NoOwner, FALSE, 0)
Doing(at, q, attempt) == [at |-> at, question |-> q, attempt |-> attempt]
Idle == Doing("idle", NoQuestion, 0)

Init ==
  /\ quota = [s \in Scopes |-> NoLimit]
  /\ courseRow = NoQuestion
  /\ asking = [q \in Questions |-> "no"]
  /\ usage = [q \in Questions |-> "none"]
  /\ cost = [q \in Questions |-> 0]
  /\ answered = [q \in Questions |-> FALSE]
  /\ event = [q \in Questions |-> NoEvent]
  /\ job = [w \in Workers |-> Idle]
  /\ faults = 0

-----------------------------------------------------------------------------
(* Administrators.  saveQuota is one step: it too locks the course row.    *)

\* exceeds and exceedsRow
Within(inner, outer) ==
  inner # NoLimit /\ outer # NoLimit =>
    inner.requests <= outer.requests /\ inner.tokens <= outer.tokens

SaveQuota(s, limit) ==
  /\ courseRow = NoQuestion
  /\ IF s = Course THEN \A u \in Users : Within(quota[u], limit) ELSE Within(limit, quota[Course])
  /\ quota' = [quota EXCEPT ![s] = limit]
  /\ UNCHANGED <<courseRow, asking, ledger, event, job, faults>>

-----------------------------------------------------------------------------
(* Users ask.  The transaction reads the ledger once for each quota and    *)
(* inserts its own row last; workers' transactions commit in between.      *)

Counted(s) == {q \in Questions : usage[q] \in {"reserved", "settled"} /\ s \in {Course, Asker[q]}}
Tokens(s)  == SumFunctionOnSet(cost, Counted(s))

Fits(s, q) ==
  quota[s] # NoLimit =>
    /\ Cardinality(Counted(s)) + 1 <= quota[s].requests
    /\ Tokens(s) + cost[q] <= quota[s].tokens

\* Slip: the course row is read without "for update".
BeginAsk_Unlocked(q, amount) ==
  /\ asking[q] = "no" /\ quota[Course] # NoLimit
  /\ asking' = [asking EXCEPT ![q] = "course"]
  /\ cost' = [cost EXCEPT ![q] = amount]
  /\ UNCHANGED <<quota, courseRow, usage, answered, event, job, faults>>

\* The course row, the advisory lock and the quota rows are locked in this
\* order by everyone: one lock.
BeginAsk(q, amount) ==
  /\ asking[q] = "no"
  /\ courseRow = NoQuestion
  /\ quota[Course] # NoLimit
  /\ courseRow' = q
  /\ asking' = [asking EXCEPT ![q] = "course"]
  /\ cost' = [cost EXCEPT ![q] = amount]
  /\ UNCHANGED <<quota, usage, answered, event, job, faults>>

CheckCourse(q) ==
  /\ asking[q] = "course"
  /\ Fits(Course, q)
  /\ asking' = [asking EXCEPT ![q] = "user"]
  /\ UNCHANGED <<quota, courseRow, ledger, event, job, faults>>

CheckUser(q) ==
  /\ asking[q] = "user"
  /\ Fits(Asker[q], q)
  /\ asking' = [asking EXCEPT ![q] = "fits"]
  /\ UNCHANGED <<quota, courseRow, ledger, event, job, faults>>

\* The quota is used up: the transaction rolls back, message and all.
Refuse(q) ==
  /\ \/ asking[q] = "course" /\ ~Fits(Course, q)
     \/ asking[q] = "user" /\ ~Fits(Asker[q], q)
  /\ asking' = [asking EXCEPT ![q] = "no"]
  /\ courseRow' = NoQuestion
  /\ cost' = [cost EXCEPT ![q] = 0]
  /\ UNCHANGED <<quota, usage, answered, event, job, faults>>

Record(q) ==
  /\ asking[q] = "fits"
  /\ asking' = [asking EXCEPT ![q] = "asked"]
  /\ courseRow' = NoQuestion
  /\ usage' = [usage EXCEPT ![q] = "reserved"]
  /\ event' = [event EXCEPT ![q] = Event("open", NoOwner, TRUE, 0)]
  /\ UNCHANGED <<quota, cost, answered, job, faults>>

-----------------------------------------------------------------------------
(* Workers answer (dispatchQaOne).                                         *)

\* Slip: a task stays with the worker that took it.
Claimable_Unleased(e) == e.state = "open" /\ e.due /\ e.owner = NoOwner
Claimable(e) == e.state = "open" /\ e.due /\ (e.owner = NoOwner \/ e.expired)

Claim(w, q) ==
  /\ job[w].at = "idle"
  /\ Claimable(event[q])
  /\ event' = [event EXCEPT ![q] = Event("open", w, TRUE, @.attempts + 1)]
  /\ job' = [job EXCEPT ![w] = Doing("claimed", q, event[q].attempts + 1)]
  /\ UNCHANGED <<asks, ledger, faults>>

GoTo(w, at) == job' = [job EXCEPT ![w].at = at]

\* The reservation is read, then the policy and the provider, then the agent asked.
Prepare(w) ==
  /\ job[w].at = "claimed"
  /\ usage[job[w].question] = "reserved"
  /\ GoTo(w, "asking")
  /\ UNCHANGED <<asks, ledger, event, faults>>

\* Slip: the usage is settled whatever became of the reservation.
Settleable_Always(q) == ~answered[q]
\* The message is unique for its question, and only a reservation is settled.
Settleable(q) == ~answered[q] /\ usage[q] = "reserved"

\* The answer arrived: message, audit and settlement commit together, or none
\* of them.  That the outbox row is still this worker's is not asked.
Settle(w, actual) ==
  LET q == job[w].question IN
  /\ job[w].at = "asking"
  /\ Settleable(q)
  /\ answered' = [answered EXCEPT ![q] = TRUE]
  /\ usage' = [usage EXCEPT ![q] = "settled"]
  /\ cost' = [cost EXCEPT ![q] = actual]
  /\ event' = [event EXCEPT ![q] =
       IF @.owner = w THEN Event("published", NoOwner, @.due, @.attempts) ELSE @]
  /\ job' = [job EXCEPT ![w] = Idle]
  /\ UNCHANGED <<asks, faults>>

\* Anything thrown: a policy or provider that changed, an agent that fails, an
\* answer from another model, a reservation that is gone.
AttemptFails(w) ==
  /\ job[w].at \in {"claimed", "asking"}
  /\ GoTo(w, "failing")
  /\ UNCHANGED <<asks, ledger, event, faults>>

Terminal(attempt) == attempt >= MaxAttempts

\* Slip: the usage is released whatever it is.
Released_Always(status) == "released"
Released(status) == IF status = "reserved" THEN "released" ELSE status

\* Slip: the reservation outlives the last attempt by one.
Fail_ReleasesLater(w) ==
  LET q == job[w].question
      last == Terminal(job[w].attempt)
  IN
  /\ job[w].at = "failing"
  /\ event' = [event EXCEPT ![q] =
       IF @.owner = w
       THEN Event(IF last THEN "stopped" ELSE @.state, NoOwner, FALSE, @.attempts)
       ELSE @]
  /\ usage' = [usage EXCEPT ![q] = IF Terminal(job[w].attempt - 1) THEN Released(@) ELSE @]
  /\ job' = [job EXCEPT ![w] = Idle]
  /\ UNCHANGED <<asks, cost, answered, faults>>

\* The catch block.  The outbox row is written by its owner only; the
\* reservation is released by whoever made the last attempt.
Fail(w) ==
  LET q == job[w].question
      last == Terminal(job[w].attempt)
  IN
  /\ job[w].at = "failing"
  /\ event' = [event EXCEPT ![q] =
       IF @.owner = w
       THEN Event(IF last THEN "stopped" ELSE @.state, NoOwner, FALSE, @.attempts)
       ELSE @]
  /\ usage' = [usage EXCEPT ![q] = IF last THEN Released(@) ELSE @]
  /\ job' = [job EXCEPT ![w] = Idle]
  /\ UNCHANGED <<asks, cost, answered, faults>>

Progress(w) ==
  Prepare(w) \/ AttemptFails(w) \/ Fail(w) \/ \E actual \in Actuals : Settle(w, actual)

-----------------------------------------------------------------------------
(* Time and crashes.                                                       *)

BackoffOver(q) ==
  /\ event[q].state = "open" /\ ~event[q].due
  /\ event' = [event EXCEPT ![q].due = TRUE]
  /\ UNCHANGED <<asks, ledger, job, faults>>

AtWork(q) == \E w \in Workers : event[q].owner = w /\ job[w].question = q

\* leased_until < now().  Under a worker that still waits for its answer this is a fault.
LeaseRunsOut(q) ==
  /\ event[q].owner # NoOwner /\ ~event[q].expired
  /\ AtWork(q) => faults < MaxFaults
  /\ faults' = IF AtWork(q) THEN faults + 1 ELSE faults
  /\ event' = [event EXCEPT ![q].expired = TRUE]
  /\ UNCHANGED <<asks, ledger, job>>

Crash(w) ==
  /\ job[w].at # "idle" /\ faults < MaxFaults
  /\ faults' = faults + 1
  /\ job' = [job EXCEPT ![w] = Idle]
  /\ UNCHANGED <<asks, ledger, event>>

Next ==
  \/ \E s \in Scopes, limit \in Limits \cup {NoLimit} : SaveQuota(s, limit)
  \/ \E q \in Questions :
       \/ \E amount \in Reservations : BeginAsk(q, amount)
       \/ CheckCourse(q) \/ CheckUser(q) \/ Refuse(q) \/ Record(q)
       \/ BackoffOver(q) \/ LeaseRunsOut(q)
  \/ \E w \in Workers :
       \/ \E q \in Questions : Claim(w, q)
       \/ Progress(w) \/ Crash(w)

\* Workers are restarted, the agent answers or fails, clocks advance.
Fairness ==
  /\ \A w \in Workers : WF_vars(Progress(w)) /\ WF_vars(\E q \in Questions : Claim(w, q))
  /\ \A q \in Questions : WF_vars(BackoffOver(q)) /\ WF_vars(LeaseRunsOut(q))

Spec == Init /\ [][Next]_vars /\ Fairness

-----------------------------------------------------------------------------
(* Correctness.                                                            *)

TypeOK ==
  /\ quota \in [Scopes -> Limits \cup {NoLimit}]
  /\ courseRow \in Questions \cup {NoQuestion}
  /\ asking \in [Questions -> {"no", "course", "user", "fits", "asked"}]
  /\ usage \in [Questions -> {"none", "reserved", "settled", "released"}]
  /\ cost \in [Questions -> Nat]
  /\ answered \in [Questions -> BOOLEAN]
  /\ event \in [Questions -> [state : {"none", "open", "published", "stopped"},
                              owner : Workers \cup {NoOwner}, expired : BOOLEAN,
                              due : BOOLEAN, attempts : Nat]]
  /\ job \in [Workers -> [at : {"idle", "claimed", "asking", "failing"},
                          question : Questions \cup {NoQuestion}, attempt : Nat]]
  /\ faults \in 0 .. MaxFaults

Reserving(q) == usage[q] = "none" /\ usage'[q] = "reserved"
Applies(s, q) == s \in {Course, Asker[q]} /\ quota[s] # NoLimit

\* data-model.md: the locks prevent concurrent reservations from going over a
\* quota.  When a reservation commits, the requests it makes are within every
\* quota that applies, whatever committed since that quota was checked.
RequestsWithinQuota ==
  [][\A q \in Questions, s \in Scopes : Reserving(q) /\ Applies(s, q) =>
       Cardinality(Counted(s)') <= quota[s].requests]_vars

\* The same of the amounts, as long as no answer costs more than it reserved.
TokensWithinQuota ==
  [][\A q \in Questions, s \in Scopes : Reserving(q) /\ Applies(s, q) =>
       Tokens(s)' <= quota[s].tokens]_vars

\* A question is billed exactly when it has its answer: no overtaken attempt
\* separates the two.
AnswersAreBilled == \A q \in Questions : answered[q] <=> usage[q] = "settled"

\* A task that nobody will take again leaves nothing reserved, and a published
\* one has its answer.
ClosedTasksOweNothing ==
  \A q \in Questions :
    /\ event[q].state = "published" => answered[q]
    /\ event[q].state = "stopped" => usage[q] # "reserved"

\* reserveModelUsage, dispatchQaOne and saveQuota together are a ledger: a
\* reservation of several statements takes effect at one instant at which every
\* quota has room for it, and is settled or released once, however late an attempt
\* ends and whatever commits meanwhile.  What an open transaction has asked for
\* does not count yet.
AmountInLedger == [q \in Questions |-> IF usage[q] = "none" THEN 0 ELSE cost[q]]
Ledger == INSTANCE QuotaLedger WITH amount <- AmountInLedger
ImplementsQuotaLedger == Ledger!Spec

\* What a question reserves is settled or released in the end.
ReservationsEnd ==
  \A q \in Questions : usage[q] = "reserved" ~> usage[q] \in {"settled", "released"}
=============================================================================
