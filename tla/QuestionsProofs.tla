-------------------------- MODULE QuestionsProofs --------------------------
(***************************************************************************)
(* Theorems about Questions, for every number of users, questions and      *)
(* workers, every quota and every fault: reservations stay within the      *)
(* requests and the amounts a quota allows, a question is billed exactly   *)
(* when it is answered, and no late attempt changes what was settled.      *)
(***************************************************************************)
EXTENDS Questions, TLAPS, FiniteSetTheorems, SumTheorems

Steps == {"no", "course", "user", "fits", "asked"}
Statuses == {"none", "reserved", "settled", "released"}
Events == [state : {"none", "open", "published", "stopped"}, owner : Workers \cup {NoOwner},
           expired : BOOLEAN, due : BOOLEAN, attempts : Nat]
Jobs == [at : {"idle", "claimed", "asking", "failing"},
         question : Questions \cup {NoQuestion}, attempt : Nat]

\* TypeOK with its sets named.
Typed ==
  /\ quota \in [Scopes -> Limits \cup {NoLimit}]
  /\ courseRow \in Questions \cup {NoQuestion}
  /\ asking \in [Questions -> Steps]
  /\ usage \in [Questions -> Statuses]
  /\ cost \in [Questions -> Nat]
  /\ answered \in [Questions -> BOOLEAN]
  /\ event \in [Questions -> Events]
  /\ job \in [Workers -> Jobs]
  /\ faults \in 0 .. MaxFaults

(***************************************************************************)
(* The inductive invariant.  A transaction that is under way holds the     *)
(* course row and has no ledger row yet; a worker at work has a question   *)
(* that was asked.                                                         *)
(***************************************************************************)
Locked ==
  \A q \in Questions :
    /\ asking[q] \in {"course", "user", "fits"} => courseRow = q
    /\ usage[q] = "none" <=> asking[q] # "asked"

Asked ==
  /\ \A q \in Questions : event[q].state # "none" => usage[q] # "none"
  /\ \A w \in Workers : job[w].at # "idle" =>
       job[w].question \in Questions /\ usage[job[w].question] # "none"

\* One more request is within the quota of s.
Room(s) == quota[s] # NoLimit => Cardinality(Counted(s)) + 1 <= quota[s].requests

Checked ==
  \A q \in Questions :
    /\ asking[q] \in {"user", "fits"} => Room(Course)
    /\ asking[q] = "fits" => Room(Asker[q])

Inv == TypeOK /\ Locked /\ Asked /\ AnswersAreBilled /\ ClosedTasksOweNothing

Admin == \E s \in Scopes, limit \in Limits \cup {NoLimit} : SaveQuota(s, limit)

-----------------------------------------------------------------------------
(* Types.                                                                  *)

LEMMA InitInv == Init => Inv /\ Checked
BY QuestionsAssumption
   DEF Init, Inv, Checked, TypeOK, Locked, Asked, AnswersAreBilled, ClosedTasksOweNothing,
       NoEvent, Event, Idle, Doing

LEMMA EventType ==
  ASSUME NEW state \in {"none", "open", "published", "stopped"},
         NEW owner \in Workers \cup {NoOwner}, NEW due \in BOOLEAN, NEW attempts \in Nat
  PROVE  Event(state, owner, due, attempts) \in Events
BY DEF Event, Events

LEMMA TypeStep ==
  ASSUME Inv, [Next]_vars
  PROVE  TypeOK'
<1> USE DEF asks, ledger
<1>0. Typed
  BY DEF Inv, TypeOK, Typed, Steps, Statuses, Events, Jobs
<1> SUFFICES Typed'
  BY DEF TypeOK, Typed, Steps, Statuses, Events, Jobs
<1>1. CASE UNCHANGED vars
  BY <1>0, <1>1 DEF vars, Typed
<1>2. CASE Admin
  BY <1>0, <1>2 DEF Admin, SaveQuota, Typed
<1>3. ASSUME NEW q \in Questions, NEW amount \in Reservations, BeginAsk(q, amount)
      PROVE Typed'
  BY <1>0, <1>3, QuestionsAssumption DEF BeginAsk, Steps, Typed
<1>4. ASSUME NEW q \in Questions, CheckCourse(q) \/ CheckUser(q) \/ Refuse(q)
      PROVE Typed'
  <2>1. CASE CheckCourse(q)
    BY <1>0, <2>1 DEF CheckCourse, Steps, Typed
  <2>2. CASE CheckUser(q)
    BY <1>0, <2>2 DEF CheckUser, Steps, Typed
  <2>3. CASE Refuse(q)
    BY <1>0, <2>3 DEF Refuse, Steps, Typed
  <2> QED BY <1>4, <2>1, <2>2, <2>3
<1>5. ASSUME NEW q \in Questions, Record(q)
      PROVE Typed'
  <2>1. Event("open", NoOwner, TRUE, 0) \in Events
    BY EventType
  <2> QED BY <1>0, <1>5, <2>1 DEF Record, Steps, Statuses, Typed
<1>6. ASSUME NEW q \in Questions, BackoffOver(q) \/ LeaseRunsOut(q)
      PROVE Typed'
  <2>1. event' \in [Questions -> Events]
    <3>1. [event[q] EXCEPT !.due = TRUE] \in Events /\ [event[q] EXCEPT !.expired = TRUE] \in Events
      BY <1>0 DEF Typed, Events
    <3>2. \/ event' = [event EXCEPT ![q] = [event[q] EXCEPT !.due = TRUE]]
          \/ event' = [event EXCEPT ![q] = [event[q] EXCEPT !.expired = TRUE]]
      BY <1>0, <1>6 DEF BackoffOver, LeaseRunsOut, Typed
    <3> QED BY <1>0, <3>1, <3>2 DEF Typed
  <2>2. faults' \in 0 .. MaxFaults
    BY <1>0, <1>6, QuestionsAssumption DEF BackoffOver, LeaseRunsOut, Typed
  <2> QED BY <1>0, <1>6, <2>1, <2>2 DEF BackoffOver, LeaseRunsOut, Typed
<1>7. ASSUME NEW w \in Workers, NEW q \in Questions, Claim(w, q)
      PROVE Typed'
  <2>1. event[q].attempts + 1 \in Nat
    BY <1>0 DEF Typed, Events
  <2>2. Event("open", w, TRUE, event[q].attempts + 1) \in Events
    BY <2>1, EventType
  <2>3. Doing("claimed", q, event[q].attempts + 1) \in Jobs
    BY <2>1 DEF Doing, Jobs
  <2> QED BY <1>0, <1>7, <2>2, <2>3 DEF Claim, Typed
<1>8. ASSUME NEW w \in Workers, Prepare(w) \/ AttemptFails(w) \/ Crash(w)
      PROVE Typed'
  <2>1. job' \in [Workers -> Jobs]
    BY <1>0, <1>8 DEF Prepare, AttemptFails, Crash, GoTo, Typed, Jobs, Idle, Doing
  <2>2. faults' \in 0 .. MaxFaults
    BY <1>0, <1>8, QuestionsAssumption DEF Prepare, AttemptFails, Crash, Typed
  <2> QED BY <1>0, <1>8, <2>1, <2>2
          DEF Prepare, AttemptFails, Crash, Typed
<1>9. ASSUME NEW w \in Workers, NEW actual \in Actuals, Settle(w, actual)
      PROVE Typed'
  <2> DEFINE q == job[w].question
  <2>1. q \in Questions
    BY <1>9 DEF Inv, Asked, Settle
  <2>2. Event("published", NoOwner, event[q].due, event[q].attempts) \in Events
    <3>1. event[q].due \in BOOLEAN /\ event[q].attempts \in Nat
      BY <1>0, <2>1 DEF Typed, Events
    <3> QED BY <3>1, EventType
  <2>3. event' \in [Questions -> Events]
    BY <1>0, <1>9, <2>1, <2>2 DEF Settle, Typed
  <2>4. Idle \in Jobs
    BY DEF Idle, Doing, Jobs
  <2>5. actual \in Nat
    BY QuestionsAssumption
  <2> QED BY <1>0, <1>9, <2>1, <2>3, <2>4, <2>5 DEF Settle, Statuses, Typed
<1>10. ASSUME NEW w \in Workers, Fail(w)
       PROVE Typed'
  <2> DEFINE q == job[w].question
             last == Terminal(job[w].attempt)
  <2>1. q \in Questions
    BY <1>10 DEF Inv, Asked, Fail
  <2>2. Event(IF last THEN "stopped" ELSE event[q].state, NoOwner, FALSE, event[q].attempts) \in Events
    <3>1. event[q].state \in {"none", "open", "published", "stopped"} /\ event[q].attempts \in Nat
      BY <1>0, <2>1 DEF Typed, Events
    <3> HIDE DEF last
    <3> QED BY <3>1, EventType
  <2>3. event' \in [Questions -> Events]
    BY <1>0, <1>10, <2>1, <2>2 DEF Fail, Typed
  <2>4. usage' \in [Questions -> Statuses]
    BY <1>0, <1>10, <2>1 DEF Fail, Released, Typed, Statuses
  <2>5. Idle \in Jobs
    BY DEF Idle, Doing, Jobs
  <2> QED BY <1>0, <1>10, <2>3, <2>4, <2>5 DEF Fail, Typed
<1> QED BY <1>1, <1>2, <1>3, <1>4, <1>5, <1>6, <1>7, <1>8, <1>9, <1>10
        DEF Next, Admin, Progress

-----------------------------------------------------------------------------
(* Usage, answers and tasks.                                               *)

LEMMA LockedStep ==
  ASSUME Inv, [Next]_vars
  PROVE  Locked'
<1> USE DEF asks, ledger
<1>0. TypeOK /\ Locked /\ Asked
  BY DEF Inv
<1>1. CASE UNCHANGED vars
  BY <1>0, <1>1 DEF vars, Locked
<1>2. CASE Admin
  BY <1>0, <1>2 DEF Admin, SaveQuota, Locked
<1>3. ASSUME NEW q \in Questions, NEW amount \in Reservations, BeginAsk(q, amount)
      PROVE Locked'
  BY <1>0, <1>3, QuestionsAssumption DEF BeginAsk, Locked, TypeOK
<1>4. ASSUME NEW q \in Questions, CheckCourse(q) \/ CheckUser(q) \/ Refuse(q) \/ Record(q)
      PROVE Locked'
  <2>1. CASE CheckCourse(q)
    BY <1>0, <2>1 DEF CheckCourse, Locked, TypeOK
  <2>2. CASE CheckUser(q)
    BY <1>0, <2>2 DEF CheckUser, Locked, TypeOK
  <2>3. CASE Refuse(q)
    BY <1>0, <2>3 DEF Refuse, Locked, TypeOK
  <2>4. CASE Record(q)
    BY <1>0, <2>4 DEF Record, Locked, TypeOK
  <2> QED BY <1>4, <2>1, <2>2, <2>3, <2>4
<1>5. ASSUME NEW w \in Workers, NEW actual \in Actuals, Settle(w, actual)
      PROVE Locked'
  BY <1>0, <1>5 DEF Settle, Locked, Asked, TypeOK
<1>6. ASSUME NEW w \in Workers, Fail(w)
      PROVE Locked'
  BY <1>0, <1>6 DEF Fail, Released, Locked, Asked, TypeOK
<1>7. ASSUME UNCHANGED <<courseRow, asking, usage>>
      PROVE Locked'
  BY <1>0, <1>7 DEF Locked
<1> QED BY <1>1, <1>2, <1>3, <1>4, <1>5, <1>6, <1>7
        DEF Next, Admin, Progress, BackoffOver, LeaseRunsOut, Claim, Prepare, AttemptFails, Crash

\* Usage that exists goes on existing: nothing takes a ledger row away.
LEMMA UsageStays ==
  ASSUME Inv, [Next]_vars, NEW q \in Questions, usage[q] # "none"
  PROVE  usage'[q] # "none"
<1> USE DEF asks, ledger
<1>0. TypeOK /\ Asked
  BY DEF Inv
<1>1. ASSUME NEW p \in Questions, Record(p)
      PROVE usage'[q] # "none"
  BY <1>0, <1>1 DEF Record, TypeOK
<1>2. ASSUME NEW w \in Workers, NEW actual \in Actuals, Settle(w, actual)
      PROVE usage'[q] # "none"
  BY <1>0, <1>2 DEF Settle, TypeOK
<1>3. ASSUME NEW w \in Workers, Fail(w)
      PROVE usage'[q] # "none"
  BY <1>0, <1>3 DEF Fail, Released, TypeOK
<1> QED BY <1>1, <1>2, <1>3
        DEF Next, Progress, SaveQuota, BeginAsk, CheckCourse, CheckUser, Refuse, BackoffOver,
            LeaseRunsOut, Claim, Prepare, AttemptFails, Crash, vars

LEMMA AskedStep ==
  ASSUME Inv, [Next]_vars
  PROVE  Asked'
<1> USE DEF asks, ledger
<1>0. TypeOK /\ Asked /\ \A q \in Questions : usage[q] # "none" => usage'[q] # "none"
  BY UsageStays DEF Inv
<1>1. ASSUME NEW q \in Questions, Record(q)
      PROVE Asked'
  BY <1>0, <1>1 DEF Record, Event, Asked, TypeOK
<1>2. ASSUME NEW q \in Questions, BackoffOver(q) \/ LeaseRunsOut(q)
      PROVE Asked'
  BY <1>0, <1>2 DEF BackoffOver, LeaseRunsOut, Asked, TypeOK
<1>3. ASSUME NEW w \in Workers, NEW q \in Questions, Claim(w, q)
      PROVE Asked'
  BY <1>0, <1>3 DEF Claim, Claimable, Event, Doing, Asked, TypeOK
<1>4. ASSUME NEW w \in Workers, Prepare(w) \/ AttemptFails(w) \/ Crash(w)
      PROVE Asked'
  <2>1. \A v \in Workers : job'[v].at # "idle" =>
          job[v].at # "idle" /\ job'[v].question = job[v].question
    <3>1. CASE Crash(w)
      BY <1>0, <3>1 DEF Crash, Idle, Doing, TypeOK
    <3>2. CASE Prepare(w)
      BY <1>0, <3>2 DEF Prepare, GoTo, TypeOK
    <3>3. CASE AttemptFails(w)
      BY <1>0, <3>3 DEF AttemptFails, GoTo, TypeOK
    <3> QED BY <1>4, <3>1, <3>2, <3>3
  <2>2. UNCHANGED <<usage, event>>
    BY <1>4 DEF Prepare, AttemptFails, Crash
  <2> QED BY <1>0, <2>1, <2>2 DEF Asked
<1>5. ASSUME NEW w \in Workers, NEW actual \in Actuals, Settle(w, actual)
      PROVE Asked'
  BY <1>0, <1>5 DEF Settle, Event, Idle, Doing, Asked, TypeOK
<1>6. ASSUME NEW w \in Workers, Fail(w)
      PROVE Asked'
  BY <1>0, <1>6 DEF Fail, Event, Idle, Doing, Asked, TypeOK
<1>7. ASSUME UNCHANGED <<usage, event, job>>
      PROVE Asked'
  BY <1>0, <1>7 DEF Asked
<1> QED BY <1>1, <1>2, <1>3, <1>4, <1>5, <1>6, <1>7
        DEF Next, Progress, SaveQuota, BeginAsk, CheckCourse, CheckUser, Refuse, vars

\* Settling answers the question; releasing leaves settled usage alone.
LEMMA BilledStep ==
  ASSUME Inv, [Next]_vars
  PROVE  AnswersAreBilled'
<1> USE DEF asks, ledger
<1>0. TypeOK /\ Locked /\ Asked /\ AnswersAreBilled
  BY DEF Inv
<1>1. ASSUME NEW q \in Questions, Record(q)
      PROVE AnswersAreBilled'
  BY <1>0, <1>1 DEF Record, Locked, AnswersAreBilled, TypeOK
<1>2. ASSUME NEW w \in Workers, NEW actual \in Actuals, Settle(w, actual)
      PROVE AnswersAreBilled'
  BY <1>0, <1>2 DEF Settle, Asked, AnswersAreBilled, TypeOK
<1>3. ASSUME NEW w \in Workers, Fail(w)
      PROVE AnswersAreBilled'
  BY <1>0, <1>3 DEF Fail, Released, AnswersAreBilled, TypeOK
<1>4. ASSUME UNCHANGED <<usage, answered>>
      PROVE AnswersAreBilled'
  BY <1>0, <1>4 DEF AnswersAreBilled
<1> QED BY <1>1, <1>2, <1>3, <1>4
        DEF Next, Progress, SaveQuota, BeginAsk, CheckCourse, CheckUser, Refuse, BackoffOver,
            LeaseRunsOut, Claim, Prepare, AttemptFails, Crash, vars

LEMMA ClosedStep ==
  ASSUME Inv, [Next]_vars
  PROVE  ClosedTasksOweNothing'
<1> USE DEF asks, ledger
<1>0. TypeOK /\ Locked /\ Asked /\ ClosedTasksOweNothing
  BY DEF Inv
<1>1. ASSUME NEW q \in Questions, Record(q)
      PROVE ClosedTasksOweNothing'
  BY <1>0, <1>1 DEF Record, Event, ClosedTasksOweNothing, TypeOK
<1>2. ASSUME NEW q \in Questions, BackoffOver(q) \/ LeaseRunsOut(q)
      PROVE ClosedTasksOweNothing'
  BY <1>0, <1>2 DEF BackoffOver, LeaseRunsOut, ClosedTasksOweNothing, TypeOK
<1>3. ASSUME NEW w \in Workers, NEW q \in Questions, Claim(w, q)
      PROVE ClosedTasksOweNothing'
  BY <1>0, <1>3 DEF Claim, Event, ClosedTasksOweNothing, TypeOK
<1>4. ASSUME NEW w \in Workers, NEW actual \in Actuals, Settle(w, actual)
      PROVE ClosedTasksOweNothing'
  BY <1>0, <1>4 DEF Settle, Event, Asked, ClosedTasksOweNothing, TypeOK
<1>5. ASSUME NEW w \in Workers, Fail(w)
      PROVE ClosedTasksOweNothing'
  BY <1>0, <1>5 DEF Fail, Released, Event, Asked, ClosedTasksOweNothing, TypeOK
<1>6. ASSUME UNCHANGED <<usage, answered, event>>
      PROVE ClosedTasksOweNothing'
  BY <1>0, <1>6 DEF ClosedTasksOweNothing
<1> QED BY <1>1, <1>2, <1>3, <1>4, <1>5, <1>6
        DEF Next, Progress, SaveQuota, BeginAsk, CheckCourse, CheckUser, Refuse, Prepare,
            AttemptFails, Crash, vars

LEMMA InvStep == Inv /\ [Next]_vars => Inv'
BY TypeStep, LockedStep, AskedStep, BilledStep, ClosedStep DEF Inv

LEMMA SpecInv == Spec => []Inv
BY InitInv, InvStep, PTL DEF Spec

\* The tables and the jobs of workers keep their types (reserveModelUsage,
\* saveQuota, dispatchQaOne).
THEOREM QuestionsTypeCorrect == Spec => []TypeOK
<1>1. Inv => TypeOK
  BY DEF Inv
<1> QED BY <1>1, SpecInv, PTL

\* A question has its answer exactly when its usage is settled, whichever
\* attempts overtake each other in dispatchQaOne.
THEOREM AnsweredMeansBilled == Spec => []AnswersAreBilled
<1>1. Inv => AnswersAreBilled
  BY DEF Inv
<1> QED BY <1>1, SpecInv, PTL

\* A published task has its answer, and a stopped one has no reservation.
THEOREM ClosedTasksSettled == Spec => []ClosedTasksOweNothing
<1>1. Inv => ClosedTasksOweNothing
  BY DEF Inv
<1> QED BY <1>1, SpecInv, PTL

-----------------------------------------------------------------------------
(* Quotas.                                                                 *)

LEMMA CountedIsFinite ==
  ASSUME NEW s, NEW some \in SUBSET Counted(s)
  PROVE  /\ IsFiniteSet(Counted(s)) /\ Cardinality(Counted(s)) \in Nat
         /\ Cardinality(some) \in Nat /\ Cardinality(some) <= Cardinality(Counted(s))
<1>1. IsFiniteSet(Counted(s))
  BY QuestionsAssumption, FS_Subset DEF Counted
<1> QED BY <1>1, FS_Subset, FS_CardinalityType

LEMMA OneMore ==
  ASSUME NEW S, IsFiniteSet(S), NEW x
  PROVE  /\ IsFiniteSet(S \cup {x})
         /\ Cardinality(S \cup {x}) \in Nat /\ Cardinality(S \cup {x}) <= Cardinality(S) + 1
<1>1. Cardinality(S) \in Nat
  BY FS_CardinalityType
<1>2. CASE x \in S
  <2>1. S \cup {x} = S
    BY <1>2
  <2>2. IsFiniteSet(S \cup {x}) /\ Cardinality(S \cup {x}) = Cardinality(S)
    BY <2>1, Zenon
  <2> QED BY <1>1, <2>2
<1>3. CASE x \notin S
  BY <1>1, <1>3, FS_AddElement
<1> QED BY <1>2, <1>3

\* What is counted grows only when a reservation is recorded.
LEMMA CountedStep ==
  ASSUME Inv, [Next]_vars, NEW s \in Scopes, \A q \in Questions : ~Record(q)
  PROVE  Counted(s)' \subseteq Counted(s)
<1> USE DEF asks, ledger
<1>0. TypeOK /\ Locked /\ Asked
  BY DEF Inv
<1>1. ASSUME NEW w \in Workers, NEW actual \in Actuals, Settle(w, actual)
      PROVE Counted(s)' \subseteq Counted(s)
  BY <1>0, <1>1 DEF Settle, Settleable, Asked, Counted, TypeOK
<1>2. ASSUME NEW w \in Workers, Fail(w)
      PROVE Counted(s)' \subseteq Counted(s)
  BY <1>0, <1>2 DEF Fail, Released, Asked, Counted, TypeOK
<1>3. ASSUME UNCHANGED usage
      PROVE Counted(s)' \subseteq Counted(s)
  BY <1>3 DEF Counted
<1> QED BY <1>1, <1>2, <1>3
        DEF Next, Progress, SaveQuota, BeginAsk, CheckCourse, CheckUser, Refuse, BackoffOver,
            LeaseRunsOut, Claim, Prepare, AttemptFails, Crash, vars

\* Room found is kept while the course row is locked.
LEMMA RoomStep ==
  ASSUME Inv, [Next]_vars, NEW s \in Scopes, Room(s), courseRow # NoQuestion,
         \A q \in Questions : ~Record(q)
  PROVE  Room(s)'
<1>1. Counted(s)' \subseteq Counted(s)
  BY CountedStep
<1>2. /\ Cardinality(Counted(s)) \in Nat /\ Cardinality(Counted(s)') \in Nat
      /\ Cardinality(Counted(s)') <= Cardinality(Counted(s))
  BY <1>1, CountedIsFinite
<1>3. quota' = quota
  BY DEF Next, Progress, SaveQuota, BeginAsk, CheckCourse, CheckUser, Refuse, Record, BackoffOver,
         LeaseRunsOut, Claim, Prepare, AttemptFails, Crash, Settle, Fail, vars, asks, ledger
<1>4. quota[s] # NoLimit => quota[s].requests \in Nat
  BY QuestionsAssumption DEF Inv, TypeOK
<1> QED BY <1>2, <1>3, <1>4 DEF Room

LEMMA CheckedStep ==
  ASSUME Inv, Checked, [Next]_vars
  PROVE  Checked'
<1>0. TypeOK /\ Locked /\ Locked'
  BY InvStep DEF Inv
<1> SUFFICES ASSUME NEW q \in Questions
             PROVE  /\ asking'[q] \in {"user", "fits"} => Room(Course)'
                    /\ asking'[q] = "fits" => Room(Asker[q])'
  BY DEF Checked
<1> USE DEF asks, ledger
<1>a. Course \in Scopes /\ Asker[q] \in Scopes
  BY QuestionsAssumption DEF Scopes
<1>1. CASE \E p \in Questions : Record(p)
  <2> PICK p \in Questions : Record(p)
    BY <1>1
  <2>1. asking'[q] \notin {"user", "fits"}
    BY <1>0 DEF Record, Locked, TypeOK
  <2> QED BY <2>1
<1>2. CASE \A p \in Questions : ~Record(p)
  <2>1. CASE asking'[q] = asking[q] /\ asking[q] \in {"user", "fits"}
    <3>1. courseRow # NoQuestion
      BY <1>0, <2>1, QuestionsAssumption DEF Locked
    <3> QED BY <1>2, <1>a, <2>1, <3>1, RoomStep DEF Checked
  <2>2. CASE CheckCourse(q)
    <3>1. Room(Course) /\ courseRow # NoQuestion /\ asking'[q] = "user"
      BY <1>0, <2>2, QuestionsAssumption DEF CheckCourse, Fits, Room, Locked, TypeOK
    <3> QED BY <1>2, <1>a, <3>1, RoomStep
  <2>3. CASE CheckUser(q)
    <3>1. Room(Asker[q]) /\ courseRow # NoQuestion /\ asking[q] = "user"
      BY <1>0, <2>3, QuestionsAssumption DEF CheckUser, Fits, Room, Locked, TypeOK
    <3> QED BY <1>2, <1>a, <3>1, RoomStep DEF Checked
  <2>4. CASE asking'[q] \in {"user", "fits"} /\ asking'[q] # asking[q]
    <3>1. CheckCourse(q) \/ CheckUser(q)
      BY <1>0, <1>2, <2>4
         DEF Next, Progress, SaveQuota, BeginAsk, CheckCourse, CheckUser, Refuse, BackoffOver,
             LeaseRunsOut, Claim, Prepare, AttemptFails, Crash, Settle, Fail, vars, TypeOK
    <3> QED BY <3>1, <2>2, <2>3
  <2> QED BY <2>1, <2>4
<1> QED BY <1>1, <1>2

\* A reservation is recorded by nothing but Record.
LEMMA ReservingIsRecord ==
  ASSUME Inv, [Next]_vars, NEW q \in Questions, Reserving(q)
  PROVE  Record(q)
<1>0. TypeOK /\ Asked /\ usage[q] = "none" /\ usage'[q] = "reserved"
  BY DEF Inv, Reserving
<1>1. ASSUME NEW p \in Questions, Record(p) PROVE Record(q)
  BY <1>0, <1>1 DEF Record, TypeOK
<1>2. ASSUME NEW w \in Workers, NEW actual \in Actuals, Settle(w, actual) PROVE FALSE
  BY <1>0, <1>2 DEF Settle, Asked, TypeOK
<1>3. ASSUME NEW w \in Workers, Fail(w) PROVE FALSE
  BY <1>0, <1>3 DEF Fail, Released, TypeOK
<1> QED BY <1>0, <1>1, <1>2, <1>3
        DEF Next, Progress, SaveQuota, BeginAsk, CheckCourse, CheckUser, Refuse, BackoffOver,
            LeaseRunsOut, Claim, Prepare, AttemptFails, Crash, vars, asks, ledger

\* data-model.md: reservations that commit never go over the number of requests
\* of a quota, for every number of users who ask at once (reserveModelUsage).
THEOREM QuotasHold == Spec => RequestsWithinQuota
<1>1. ASSUME Inv, Checked, [Next]_vars, NEW q \in Questions, NEW s \in Scopes,
             Reserving(q), Applies(s, q)
      PROVE Cardinality(Counted(s)') <= quota[s].requests
  <2>1. Record(q)
    BY <1>1, ReservingIsRecord
  <2>2. Room(s)
    BY <1>1, <2>1 DEF Record, Checked, Applies
  <2>3. Counted(s)' \subseteq Counted(s) \cup {q}
    BY <1>1, <2>1 DEF Record, Counted, Inv, TypeOK
  <2>4. IsFiniteSet(Counted(s)) /\ Cardinality(Counted(s)) \in Nat
    BY CountedIsFinite
  <2>5. /\ IsFiniteSet(Counted(s) \cup {q})
        /\ Cardinality(Counted(s) \cup {q}) <= Cardinality(Counted(s)) + 1
        /\ Cardinality(Counted(s) \cup {q}) \in Nat
    BY <2>4, OneMore
  <2>6. Cardinality(Counted(s)') \in Nat /\ Cardinality(Counted(s)') <= Cardinality(Counted(s) \cup {q})
    BY <2>3, <2>5, FS_Subset, FS_CardinalityType
  <2>7. quota[s] # NoLimit /\ quota[s].requests \in Nat
    BY <1>1, QuestionsAssumption DEF Inv, TypeOK, Applies
  <2> QED BY <2>2, <2>4, <2>5, <2>6, <2>7 DEF Room
<1>2. Inv /\ Checked /\ [Next]_vars =>
        [\A q \in Questions, s \in Scopes : Reserving(q) /\ Applies(s, q) =>
           Cardinality(Counted(s)') <= quota[s].requests]_vars
  BY <1>1
<1>3. Spec => [](Inv /\ Checked)
  BY InitInv, InvStep, CheckedStep, PTL DEF Spec
<1> QED BY <1>2, <1>3, PTL DEF Spec, RequestsWithinQuota

-----------------------------------------------------------------------------
(* Amounts.  An answer may cost more than was reserved for it: the code    *)
(* settles what the agent reports.  While none does, amounts are within    *)
(* their quotas like requests.                                             *)

\* No step settles a reservation with more than was reserved.
Frugal == \A q \in Questions : usage[q] = "reserved" /\ usage'[q] = "settled" => cost'[q] <= cost[q]
NoOverspending == [][Frugal]_vars

\* The amount q asks for is within the quota of s.
RoomFor(s, q) == quota[s] # NoLimit => Tokens(s) + cost[q] <= quota[s].tokens

Afforded ==
  \A q \in Questions :
    /\ asking[q] \in {"user", "fits"} => RoomFor(Course, q)
    /\ asking[q] = "fits" => RoomFor(Asker[q], q)

LEMMA TokensAreNat ==
  ASSUME TypeOK, NEW s
  PROVE  /\ Tokens(s) \in Nat /\ IsFiniteSet(Counted(s))
         /\ \A q \in Counted(s) : cost[q] \in Nat
<1>1. IsFiniteSet(Counted(s)) /\ \A q \in Counted(s) : cost[q] \in Nat
  BY CountedIsFinite DEF Counted, TypeOK
<1>2. SumFunctionOnSet(cost, Counted(s)) \in Nat
  BY <1>1, SumNat
<1> QED BY <1>1, <1>2 DEF Tokens

LEMMA TokensAreNatNext ==
  ASSUME TypeOK', NEW s
  PROVE  Tokens(s)' \in Nat /\ \A q \in Counted(s)' : cost'[q] \in Nat
<1>1. Counted(s)' \subseteq Questions /\ IsFiniteSet(Questions) /\ cost' \in [Questions -> Nat]
  BY QuestionsAssumption DEF Counted, TypeOK
<1> DEFINE S == Counted(s)'
<1> HIDE DEF S
<1>2. IsFiniteSet(S) /\ \A q \in S : cost'[q] \in Nat
  BY <1>1, FS_Subset DEF S
<1>3. SumFunctionOnSet(cost', S) \in Nat
  BY <1>2, SumNat
<1> QED BY <1>2, <1>3 DEF Tokens, S

\* Until the next reservation, what is counted costs less and less.
LEMMA CostStep ==
  ASSUME Inv, [Next]_vars, [Frugal]_vars, NEW s \in Scopes, \A p \in Questions : ~Record(p),
         NEW q \in Counted(s)'
  PROVE  cost'[q] <= cost[q]
<1> USE DEF asks, ledger
<1>0. TypeOK /\ Locked /\ Asked
  BY DEF Inv
<1>1. q \in Counted(s) /\ q \in Questions /\ cost[q] \in Nat /\ usage[q] \in {"reserved", "settled"}
  BY <1>0, CountedStep DEF Counted, TypeOK
<1>2. ASSUME NEW p \in Questions, (\E amount \in Reservations : BeginAsk(p, amount)) \/ Refuse(p)
      PROVE cost'[q] = cost[q]
  <2>1. usage[p] = "none"
    BY <1>0, <1>2 DEF BeginAsk, Refuse, Locked
  <2> QED BY <1>0, <1>1, <1>2, <2>1 DEF BeginAsk, Refuse, TypeOK
<1>3. ASSUME NEW w \in Workers, NEW actual \in Actuals, Settle(w, actual)
      PROVE cost'[q] <= cost[q]
  <2> DEFINE p == job[w].question
  <2>1. p \in Questions /\ usage[p] = "reserved" /\ usage'[p] = "settled"
    BY <1>0, <1>3 DEF Settle, Settleable, Asked, TypeOK
  <2>2. cost' = [cost EXCEPT ![p] = actual] /\ usage' = [usage EXCEPT ![p] = "settled"]
    BY <1>3 DEF Settle
  <2> HIDE DEF p
  <2>3. usage' # usage
    BY <1>0, <2>1
  <2>4. cost'[p] <= cost[p]
    BY <2>1, <2>3 DEF Frugal, vars
  <2>5. q # p => cost'[q] = cost[q]
    BY <1>0, <1>1, <2>2 DEF TypeOK
  <2> QED BY <1>1, <2>4, <2>5
<1>4. \/ UNCHANGED cost
      \/ \E p \in Questions : (\E amount \in Reservations : BeginAsk(p, amount)) \/ Refuse(p)
      \/ \E w \in Workers, actual \in Actuals : Settle(w, actual)
  BY DEF Next, Progress, SaveQuota, CheckCourse, CheckUser, BackoffOver,
            LeaseRunsOut, Claim, Prepare, AttemptFails, Crash, Fail, vars
<1>5. cost'[q] = cost[q] => cost'[q] <= cost[q]
  BY <1>1
<1> QED BY <1>2, <1>3, <1>4, <1>5

LEMMA TokensStep ==
  ASSUME Inv, [Next]_vars, [Frugal]_vars, NEW s \in Scopes, \A p \in Questions : ~Record(p)
  PROVE  Tokens(s) \in Nat /\ Tokens(s)' \in Nat /\ Tokens(s)' <= Tokens(s)
<1>1. /\ Tokens(s) \in Nat /\ IsFiniteSet(Counted(s)) /\ \A q \in Counted(s) : cost[q] \in Nat
      /\ Tokens(s)' \in Nat /\ \A q \in Counted(s)' : cost'[q] \in Nat
  <2>1. TypeOK /\ TypeOK'
    BY TypeStep DEF Inv
  <2>2. Tokens(s) \in Nat /\ IsFiniteSet(Counted(s)) /\ \A q \in Counted(s) : cost[q] \in Nat
    BY <2>1, TokensAreNat
  <2>3. Tokens(s)' \in Nat /\ \A q \in Counted(s)' : cost'[q] \in Nat
    BY <2>1, TokensAreNatNext
  <2> QED BY <2>2, <2>3
<1>2. Counted(s)' \subseteq Counted(s) /\ \A q \in Counted(s)' : cost'[q] <= cost[q]
  BY CountedStep, CostStep
<1> DEFINE S == Counted(s)'
           T == Counted(s)
<1>3. SumFunctionOnSet(cost', S) <= SumFunctionOnSet(cost, T)
  <2>1. /\ IsFiniteSet(T) /\ S \in SUBSET T /\ \A q \in T : cost[q] \in Nat
        /\ \A q \in S : cost'[q] \in Nat /\ cost'[q] <= cost[q]
    BY <1>1, <1>2
  <2> HIDE DEF S, T
  <2> QED BY <2>1, SumMonotone
<1> QED BY <1>1, <1>3 DEF Tokens

\* Room found for the amount is kept while the course row is locked.
LEMMA RoomForStep ==
  ASSUME Inv, [Next]_vars, [Frugal]_vars, NEW s \in Scopes, NEW q \in Questions, RoomFor(s, q),
         courseRow = q, asking'[q] \in {"user", "fits"}, \A p \in Questions : ~Record(p)
  PROVE  RoomFor(s, q)'
<1> USE DEF asks, ledger
<1>0. TypeOK /\ Locked /\ Asked /\ q # NoQuestion
  BY QuestionsAssumption DEF Inv
<1>1. Tokens(s) \in Nat /\ Tokens(s)' \in Nat /\ Tokens(s)' <= Tokens(s)
  BY TokensStep
<1>2. quota' = quota
  BY <1>0 DEF Next, Progress, SaveQuota, BeginAsk, CheckCourse, CheckUser, Refuse, Record, BackoffOver,
         LeaseRunsOut, Claim, Prepare, AttemptFails, Crash, Settle, Fail, vars
<1>3. cost'[q] = cost[q]
  <2>1. ASSUME NEW p \in Questions, Refuse(p) PROVE cost'[q] = cost[q]
    <3>1. p = q
      BY <1>0, <2>1 DEF Refuse, Locked
    <3> QED BY <1>0, <2>1, <3>1 DEF Refuse, TypeOK
  <2>2. ASSUME NEW w \in Workers, NEW actual \in Actuals, Settle(w, actual)
        PROVE cost'[q] = cost[q]
    <3>1. job[w].question # q
      <4>1. usage'[q] = "none"
        <5>1. Locked'
          BY LockedStep
        <5> QED BY <5>1 DEF Locked
      <4> QED BY <1>0, <2>2, <4>1 DEF Settle, TypeOK
    <3> QED BY <1>0, <2>2, <3>1 DEF Settle, TypeOK
  <2>3. ASSUME NEW p \in Questions, NEW amount \in Reservations PROVE ~BeginAsk(p, amount)
    BY <1>0 DEF BeginAsk
  <2> QED BY <2>1, <2>2, <2>3
          DEF Next, Progress, SaveQuota, CheckCourse, CheckUser, BackoffOver,
              LeaseRunsOut, Claim, Prepare, AttemptFails, Crash, Fail, vars
<1>4. cost[q] \in Nat /\ (quota[s] # NoLimit => quota[s].tokens \in Nat)
  BY <1>0, QuestionsAssumption DEF TypeOK
<1> QED BY <1>1, <1>2, <1>3, <1>4 DEF RoomFor

LEMMA AffordedStep ==
  ASSUME Inv, Afforded, [Next]_vars, [Frugal]_vars
  PROVE  Afforded'
<1>0. TypeOK /\ Locked /\ Locked'
  BY InvStep DEF Inv
<1> SUFFICES ASSUME NEW q \in Questions, asking'[q] \in {"user", "fits"}
             PROVE  RoomFor(Course, q)' /\ (asking'[q] = "fits" => RoomFor(Asker[q], q)')
  BY DEF Afforded
<1> USE DEF asks, ledger
<1>a. Course \in Scopes /\ Asker[q] \in Scopes
  BY QuestionsAssumption DEF Scopes
<1>1. \A p \in Questions : ~Record(p)
  <2> SUFFICES ASSUME NEW p \in Questions, Record(p) PROVE FALSE
    OBVIOUS
  <2>1. courseRow' = q /\ courseRow' = NoQuestion
    BY <1>0 DEF Record, Locked
  <2> QED BY <2>1, QuestionsAssumption
<1>2. \/ asking'[q] = asking[q]
      \/ CheckCourse(q) /\ asking'[q] = "user"
      \/ CheckUser(q)
  BY <1>0, <1>1
     DEF Next, Progress, SaveQuota, BeginAsk, CheckCourse, CheckUser, Refuse, BackoffOver,
         LeaseRunsOut, Claim, Prepare, AttemptFails, Crash, Settle, Fail, vars, TypeOK
<1>3. courseRow = q
  BY <1>0, <1>2 DEF CheckCourse, CheckUser, Locked
<1>4. CASE asking'[q] = asking[q]
  BY <1>1, <1>3, <1>4, <1>a, RoomForStep DEF Afforded
<1>5. CASE CheckCourse(q) /\ asking'[q] = "user"
  <2>1. RoomFor(Course, q)
    BY <1>5 DEF CheckCourse, Fits, RoomFor
  <2> QED BY <1>1, <1>3, <1>5, <1>a, <2>1, RoomForStep
<1>6. CASE CheckUser(q)
  <2>1. RoomFor(Asker[q], q) /\ RoomFor(Course, q)
    BY <1>6 DEF CheckUser, Fits, RoomFor, Afforded
  <2> QED BY <1>1, <1>3, <1>6, <1>a, <2>1, RoomForStep
<1> QED BY <1>2, <1>4, <1>5, <1>6

\* As long as no answer costs more than it reserved, reservations that commit
\* never go over the amount of a quota, for every number of users who ask at
\* once and whatever is settled and released meanwhile (reserveModelUsage).
THEOREM AmountsHold == Spec /\ NoOverspending => TokensWithinQuota
<1>1. ASSUME Inv, Afforded, [Next]_vars, NEW q \in Questions, NEW s \in Scopes,
             Reserving(q), Applies(s, q)
      PROVE Tokens(s)' <= quota[s].tokens
  <2>0. TypeOK /\ TypeOK' /\ Record(q) /\ usage[q] = "none"
    BY <1>1, TypeStep, ReservingIsRecord DEF Inv, Reserving
  <2>1. RoomFor(s, q) /\ cost' = cost
    BY <1>1, <2>0 DEF Record, Afforded, Applies
  <2> DEFINE S == Counted(s)'
             T == Counted(s) \cup {q}
  <2>2. S \in SUBSET T /\ q \notin Counted(s)
    BY <1>1, <2>0 DEF Record, Counted, TypeOK
  <2>3. Tokens(s) \in Nat /\ IsFiniteSet(Counted(s)) /\ \A p \in Counted(s) : cost[p] \in Nat
    BY <2>0, TokensAreNat
  <2>4. cost[q] \in Nat
    BY <2>0 DEF TypeOK
  <2>5. IsFiniteSet(T) /\ \A p \in T : cost[p] \in Nat
    BY <2>3, <2>4, FS_AddElement
  <2>6. T \ {q} = Counted(s) /\ q \in T
    BY <2>2
  <2>7. SumFunctionOnSet(cost, T) = cost[q] + Tokens(s)
    <3> HIDE DEF T
    <3>1. SumFunctionOnSet(cost, T) = cost[q] + SumFunctionOnSet(cost, T \ {q})
      BY <2>5, <2>6, SumRemove
    <3>2. SumFunctionOnSet(cost, T \ {q}) = Tokens(s)
      BY <2>6 DEF Tokens
    <3> QED BY <3>1, <3>2
  <2>8. SumFunctionOnSet(cost, S) <= SumFunctionOnSet(cost, T)
    <3> HIDE DEF S, T
    <3>1. \A p \in S : cost[p] \in Nat /\ cost[p] <= cost[p]
      BY <2>2, <2>5
    <3> QED BY <2>2, <2>5, <3>1, SumMonotone
  <2>9. Tokens(s)' = SumFunctionOnSet(cost, S)
    BY <2>1 DEF Tokens
  <2>10. quota[s] # NoLimit /\ quota[s].tokens \in Nat
    BY <1>1, <2>0, QuestionsAssumption DEF TypeOK, Applies
  <2>11. Tokens(s)' \in Nat
    BY <2>0, TokensAreNatNext
  <2>12. Tokens(s) + cost[q] <= quota[s].tokens
    BY <2>1, <2>10 DEF RoomFor
  <2> HIDE DEF S, T
  <2>13. Tokens(s)' <= cost[q] + Tokens(s)
    BY <2>7, <2>8, <2>9
  <2> QED BY <2>3, <2>4, <2>10, <2>11, <2>12, <2>13
<1>2. Inv /\ Afforded /\ [Next]_vars =>
        [\A q \in Questions, s \in Scopes : Reserving(q) /\ Applies(s, q) =>
           Tokens(s)' <= quota[s].tokens]_vars
  BY <1>1
<1>3. Init => Afforded
  BY DEF Init, Afforded
<1>4. Inv /\ Afforded /\ [Next]_vars /\ [Frugal]_vars => Afforded'
  BY AffordedStep
<1>5. Spec /\ NoOverspending => []Afforded
  BY <1>3, <1>4, SpecInv, PTL DEF Spec, NoOverspending
<1> QED BY <1>2, <1>5, SpecInv, PTL DEF Spec, TokensWithinQuota

\* A question that is being asked or has a reservation has the amount it asked for.
AmountsAsked ==
  \A q \in Questions :
    asking[q] # "no" /\ usage[q] \in {"none", "reserved"} => cost[q] \in Reservations

LEMMA AmountsStep ==
  ASSUME Inv, AmountsAsked, [Next]_vars
  PROVE  AmountsAsked'
<1> USE DEF asks, ledger
<1>0. TypeOK /\ Locked /\ Asked
  BY DEF Inv
<1>1. ASSUME NEW q \in Questions, NEW amount \in Reservations, BeginAsk(q, amount)
      PROVE AmountsAsked'
  BY <1>0, <1>1 DEF BeginAsk, AmountsAsked, TypeOK
<1>2. ASSUME NEW q \in Questions, CheckCourse(q) \/ CheckUser(q) \/ Refuse(q) \/ Record(q)
      PROVE AmountsAsked'
  <2>1. asking[q] # "no" /\ usage[q] = "none"
    BY <1>0, <1>2 DEF CheckCourse, CheckUser, Refuse, Record, Locked
  <2>2. CASE Refuse(q)
    BY <1>0, <2>2 DEF Refuse, AmountsAsked, TypeOK
  <2>3. CASE CheckCourse(q)
    BY <1>0, <2>1, <2>3 DEF CheckCourse, AmountsAsked, TypeOK
  <2>4. CASE CheckUser(q)
    BY <1>0, <2>1, <2>4 DEF CheckUser, AmountsAsked, TypeOK
  <2>5. CASE Record(q)
    BY <1>0, <2>1, <2>5 DEF Record, AmountsAsked, TypeOK
  <2> QED BY <1>2, <2>2, <2>3, <2>4, <2>5
<1>3. ASSUME NEW w \in Workers, NEW actual \in Actuals, Settle(w, actual)
      PROVE AmountsAsked'
  BY <1>0, <1>3 DEF Settle, AmountsAsked, TypeOK
<1>4. ASSUME NEW w \in Workers, Fail(w)
      PROVE AmountsAsked'
  BY <1>0, <1>4 DEF Fail, Released, AmountsAsked, TypeOK
<1>5. ASSUME UNCHANGED <<asking, usage, cost>>
      PROVE AmountsAsked'
  BY <1>5 DEF AmountsAsked
<1> QED BY <1>1, <1>2, <1>3, <1>4, <1>5
        DEF Next, Progress, SaveQuota, BackoffOver, LeaseRunsOut, Claim, Prepare, AttemptFails,
            Crash, vars

\* Where every answer fits every reservation, as in the instance that is checked,
\* no more is ever spent than was reserved.
LEMMA CappedAnswers ==
  ASSUME \A actual \in Actuals, amount \in Reservations : actual <= amount
  PROVE  Spec => NoOverspending
<1>1. Init => AmountsAsked
  BY DEF Init, AmountsAsked
<1>2. Inv /\ AmountsAsked /\ [Next]_vars => [Frugal]_vars
  <2> SUFFICES ASSUME Inv, AmountsAsked, Next, NEW q \in Questions,
                      usage[q] = "reserved", usage'[q] = "settled"
               PROVE  cost'[q] <= cost[q]
    BY DEF Frugal
  <2> USE DEF asks, ledger
  <2>0. TypeOK /\ Locked /\ Asked
    BY DEF Inv
  <2>1. cost[q] \in Reservations
    BY <2>0 DEF AmountsAsked, Locked
  <2>2. ASSUME NEW w \in Workers, NEW actual \in Actuals, Settle(w, actual)
        PROVE cost'[q] \in Actuals
    <3>1. job[w].question = q
      BY <2>0, <2>2 DEF Settle, TypeOK
    <3> QED BY <2>0, <2>2, <3>1 DEF Settle, TypeOK
  <2>3. ASSUME NEW p \in Questions, Record(p) PROVE FALSE
    BY <2>0, <2>3 DEF Record, TypeOK
  <2>4. ASSUME NEW w \in Workers, Fail(w) PROVE FALSE
    BY <2>0, <2>4 DEF Fail, Released, TypeOK
  <2>5. cost'[q] \in Actuals
    BY <2>2, <2>3, <2>4
       DEF Next, Progress, SaveQuota, BeginAsk, CheckCourse, CheckUser, Refuse, BackoffOver,
           LeaseRunsOut, Claim, Prepare, AttemptFails, Crash
  <2> QED BY <2>1, <2>5
<1>3. Inv /\ AmountsAsked /\ [Next]_vars => AmountsAsked'
  BY AmountsStep
<1> QED BY <1>1, <1>2, <1>3, SpecInv, PTL DEF Spec, NoOverspending

-----------------------------------------------------------------------------
(* The ledger.                                                             *)

Nests == Ledger!Nested(quota)

LEMMA NestsStep == Inv /\ Nests /\ [Next]_vars => Nests'
<1> SUFFICES ASSUME Inv, Nests, [Next]_vars PROVE Nests'
  OBVIOUS
<1> USE DEF asks, ledger
<1>1. ASSUME NEW s \in Scopes, NEW limit \in Limits \cup {NoLimit}, SaveQuota(s, limit)
      PROVE Nests'
  <2>0. quota \in [Scopes -> Limits \cup {NoLimit}] /\ quota' = [quota EXCEPT ![s] = limit]
    BY <1>1 DEF Inv, TypeOK, SaveQuota
  <2>1. Course \in Scopes /\ Users \subseteq Scopes /\ Course \notin Users
    BY QuestionsAssumption DEF Scopes
  <2>2. \A u \in Users : Within(quota'[u], quota'[Course])
    <3>1. CASE s = Course
      BY <1>1, <2>0, <2>1, <3>1 DEF SaveQuota
    <3>2. CASE s # Course
      <4>1. \A u \in Users : Within(quota[u], quota[Course])
        BY DEF Nests, Ledger!Nested, Ledger!Course, Course, Within
      <4>2. Within(limit, quota[Course]) /\ quota'[Course] = quota[Course]
        BY <1>1, <2>0, <2>1, <3>2 DEF SaveQuota
      <4> QED BY <2>0, <2>1, <4>1, <4>2
    <3> QED BY <3>1, <3>2
  <2> QED BY <2>2 DEF Nests, Ledger!Nested, Ledger!Course, Course, Within
<1>2. ASSUME UNCHANGED quota PROVE Nests'
  BY <1>2 DEF Nests, Ledger!Nested
<1> QED BY <1>1, <1>2
        DEF Next, Progress, BeginAsk, CheckCourse, CheckUser, Refuse, Record, BackoffOver,
            LeaseRunsOut, Claim, Prepare, AttemptFails, Crash, Settle, Fail, vars

\* Who asks found an enabled quota of the course.
Funded == \A q \in Questions : asking[q] \in {"course", "user", "fits"} => quota[Course] # NoLimit

LEMMA FundedStep == Inv /\ Funded /\ [Next]_vars => Funded'
<1> SUFFICES ASSUME Inv, Funded, [Next]_vars, NEW q \in Questions,
                    asking'[q] \in {"course", "user", "fits"}
             PROVE  quota'[Course] # NoLimit
  BY DEF Funded
<1> USE DEF asks, ledger
<1>0. TypeOK /\ Locked /\ q # NoQuestion
  BY QuestionsAssumption DEF Inv
<1>1. ASSUME NEW a \in Reservations, BeginAsk(q, a)
      PROVE quota'[Course] # NoLimit
  BY <1>1 DEF BeginAsk
<1>2. CASE asking[q] \in {"course", "user", "fits"}
  <2>1. courseRow = q /\ quota[Course] # NoLimit
    BY <1>0, <1>2 DEF Locked, Funded
  <2>2. UNCHANGED quota
    BY <1>0, <2>1
       DEF Next, Progress, SaveQuota, BeginAsk, CheckCourse, CheckUser, Refuse, Record, BackoffOver,
           LeaseRunsOut, Claim, Prepare, AttemptFails, Crash, Settle, Fail, vars
  <2> QED BY <2>1, <2>2
<1>3. CASE asking[q] \notin {"course", "user", "fits"}
  <2>1. \E a \in Reservations : BeginAsk(q, a)
    BY <1>0, <1>3
       DEF Next, Progress, SaveQuota, BeginAsk, CheckCourse, CheckUser, Refuse, Record, BackoffOver,
           LeaseRunsOut, Claim, Prepare, AttemptFails, Crash, Settle, Fail, vars, TypeOK
  <2> QED BY <1>1, <2>1
<1> QED BY <1>2, <1>3

LEMMA LedgerInit == Init => Ledger!Init /\ Nests /\ Funded /\ AmountsAsked /\ Afforded
BY DEF Init, Ledger!Init, Ledger!Scopes, Ledger!Course, Scopes, Course, AmountInLedger, Nests,
       Ledger!Nested, Funded, AmountsAsked, Afforded

\* The ledger counts and adds up as Questions does.
LEMMA LedgerCounts ==
  ASSUME NEW S, NEW f
  PROVE  /\ Ledger!Cardinality(S) = Cardinality(S)
         /\ Ledger!SumFunctionOnSet(f, S) = SumFunctionOnSet(f, S)
<1>1. Ledger!Cardinality(S) = Cardinality(S)
  BY DEF Cardinality, Ledger!Cardinality
<1>2. Ledger!SumFunctionOnSet(f, S) = SumFunctionOnSet(f, S)
  BY DEF SumFunctionOnSet, FoldFunctionOnSet, MapThenFoldSet, Ledger!SumFunctionOnSet,
         Ledger!FoldFunctionOnSet, Ledger!MapThenFoldSet
<1> QED BY <1>1, <1>2

\* The room that the transaction has found is the room of the ledger.
LEMMA RoomInLedger ==
  ASSUME TypeOK, NEW s, NEW q \in Questions, Room(s), RoomFor(s, q)
  PROVE  Ledger!HasRoom(s, cost[q])
<1>1. Ledger!Used(s) = Counted(s)
  BY DEF Ledger!Used, Ledger!Course, Course, Counted
<1>2. SumFunctionOnSet(AmountInLedger, Counted(s)) = Tokens(s)
  <2>1. \A p \in Counted(s) : AmountInLedger[p] = cost[p]
    BY DEF AmountInLedger, Counted
  <2>2. IsFiniteSet(Counted(s))
    BY CountedIsFinite
  <2>3. SumFunctionOnSet(AmountInLedger, Counted(s)) = SumFunctionOnSet(cost, Counted(s))
    BY <2>1, <2>2, SumSame
  <2> QED BY <2>3 DEF Tokens
<1>3. /\ Cardinality(Ledger!Used(s)) = Cardinality(Counted(s))
      /\ SumFunctionOnSet(AmountInLedger, Ledger!Used(s)) = Tokens(s)
  BY <1>1, <1>2
<1>4. quota[s] # NoLimit =>
        /\ Ledger!Cardinality(Ledger!Used(s)) + 1 <= quota[s].requests
        /\ Ledger!SumFunctionOnSet(AmountInLedger, Ledger!Used(s)) + cost[q] <= quota[s].tokens
  BY <1>3, LedgerCounts DEF Room, RoomFor
<1> QED BY <1>4 DEF Ledger!HasRoom

LEMMA LedgerStep ==
  ASSUME Inv, Checked, Afforded, AmountsAsked, Nests, Funded, [Next]_vars
  PROVE  [Ledger!Next]_Ledger!vars
<1> USE DEF asks, ledger
<1>0. TypeOK /\ Locked /\ Asked
  BY DEF Inv
<1>1. ASSUME UNCHANGED <<quota, usage>>, \A q \in Questions : usage[q] # "none" => cost'[q] = cost[q]
      PROVE UNCHANGED Ledger!vars
  BY <1>1 DEF Ledger!vars, AmountInLedger
<1>2. ASSUME NEW s \in Scopes, NEW limit \in Limits \cup {NoLimit}, SaveQuota(s, limit)
      PROVE Ledger!Next
  <2>1. Ledger!Nested(quota')
    BY NestsStep DEF Nests, Ledger!Nested
  <2>2. AmountInLedger' = AmountInLedger
    BY <1>2 DEF SaveQuota, AmountInLedger
  <2>3. Ledger!SetQuota(s, limit)
    BY <1>2, <2>1, <2>2 DEF SaveQuota, Ledger!SetQuota
  <2> QED BY <2>3 DEF Ledger!Next, Ledger!Scopes, Ledger!Course, Scopes, Course
<1>3. ASSUME NEW q \in Questions, NEW a \in Reservations, BeginAsk(q, a)
      PROVE UNCHANGED Ledger!vars
  <2>1. usage[q] = "none"
    BY <1>0, <1>3 DEF BeginAsk, Locked
  <2> QED BY <1>0, <1>1, <1>3, <2>1 DEF BeginAsk, TypeOK
<1>4. ASSUME NEW q \in Questions, Refuse(q)
      PROVE UNCHANGED Ledger!vars
  <2>1. usage[q] = "none"
    BY <1>0, <1>4 DEF Refuse, Locked
  <2> QED BY <1>0, <1>1, <1>4, <2>1 DEF Refuse, TypeOK
<1>5. ASSUME NEW q \in Questions, Record(q)
      PROVE Ledger!Next
  <2>1. usage[q] = "none" /\ asking[q] = "fits" /\ courseRow = q
    BY <1>0, <1>5 DEF Record, Locked
  <2>2. Ledger!HasRoom(Course, cost[q]) /\ Ledger!HasRoom(Asker[q], cost[q])
    BY <1>0, <2>1, RoomInLedger DEF Checked, Afforded
  <2>3. quota[Course] # NoLimit
    BY <2>1 DEF Funded
  <2>4. cost[q] \in Reservations
    BY <2>1 DEF AmountsAsked
  <2>5. AmountInLedger' = [AmountInLedger EXCEPT ![q] = cost[q]]
    BY <1>0, <1>5, <2>1 DEF Record, AmountInLedger, TypeOK
  <2>6. Ledger!Reserve(q, cost[q])
    BY <1>5, <2>1, <2>2, <2>3, <2>5 DEF Record, Ledger!Reserve, Ledger!Course, Course
  <2> QED BY <2>4, <2>6 DEF Ledger!Next
<1>6. ASSUME NEW w \in Workers, NEW a \in Actuals, Settle(w, a)
      PROVE Ledger!Next
  <2> DEFINE q == job[w].question
  <2>1. q \in Questions /\ usage[q] = "reserved" /\ UNCHANGED quota
    BY <1>0, <1>6 DEF Settle, Settleable, Asked
  <2>2. usage' = [usage EXCEPT ![q] = "settled"] /\ cost' = [cost EXCEPT ![q] = a]
    BY <1>6 DEF Settle
  <2> HIDE DEF q
  <2>3. AmountInLedger' = [AmountInLedger EXCEPT ![q] = a]
    BY <1>0, <2>1, <2>2 DEF AmountInLedger, TypeOK
  <2>4. Ledger!Settle(q, a)
    BY <2>1, <2>2, <2>3 DEF Ledger!Settle
  <2> QED BY <2>1, <2>4 DEF Ledger!Next
<1>7. ASSUME NEW w \in Workers, Fail(w)
      PROVE Ledger!Next \/ UNCHANGED Ledger!vars
  <2> DEFINE q == job[w].question
  <2>1. q \in Questions /\ UNCHANGED <<quota, cost>>
    BY <1>0, <1>7 DEF Fail, Asked
  <2>2. \/ usage' = [usage EXCEPT ![q] = "released"] /\ usage[q] = "reserved"
        \/ UNCHANGED usage
    BY <1>0, <1>7, <2>1 DEF Fail, Released, TypeOK
  <2> HIDE DEF q
  <2>3. CASE UNCHANGED usage
    BY <1>1, <2>1, <2>3
  <2>4. CASE usage' = [usage EXCEPT ![q] = "released"] /\ usage[q] = "reserved"
    <3>1. AmountInLedger' = AmountInLedger
      BY <1>0, <2>1, <2>4 DEF AmountInLedger, TypeOK
    <3>2. Ledger!Release(q)
      BY <2>1, <2>4, <3>1 DEF Ledger!Release
    <3> QED BY <2>1, <3>2 DEF Ledger!Next
  <2> QED BY <2>2, <2>3, <2>4
<1>8. ASSUME UNCHANGED <<quota, usage, cost>> PROVE UNCHANGED Ledger!vars
  BY <1>1, <1>8
<1> QED BY <1>2, <1>3, <1>4, <1>5, <1>6, <1>7, <1>8
        DEF Next, Progress, CheckCourse, CheckUser, BackoffOver, LeaseRunsOut, Claim, Prepare,
            AttemptFails, Crash, vars

\* As long as no answer costs more than it reserved, the portal's usage is the
\* ledger of QuotaLedger: whatever statements, leases, crashes and late answers
\* lie in between, each reservation takes effect at once and within every quota.
THEOREM QuestionsImplementQuotaLedger == Spec /\ NoOverspending => ImplementsQuotaLedger
<1>1. Init => Checked
  BY InitInv
<1>2. Inv /\ Checked /\ [Next]_vars => Checked'
  BY CheckedStep
<1>3. Inv /\ Afforded /\ [Next]_vars /\ [Frugal]_vars => Afforded'
  BY AffordedStep
<1>4. Inv /\ AmountsAsked /\ [Next]_vars => AmountsAsked'
  BY AmountsStep
<1>5. Inv /\ Checked /\ Afforded /\ AmountsAsked /\ Nests /\ Funded /\ [Next]_vars =>
        [Ledger!Next]_Ledger!vars
  BY LedgerStep
<1> QED
  BY LedgerInit, FundedStep, NestsStep, SpecInv, <1>1, <1>2, <1>3, <1>4, <1>5, PTL
  DEF Spec, NoOverspending, ImplementsQuotaLedger, Ledger!Spec

\* With answers that fit their reservations the quotas and the ledger need no
\* further condition.
THEOREM CappedQuestions ==
  ASSUME \A actual \in Actuals, amount \in Reservations : actual <= amount
  PROVE  Spec => TokensWithinQuota /\ ImplementsQuotaLedger
BY CappedAnswers, AmountsHold, QuestionsImplementQuotaLedger, PTL
=============================================================================
