-------------------------- MODULE ServeRunsProofs --------------------------
(***************************************************************************)
(* Theorems about ServeRuns, for every number of runs, locks and faults:   *)
(* a resource is served in turn like a queue, no lock is left behind,      *)
(* nobody waits for nothing, and a verdict that clients read is the one on *)
(* disk.                                                                   *)
(***************************************************************************)
EXTENDS ServeRuns, SequenceTheorems, WellFoundedInduction, TLAPS

(***************************************************************************)
(* The queue of a lock.  The promises of a lock are resolved in the order  *)
(* in which they were made; whoever is at the lock made one that is not    *)
(* resolved, and waits for the one before it.                              *)
(***************************************************************************)
Before(l, t) == \A u \in 1 .. (t - 1) : u \in released[l]

Served ==
  \A l \in Locks :
    /\ released[l] \subseteq 1 .. issued[l]
    /\ \A t \in released[l] : Before(l, t)
    /\ entry[l] = 0 => Before(l, issued[l] + 1)
    /\ entry[l] # 0 => entry[l] = issued[l]

Queued ==
  \A r \in Runs : place[r] \in AtLock =>
    /\ ticket[r] \in 1 .. issued[Lock(r)]
    /\ ticket[r] \notin released[Lock(r)]
    /\ behind[r] = 0 => Before(Lock(r), ticket[r])
    /\ behind[r] # 0 => behind[r] = ticket[r] - 1
    /\ place[r] = "holding" => Before(Lock(r), ticket[r])

Distinct ==
  \A r, q \in Runs :
    r # q /\ place[r] \in AtLock /\ place[q] \in AtLock /\ Lock(r) = Lock(q)
      => ticket[r] # ticket[q]

(***************************************************************************)
(* What a run has written by the time it is somewhere.                     *)
(***************************************************************************)
Closed(r) ==
  /\ verdict[r] \in Verdicts
  /\ manifest[r] = verdict[r]
  /\ log[r] # <<>> /\ Last(log[r]) = verdict[r]

WrittenBy(r) ==
  /\ place[r] \in AtWork \cup {None} => r \notin caught /\ verdict[r] \in {None, "failed"}
  /\ place[r] \in AtWork \cup {None} => manifest[r] \in {None, "partial"}
  /\ place[r] = "closing" => verdict[r] \in Verdicts
  /\ place[r] \in {"reading", "opening", "writing"} => Closed(r)
  /\ r \in caught => verdict[r] # "passed"
  /\ record[r] = "passed" => place[r] = "ended" /\ Closed(r) /\ verdict[r] = "passed"

Written == \A r \in Runs : WrittenBy(r)

Inv == TypeOK /\ Served /\ Queued /\ Distinct /\ Written

Step(r) == Accept(r) \/ Cancel(r) \/ Progress(r) \/ Fault(r)

\* The parts of TypeOK that concern the files and the verdicts.
Recorded ==
  /\ record \in [Runs -> Verdicts \cup {None, "running"}]
  /\ verdict \in [Runs -> Verdicts \cup {None}]
  /\ caught \subseteq Runs
  /\ manifest \in [Runs -> Verdicts \cup {None, "partial"}]
  /\ log \in [Runs -> Seq(Verdicts)]
  /\ mine \in [Runs -> SUBSET Runs]
  /\ index \subseteq Runs
  /\ torn \in BOOLEAN
  /\ faults \in 0 .. MaxFaults

\* The parts that concern the runs and their locks.
Placed ==
  /\ aborted \subseteq Runs
  /\ place \in [Runs -> Places]
  /\ left \in [Runs -> Seq(Locks)]
  /\ \A r \in Runs : place[r] \in AtLock => left[r] # <<>>
  /\ issued \in [Locks -> Nat]
  /\ released \in [Locks -> SUBSET Nat]
  /\ entry \in [Locks -> Nat]
  /\ ticket \in [Runs -> Nat]
  /\ behind \in [Runs -> Nat]

-----------------------------------------------------------------------------
LEMMA InitInv == Init => Inv /\ NoLockLeft /\ PassedIsRecorded
<1> SUFFICES ASSUME Init PROVE Inv /\ NoLockLeft /\ PassedIsRecorded
  OBVIOUS
<1>1. TypeOK
  <2>1. Recorded
    <3>1. log \in [Runs -> Seq(Verdicts)]
      BY DEF Init
    <3>2. record \in [Runs -> Verdicts \cup {None, "running"}] /\ verdict \in [Runs -> Verdicts \cup {None}]
          /\ manifest \in [Runs -> Verdicts \cup {None, "partial"}]
      BY DEF Init
    <3>3. mine \in [Runs -> SUBSET Runs] /\ faults \in 0 .. MaxFaults
      BY FaultsAssumption DEF Init
    <3>4. caught \subseteq Runs /\ index \subseteq Runs /\ torn \in BOOLEAN
      BY DEF Init
    <3> QED BY <3>1, <3>2, <3>3, <3>4 DEF Recorded
  <2>2. Placed
    <3>1. \A r \in Runs : place[r] \notin AtLock
      BY DEF Init, AtLock, None
    <3>2. place \in [Runs -> Places] /\ left \in [Runs -> Seq(Locks)]
      BY DEF Init, Places
    <3> QED BY <3>1, <3>2 DEF Init, Placed
  <2> QED BY <2>1, <2>2 DEF TypeOK, Recorded, Placed
<1>2. Served
  BY DEF Init, Served, Before
<1>3. Queued /\ Distinct
  BY DEF Init, Queued, Distinct, AtLock, None
<1>4. Written
  BY DEF Init, Written, WrittenBy, AtWork, None
<1>5. NoLockLeft /\ PassedIsRecorded
  BY DEF Init, NoLockLeft, PassedIsRecorded, None
<1> QED BY <1>1, <1>2, <1>3, <1>4, <1>5 DEF Inv

(***************************************************************************)
(* Types.                                                                  *)
(***************************************************************************)
LEMMA TailType ==
  ASSUME NEW s \in Seq(Locks), s # <<>>
  PROVE  Tail(s) \in Seq(Locks) /\ Head(s) \in Locks
BY HeadTailProperties

LEMMA FallbackType == \A r : FailedOrCancelled(r) \in Verdicts \ {"passed"}
BY DEF FailedOrCancelled, Verdicts

LEMMA RecordedStep ==
  ASSUME Inv, NEW r \in Runs, Step(r)
  PROVE  Recorded'
<1>1. Recorded
  BY DEF Inv, TypeOK, Recorded
<1>2. FailedOrCancelled(r) \in Verdicts /\ {"passed", "failed", "cancelled"} = Verdicts
  BY FallbackType DEF Verdicts
<1> USE DEF lockVars, fileVars, Recorded
<1>3. CASE Accept(r) \/ Cancel(r) \/ Begin(r) \/ BeginFails(r)
  BY <1>1, <1>2, <1>3 DEF Accept, Cancel, Begin, BeginFails, Ends
<1>4. CASE Enter(r) \/ Acquire(r) \/ Release(r)
  BY <1>1, <1>4 DEF Enter, Acquire, Release
<1>5. CASE Finish(r) \/ Throw(r)
  BY <1>1, <1>2, <1>5 DEF Finish, Throw, Catch
<1>6. CASE Record(r) \/ RecordFails(r)
  <2>1. verdict[r] \in Verdicts
    BY <1>6 DEF Inv, Record, RecordFails, Written, WrittenBy
  <2>2. Append(log[r], verdict[r]) \in Seq(Verdicts)
    BY <1>1, <2>1
  <2>3. [log EXCEPT ![r] = Append(@, verdict[r])] \in [Runs -> Seq(Verdicts)]
    BY <1>1, <2>2
  <2>4. [manifest EXCEPT ![r] = verdict[r]] \in [Runs -> Verdicts \cup {None, "partial"}]
    BY <1>1, <2>1
  <2>5. CASE Record(r)
    BY <1>1, <2>3, <2>4, <2>5 DEF Record, WriteManifest, WriteEvent
  <2>6. CASE RecordFails(r)
    <3>1. manifest' \in [Runs -> Verdicts \cup {None, "partial"}] /\ log' \in [Runs -> Seq(Verdicts)]
      BY <1>1, <2>3, <2>4, <2>6 DEF RecordFails, WriteManifest, WriteEvent
    <3>2. faults' \in 0 .. MaxFaults
      BY <1>1, <2>6, FaultsAssumption DEF RecordFails
    <3> QED BY <1>1, <1>2, <2>6, <3>1, <3>2 DEF RecordFails, FinalizeThrows, Catch, Ends
  <2> QED BY <1>6, <2>5, <2>6
<1>7. CASE ReadIndex(r) \/ OpenIndex(r)
  <2>1. mine' \in [Runs -> SUBSET Runs]
    <3>1. index \cup {r} \in SUBSET Runs
      BY <1>1
    <3>2. [mine EXCEPT ![r] = index \cup {r}] \in [Runs -> SUBSET Runs]
      BY <1>1, <3>1
    <3>3. mine' = mine \/ mine' = [mine EXCEPT ![r] = index \cup {r}]
      BY <1>7 DEF ReadIndex, OpenIndex
    <3> QED BY <1>1, <3>2, <3>3
  <2>2. CASE ReadIndex(r) /\ torn
    BY <1>1, <1>2, <2>1, <2>2 DEF ReadIndex, FinalizeThrows, Catch, Ends
  <2>3. CASE ReadIndex(r) /\ ~torn
    BY <1>1, <2>1, <2>3 DEF ReadIndex
  <2>4. CASE OpenIndex(r)
    BY <1>1, <2>1, <2>4 DEF OpenIndex
  <2> QED BY <1>7, <2>2, <2>3, <2>4
<1>8. CASE WriteIndex(r)
  <2>1. verdict[r] \in Verdicts
    BY <1>8 DEF Inv, WriteIndex, Written, WrittenBy, Closed
  <2> QED BY <1>1, <1>8, <2>1 DEF WriteIndex, Ends
<1>9. CASE WriteIndexFails(r) \/ LockEventFails(r)
  <2>1. faults' \in 0 .. MaxFaults
    BY <1>1, <1>9, FaultsAssumption DEF WriteIndexFails, LockEventFails
  <2> QED BY <1>1, <1>2, <1>9, <2>1 DEF WriteIndexFails, LockEventFails, FinalizeThrows, Catch, Ends
<1> QED BY <1>3, <1>4, <1>5, <1>6, <1>7, <1>8, <1>9 DEF Step, Progress, Fault

LEMMA PlacedStep ==
  ASSUME Inv, NEW r \in Runs, Step(r)
  PROVE  Placed'
<1>1. Placed
  BY DEF Inv, TypeOK, Placed
<1> USE DEF lockVars, Placed, Goes, Places, AtWork, AtLock, None
<1>2. CASE Accept(r)
  BY <1>1, <1>2, PlansAssumption DEF Accept
<1>3. CASE Cancel(r) \/ Begin(r) \/ BeginFails(r)
  BY <1>1, <1>3 DEF Cancel, Begin, BeginFails, Ends
<1>4. CASE Enter(r)
  <2>1. Lock(r) \in Locks
    BY <1>1, <1>4, TailType DEF Enter, Lock
  <2> QED BY <1>1, <1>4, <2>1 DEF Enter
<1>5. CASE Acquire(r)
  BY <1>1, <1>5 DEF Acquire
<1>6. CASE Release(r)
  <2>1. Lock(r) \in Locks /\ Tail(left[r]) \in Seq(Locks)
    BY <1>1, <1>6, TailType DEF Release, Lock
  <2>2. AfterRelease(Lock(r), ticket[r]) \in Nat
    BY <1>1, <2>1 DEF AfterRelease
  <2> QED BY <1>1, <1>6, <2>1, <2>2 DEF Release
<1>7. CASE Finish(r) \/ Throw(r)
  BY <1>1, <1>7 DEF Finish, Throw, Catch
<1>8. CASE LockEventFails(r)
  <2>1. Tail(left[r]) \in Seq(Locks)
    BY <1>1, <1>8, TailType DEF LockEventFails
  <2> QED BY <1>1, <1>8, <2>1 DEF LockEventFails, Catch
<1>9. CASE Record(r) \/ OpenIndex(r) \/ WriteIndex(r)
  BY <1>1, <1>9 DEF Record, OpenIndex, WriteIndex, Ends
<1>10. CASE ReadIndex(r) \/ RecordFails(r) \/ WriteIndexFails(r)
  BY <1>1, <1>10 DEF ReadIndex, RecordFails, WriteIndexFails, FinalizeThrows, Catch, Ends
<1> QED BY <1>2, <1>3, <1>4, <1>5, <1>6, <1>7, <1>8, <1>9, <1>10 DEF Step, Progress, Fault

LEMMA TypeStep ==
  ASSUME Inv, [Next]_vars
  PROVE  TypeOK'
<1>1. CASE UNCHANGED vars
  BY <1>1 DEF Inv, vars, lockVars, fileVars, TypeOK
<1>2. ASSUME NEW r \in Runs, Step(r) PROVE TypeOK'
  BY <1>2, RecordedStep, PlacedStep DEF TypeOK, Recorded, Placed
<1> QED BY <1>1, <1>2 DEF Next, Step

(***************************************************************************)
(* The locks.  Only Enter, Release and the loss of an event change who is  *)
(* at a lock; every other step leaves the queues alone.                    *)
(***************************************************************************)
LEMMA LocksAlone ==
  ASSUME Inv, UNCHANGED lockVars,
         \A q \in Runs : place'[q] \in AtLock => place'[q] = place[q] /\ left'[q] = left[q]
  PROVE  Served' /\ Queued' /\ Distinct'
<1>1. Served'
  BY DEF Inv, lockVars, Served, Before
<1>2. \A q \in Runs : place'[q] \in AtLock =>
        place[q] \in AtLock /\ Lock(q)' = Lock(q) /\ place'[q] = place[q]
  BY DEF Lock
<1>3. Queued'
  BY <1>2 DEF Inv, lockVars, Queued, Before
<1>4. Distinct'
  BY <1>2 DEF Inv, lockVars, Distinct
<1> QED BY <1>1, <1>3, <1>4

\* The steps that leave the queues alone.
Elsewhere(r) ==
  \/ Accept(r) \/ Cancel(r) \/ Begin(r) \/ BeginFails(r) \/ Finish(r) \/ Throw(r)
  \/ LockEventFails(r) \/ Record(r) \/ RecordFails(r) \/ ReadIndex(r) \/ OpenIndex(r)
  \/ WriteIndex(r) \/ WriteIndexFails(r)

LEMMA OthersStay ==
  ASSUME Inv, NEW r \in Runs, Elsewhere(r)
  PROVE  \A q \in Runs : q # r => place'[q] = place[q] /\ left'[q] = left[q]
<1> USE DEF Inv, TypeOK, Goes
<1>1. CASE Accept(r) \/ Cancel(r) \/ Begin(r) \/ BeginFails(r)
  BY <1>1 DEF Accept, Cancel, Begin, BeginFails, Ends
<1>2. CASE Finish(r) \/ Throw(r) \/ LockEventFails(r)
  BY <1>2 DEF Finish, Throw, LockEventFails, Catch
<1>3. CASE Record(r) \/ OpenIndex(r) \/ WriteIndex(r)
  BY <1>3 DEF Record, OpenIndex, WriteIndex, Ends
<1>4. CASE RecordFails(r) \/ ReadIndex(r) \/ WriteIndexFails(r)
  BY <1>4 DEF RecordFails, ReadIndex, WriteIndexFails, FinalizeThrows, Catch, Ends
<1> QED BY <1>1, <1>2, <1>3, <1>4 DEF Elsewhere

LEMMA ElsewhereLocks ==
  ASSUME Inv, NEW r \in Runs, Elsewhere(r)
  PROVE  /\ UNCHANGED lockVars
         /\ \A q \in Runs : place'[q] \in AtLock => place'[q] = place[q] /\ left'[q] = left[q]
<1>1. UNCHANGED lockVars
  BY DEF Elsewhere, Accept, Cancel, Begin, BeginFails, Finish, Throw, LockEventFails, Record,
         RecordFails, ReadIndex, OpenIndex, WriteIndex, WriteIndexFails
<1>2. \A q \in Runs : q # r => place'[q] = place[q] /\ left'[q] = left[q]
  BY OthersStay
<1>3. place'[r] \notin AtLock \/ (place'[r] = place[r] /\ left'[r] = left[r])
  <2> USE DEF Inv, TypeOK, Goes, AtLock
  <2>1. CASE Accept(r) \/ Cancel(r) \/ Begin(r) \/ BeginFails(r)
    BY <2>1 DEF Accept, Cancel, Begin, BeginFails, Ends
  <2>2. CASE Finish(r) \/ Throw(r) \/ LockEventFails(r)
    BY <2>2 DEF Finish, Throw, LockEventFails, Catch
  <2>3. CASE Record(r) \/ OpenIndex(r) \/ WriteIndex(r)
    BY <2>3 DEF Record, OpenIndex, WriteIndex, Ends
  <2>4. CASE RecordFails(r) \/ ReadIndex(r) \/ WriteIndexFails(r)
    BY <2>4 DEF RecordFails, ReadIndex, WriteIndexFails, FinalizeThrows, Catch, Ends
  <2> QED BY <2>1, <2>2, <2>3, <2>4 DEF Elsewhere
<1> QED BY <1>1, <1>2, <1>3

\* When a run takes its lock every promise before its own is resolved.
LEMMA TurnTaken ==
  ASSUME Inv, NEW r \in Runs, Acquire(r)
  PROVE  Before(Lock(r), ticket[r])
<1>1. place[r] = "waiting" /\ place[r] \in AtLock /\ Lock(r) \in Locks
  BY TailType DEF Acquire, Inv, TypeOK, Lock, AtLock
<1>2. CASE behind[r] = 0
  BY <1>1, <1>2 DEF Inv, Queued
<1>3. CASE behind[r] # 0 /\ behind[r] \in released[Lock(r)]
  <2>1. behind[r] = ticket[r] - 1 /\ ticket[r] \in Nat
    BY <1>1, <1>3 DEF Inv, Queued, TypeOK
  <2>2. Before(Lock(r), behind[r])
    BY <1>1, <1>3 DEF Inv, Served
  <2>3. \A u \in 1 .. (ticket[r] - 1) : u = behind[r] \/ u \in 1 .. (behind[r] - 1)
    BY <2>1
  <2> QED BY <1>3, <2>2, <2>3 DEF Before
<1> QED BY <1>2, <1>3 DEF Acquire

LEMMA AcquireLocks ==
  ASSUME Inv, NEW r \in Runs, Acquire(r)
  PROVE  Served' /\ Queued' /\ Distinct'
<1>1. UNCHANGED <<lockVars, left>> /\ Lock(r)' = Lock(r)
  BY DEF Acquire, lockVars, Lock
<1>2. \A q \in Runs : Lock(q)' = Lock(q) /\ (q # r => place'[q] = place[q])
  BY <1>1 DEF Acquire, Goes, Lock, Inv, TypeOK
<1>3. place[r] = "waiting" /\ place'[r] = "holding" /\ Lock(r) \in Locks
  BY TailType DEF Acquire, Goes, Inv, TypeOK, Lock, AtLock
<1>4. Before(Lock(r), ticket[r])
  BY TurnTaken
<1>5. Served'
  BY <1>1 DEF Inv, lockVars, Served, Before
<1>6. Queued'
  BY <1>1, <1>2, <1>3, <1>4 DEF Inv, lockVars, Queued, Before, AtLock
<1>7. Distinct'
  BY <1>1, <1>2, <1>3 DEF Inv, lockVars, Distinct, AtLock
<1> QED BY <1>5, <1>6, <1>7

LEMMA EnterLocks ==
  ASSUME Inv, NEW r \in Runs, Enter(r)
  PROVE  Served' /\ Queued' /\ Distinct'
<1> DEFINE l == Lock(r)
<1>1. l \in Locks /\ place[r] = "working" /\ place'[r] = "waiting"
  BY TailType DEF Inv, TypeOK, Enter, Goes, Lock
<1>2. /\ issued' = [issued EXCEPT ![l] = @ + 1]
      /\ ticket' = [ticket EXCEPT ![r] = issued[l] + 1]
      /\ behind' = [behind EXCEPT ![r] = entry[l]]
      /\ entry' = [entry EXCEPT ![l] = issued[l] + 1]
      /\ UNCHANGED <<released, left>>
  BY DEF Enter
<1>3. /\ issued \in [Locks -> Nat] /\ ticket \in [Runs -> Nat] /\ behind \in [Runs -> Nat]
      /\ entry \in [Locks -> Nat] /\ released \in [Locks -> SUBSET Nat]
  BY DEF Inv, TypeOK
<1>4. \A q \in Runs : Lock(q)' = Lock(q) /\ (q # r => place'[q] = place[q])
  BY <1>2 DEF Enter, Goes, Lock, Inv, TypeOK
<1>5. \A k \in Locks : issued'[k] >= issued[k] /\ (k # l => issued'[k] = issued[k] /\ entry'[k] = entry[k])
  BY <1>1, <1>2, <1>3
<1>6. issued'[l] = issued[l] + 1 /\ entry'[l] = issued[l] + 1 /\ ticket'[r] = issued[l] + 1 /\ behind'[r] = entry[l]
  BY <1>1, <1>2, <1>3
<1>7. \A q \in Runs : q # r => ticket'[q] = ticket[q] /\ behind'[q] = behind[q]
  BY <1>2, <1>3
<1>8. \A k \in Locks : \A t : Before(k, t)' <=> Before(k, t)
  BY <1>2 DEF Before
<1>9. Served
  BY DEF Inv
<1>10. Served'
  <2> SUFFICES ASSUME NEW k \in Locks
               PROVE  /\ released'[k] \subseteq 1 .. issued'[k]
                      /\ \A t \in released'[k] : Before(k, t)'
                      /\ entry'[k] = 0 => Before(k, issued[k] + 1)'
                      /\ entry'[k] # 0 => entry'[k] = issued'[k]
    BY DEF Served
  <2>1. released'[k] \subseteq 1 .. issued'[k] /\ \A t \in released'[k] : Before(k, t)'
    BY <1>2, <1>3, <1>5, <1>8, <1>9 DEF Served
  <2>2. CASE k = l
    BY <1>3, <1>6, <2>1, <2>2
  <2>3. CASE k # l
    BY <1>5, <1>8, <1>9, <2>1, <2>3 DEF Served
  <2> QED BY <2>2, <2>3
<1>11. Queued'
  <2> SUFFICES ASSUME NEW q \in Runs, place'[q] \in AtLock
               PROVE  /\ ticket'[q] \in 1 .. issued'[Lock(q)]
                      /\ ticket'[q] \notin released[Lock(q)]
                      /\ behind'[q] = 0 => Before(Lock(q), ticket'[q])
                      /\ behind'[q] # 0 => behind'[q] = ticket'[q] - 1
                      /\ place'[q] = "holding" => Before(Lock(q), ticket'[q])
    BY <1>2, <1>4 DEF Queued, Before
  <2>1. CASE q = r
    <3>1. ticket'[r] \in 1 .. issued'[l] /\ ticket'[r] \notin released[l]
      BY <1>1, <1>3, <1>6, <1>9 DEF Served
    <3>2. behind'[r] = 0 => Before(l, ticket'[r])
      BY <1>1, <1>6, <1>9 DEF Served
    <3>3. behind'[r] # 0 => behind'[r] = ticket'[r] - 1
      BY <1>1, <1>3, <1>6, <1>9 DEF Served
    <3> QED BY <1>1, <2>1, <3>1, <3>2, <3>3
  <2>2. CASE q # r
    <3>1. place[q] \in AtLock /\ Lock(q) \in Locks
      BY <1>4, <2>2, TailType DEF Inv, TypeOK, Lock
    <3>2. place'[q] = place[q] /\ ticket'[q] = ticket[q] /\ behind'[q] = behind[q]
      BY <1>4, <1>7, <2>2
    <3>3. /\ ticket[q] \in 1 .. issued[Lock(q)]
          /\ ticket[q] \notin released[Lock(q)]
          /\ behind[q] = 0 => Before(Lock(q), ticket[q])
          /\ behind[q] # 0 => behind[q] = ticket[q] - 1
          /\ place[q] = "holding" => Before(Lock(q), ticket[q])
      BY <3>1 DEF Inv, Queued
    <3>4. issued'[Lock(q)] >= issued[Lock(q)] /\ issued[Lock(q)] \in Nat /\ issued'[Lock(q)] \in Nat
          /\ ticket[q] \in Nat
      BY <1>1, <1>2, <1>3, <1>5, <3>1
    <3>5. ticket[q] \in 1 .. issued'[Lock(q)]
      BY <3>3, <3>4
    <3> QED BY <3>2, <3>3, <3>5
  <2> QED BY <2>1, <2>2
<1>12. Distinct'
  <2>1. \A q \in Runs : q # r /\ place[q] \in AtLock /\ Lock(q) = l => ticket[q] < issued[l] + 1
    BY <1>1, <1>3 DEF Inv, Queued
  <2>2. \A q \in Runs : q # r /\ place'[q] \in AtLock /\ Lock(q) = l => ticket'[q] # ticket'[r]
    BY <1>1, <1>3, <1>4, <1>6, <1>7, <2>1
  <2>3. ASSUME NEW p \in Runs, NEW q \in Runs, p # q, place'[p] \in AtLock, place'[q] \in AtLock,
               Lock(p) = Lock(q)
        PROVE  ticket'[p] # ticket'[q]
    <3>1. CASE p # r /\ q # r
      BY <1>4, <1>7, <2>3, <3>1 DEF Inv, Distinct
    <3>2. CASE p = r
      BY <2>2, <2>3, <3>2
    <3>3. CASE q = r
      BY <2>2, <2>3, <3>3
    <3> QED BY <3>1, <3>2, <3>3
  <2> QED BY <1>4, <2>3 DEF Distinct
<1> QED BY <1>10, <1>11, <1>12

LEMMA ReleaseLocks ==
  ASSUME Inv, NEW r \in Runs, Release(r)
  PROVE  Served' /\ Queued' /\ Distinct'
<1> DEFINE l == Lock(r)
<1> DEFINE t == ticket[r]
<1>1. l \in Locks /\ place[r] = "holding" /\ place[r] \in AtLock /\ place'[r] = "working"
  BY TailType DEF Inv, TypeOK, Release, Goes, Lock, AtLock
<1>2. /\ released' = [released EXCEPT ![l] = @ \cup {t}]
      /\ entry' = [entry EXCEPT ![l] = IF entry[l] = t THEN 0 ELSE entry[l]]
      /\ UNCHANGED <<issued, ticket, behind>>
  BY DEF Release, AfterRelease
<1>3. /\ issued \in [Locks -> Nat] /\ ticket \in [Runs -> Nat] /\ behind \in [Runs -> Nat]
      /\ entry \in [Locks -> Nat] /\ released \in [Locks -> SUBSET Nat]
  BY DEF Inv, TypeOK
<1>4. \A q \in Runs : q # r => place'[q] = place[q] /\ Lock(q)' = Lock(q)
  BY DEF Release, Goes, Lock, Inv, TypeOK
<1>5. \A k \in Locks : k # l => released'[k] = released[k] /\ entry'[k] = entry[k]
  BY <1>1, <1>2, <1>3
<1>6. released'[l] = released[l] \cup {t} /\ entry'[l] = IF entry[l] = t THEN 0 ELSE entry[l]
  BY <1>1, <1>2, <1>3
<1>7. \A k \in Locks : \A u : Before(k, u) => \A v \in 1 .. (u - 1) : v \in released'[k]
  BY <1>5, <1>6 DEF Before
<1>8. t \in 1 .. issued[l] /\ Before(l, t)
  BY <1>1 DEF Inv, Queued
<1>9. Served'
  <2> SUFFICES ASSUME NEW k \in Locks
               PROVE  /\ released'[k] \subseteq 1 .. issued[k]
                      /\ \A u \in released'[k] : \A v \in 1 .. (u - 1) : v \in released'[k]
                      /\ entry'[k] = 0 => \A v \in 1 .. issued[k] : v \in released'[k]
                      /\ entry'[k] # 0 => entry'[k] = issued[k]
    <3>1. \A k \in Locks : (issued[k] + 1) - 1 = issued[k]
      BY <1>3
    <3> QED BY <1>2, <3>1 DEF Served, Before
  <2>1. /\ released[k] \subseteq 1 .. issued[k]
        /\ \A u \in released[k] : Before(k, u)
        /\ entry[k] = 0 => Before(k, issued[k] + 1)
        /\ entry[k] # 0 => entry[k] = issued[k]
    BY DEF Inv, Served
  <2>2. (issued[k] + 1) - 1 = issued[k]
    BY <1>3
  <2>3. released'[k] \subseteq 1 .. issued[k] /\ \A u \in released'[k] : Before(k, u)
    BY <1>5, <1>6, <1>8, <2>1
  <2>4. \A u \in released'[k] : \A v \in 1 .. (u - 1) : v \in released'[k]
    BY <1>7, <2>3
  <2>5. entry[k] = 0 => \A v \in 1 .. issued[k] : v \in released'[k]
    BY <1>7, <2>1, <2>2
  <2>6. CASE k = l
    <3>1. CASE entry[l] = t
      <4>1. t = issued[l]
        BY <1>8, <2>1, <2>6, <3>1
      <4>2. \A v \in 1 .. t : v \in 1 .. (t - 1) \/ v = t
        BY <1>3
      <4> QED BY <1>1, <1>6, <1>7, <1>8, <2>3, <2>4, <2>6, <3>1, <4>1, <4>2
    <3>2. CASE entry[l] # t
      BY <1>6, <2>1, <2>3, <2>4, <2>5, <2>6, <3>2
    <3> QED BY <3>1, <3>2
  <2>7. CASE k # l
    BY <1>5, <2>1, <2>3, <2>4, <2>5, <2>7
  <2> QED BY <2>6, <2>7
<1>10. Queued'
  <2> SUFFICES ASSUME NEW q \in Runs, q # r, place[q] \in AtLock
               PROVE  /\ ticket[q] \in 1 .. issued[Lock(q)]
                      /\ ticket[q] \notin released'[Lock(q)]
                      /\ behind[q] = 0 => \A v \in 1 .. (ticket[q] - 1) : v \in released'[Lock(q)]
                      /\ behind[q] # 0 => behind[q] = ticket[q] - 1
                      /\ place[q] = "holding" => \A v \in 1 .. (ticket[q] - 1) : v \in released'[Lock(q)]
    BY <1>1, <1>2, <1>4 DEF Queued, Before, AtLock
  <2>1. Lock(q) \in Locks
    BY TailType DEF Inv, TypeOK, Lock
  <2>2. ticket[q] \notin released'[Lock(q)]
    BY <1>1, <1>5, <1>6, <2>1 DEF Inv, Queued, Distinct
  <2> QED BY <1>7, <2>1, <2>2 DEF Inv, Queued
<1>11. Distinct'
  BY <1>1, <1>2, <1>4 DEF Inv, Distinct, AtLock
<1> QED BY <1>9, <1>10, <1>11

LEMMA LocksStep ==
  ASSUME Inv, [Next]_vars
  PROVE  Served' /\ Queued' /\ Distinct'
<1>1. CASE UNCHANGED vars
  BY <1>1, LocksAlone DEF vars
<1>2. ASSUME NEW r \in Runs, Step(r) PROVE Served' /\ Queued' /\ Distinct'
  <2>1. CASE Elsewhere(r)
    BY <2>1, ElsewhereLocks, LocksAlone
  <2> QED BY <1>2, <2>1, EnterLocks, AcquireLocks, ReleaseLocks DEF Step, Progress, Fault, Elsewhere
<1> QED BY <1>1, <1>2 DEF Next, Step


(***************************************************************************)
(* The files.  A step of run r writes only what is r's own, but for the    *)
(* index.                                                                  *)
(***************************************************************************)
Same(q) ==
  /\ record'[q] = record[q] /\ place'[q] = place[q] /\ verdict'[q] = verdict[q]
  /\ manifest'[q] = manifest[q] /\ log'[q] = log[q]
  /\ q \in caught' <=> q \in caught

LEMMA OthersSame ==
  ASSUME Inv, NEW r \in Runs, Step(r), NEW q \in Runs, q # r
  PROVE  Same(q)
<1> USE DEF Inv, TypeOK, Goes, Same, fileVars
<1>1. CASE Accept(r) \/ Cancel(r) \/ Begin(r) \/ BeginFails(r)
  BY <1>1 DEF Accept, Cancel, Begin, BeginFails, Ends
<1>2. CASE Enter(r) \/ Acquire(r) \/ Release(r)
  BY <1>2 DEF Enter, Acquire, Release
<1>3. CASE Finish(r) \/ Throw(r) \/ LockEventFails(r)
  BY <1>3 DEF Finish, Throw, LockEventFails, Catch
<1>4. CASE Record(r) \/ OpenIndex(r) \/ WriteIndex(r)
  BY <1>4 DEF Record, WriteManifest, WriteEvent, OpenIndex, WriteIndex, Ends
<1>5. CASE RecordFails(r) \/ ReadIndex(r) \/ WriteIndexFails(r)
  BY <1>5 DEF RecordFails, WriteManifest, WriteEvent, ReadIndex, WriteIndexFails, FinalizeThrows, Catch, Ends
<1> QED BY <1>1, <1>2, <1>3, <1>4, <1>5 DEF Step, Progress, Fault

LEMMA AppendLast ==
  \A s \in Seq(Verdicts), e \in Verdicts : Append(s, e) # <<>> /\ Last(Append(s, e)) = e
BY AppendProperties DEF Last

\* What an exception in finalize does, wherever finalize is.
LEMMA ThrowsWritten ==
  ASSUME Inv, NEW r \in Runs, place[r] \in {"closing", "reading", "writing"}, FinalizeThrows(r)
  PROVE  WrittenBy(r)'
<1>1. FailedOrCancelled(r) \in Verdicts \ {"passed"}
  BY FallbackType
<1>2. CASE r \in caught
  <2>1. record'[r] = FailedOrCancelled(r) /\ place'[r] = "ended" /\ UNCHANGED <<verdict, caught>>
    BY <1>2 DEF FinalizeThrows, Ends, Goes, Inv, TypeOK
  <2> QED BY <1>1, <2>1 DEF Inv, Written, WrittenBy, AtWork, None, Verdicts
<1>3. CASE r \notin caught
  <2>1. UNCHANGED record /\ place'[r] = "closing" /\ verdict'[r] = FailedOrCancelled(r)
    BY <1>3 DEF FinalizeThrows, Catch, Goes, Inv, TypeOK
  <2>2. record[r] # "passed"
    BY DEF Inv, Written, WrittenBy
  <2> QED BY <1>1, <2>1, <2>2 DEF WrittenBy, AtWork, None
<1> QED BY <1>2, <1>3

LEMMA WrittenStep ==
  ASSUME Inv, [Next]_vars
  PROVE  Written'
<1>1. CASE UNCHANGED vars
  BY <1>1 DEF Inv, vars, fileVars, Written, WrittenBy, Closed
<1>2. ASSUME NEW r \in Runs, Step(r) PROVE Written'
  <2>1. ASSUME NEW q \in Runs, q # r PROVE WrittenBy(q)'
    <3>1. Same(q) /\ WrittenBy(q)
      BY <1>2, <2>1, OthersSame DEF Inv, Written
    <3> QED BY <3>1 DEF Same, WrittenBy, Closed
  <2>2. WrittenBy(r)'
    <3>1. WrittenBy(r)
      BY DEF Inv, Written
    <3>2. FailedOrCancelled(r) \in Verdicts \ {"passed"}
      BY FallbackType
    <3> USE DEF Inv, TypeOK, Goes, fileVars, WrittenBy, Closed, AtWork, None
    <3>3. CASE Accept(r) \/ Cancel(r) \/ Begin(r)
      BY <3>1, <3>3 DEF Accept, Cancel, Begin
    <3>4. CASE BeginFails(r)
      BY <3>1, <3>2, <3>4 DEF BeginFails, Ends
    <3>5. CASE Enter(r) \/ Acquire(r) \/ Release(r)
      BY <3>1, <3>5 DEF Enter, Acquire, Release
    <3>6. CASE Finish(r)
      BY <3>1, <3>6 DEF Finish, Verdicts
    <3>7. CASE Throw(r) \/ LockEventFails(r)
      BY <3>1, <3>2, <3>7 DEF Throw, LockEventFails, Catch, AtLock
    <3>8. CASE Record(r)
      <4>1. verdict[r] \in Verdicts /\ log[r] \in Seq(Verdicts)
        BY <3>1, <3>8 DEF Record
      <4>2. Append(log[r], verdict[r]) # <<>> /\ Last(Append(log[r], verdict[r])) = verdict[r]
        BY ONLY <4>1, AppendLast
      <4>3. log'[r] = Append(log[r], verdict[r]) /\ manifest'[r] = verdict[r] /\ place'[r] = "reading"
            /\ UNCHANGED <<record, verdict, caught>> /\ place[r] = "closing"
        BY <3>8 DEF Record, WriteManifest, WriteEvent
      <4> QED BY <3>1, <4>1, <4>2, <4>3
    <3>9. CASE RecordFails(r) \/ WriteIndexFails(r) \/ (ReadIndex(r) /\ torn)
      <4>1. FinalizeThrows(r) /\ place[r] \in {"closing", "reading", "writing"}
        BY <3>9 DEF RecordFails, WriteIndexFails, ReadIndex
      <4> QED BY <4>1, ThrowsWritten
    <3>10. CASE (ReadIndex(r) /\ ~torn) \/ OpenIndex(r)
      BY <3>1, <3>10 DEF ReadIndex, OpenIndex
    <3>11. CASE WriteIndex(r)
      BY <3>1, <3>11 DEF WriteIndex, Ends
    <3> QED BY <1>2, <3>3, <3>4, <3>5, <3>6, <3>7, <3>8, <3>9, <3>10, <3>11 DEF Step, Progress, Fault
  <2> QED BY <2>1, <2>2 DEF Written
<1> QED BY <1>1, <1>2 DEF Next, Step

LEMMA InvStep == Inv /\ [Next]_vars => Inv'
BY TypeStep, LocksStep, WrittenStep DEF Inv

LEMMA Invariant == Spec => []Inv
<1>1. Init => Inv
  BY InitInv
<1> QED BY <1>1, InvStep, PTL DEF Spec

(***************************************************************************)
(* Every variable keeps its type.                                          *)
(***************************************************************************)
THEOREM ServeTypeCorrect == Spec => []TypeOK
<1>1. Inv => TypeOK
  BY DEF Inv
<1> QED BY <1>1, Invariant, PTL

(***************************************************************************)
(* withResourceLock serves a resource in the order in which runs asked.    *)
(***************************************************************************)
THEOREM LocksServedInTurn == Spec => []HeldInTurn
<1>1. Inv => HeldInTurn
  <2> SUFFICES ASSUME Inv, NEW r \in Runs, NEW q \in Runs, r # q, place[r] = "holding",
                      place[q] \in AtLock, Lock(q) = Lock(r)
               PROVE  ticket[r] < ticket[q] /\ place[q] = "waiting"
    BY DEF HeldInTurn
  <2>1. ticket[r] # ticket[q] /\ ticket[r] \in Nat /\ ticket[q] \in Nat
    BY DEF Inv, TypeOK, Distinct, AtLock
  <2>2. Before(Lock(r), ticket[r]) /\ ticket[r] \notin released[Lock(r)]
        /\ ticket[q] \notin released[Lock(r)] /\ ticket[q] \in 1 .. issued[Lock(q)]
        /\ ticket[r] \in 1 .. issued[Lock(r)]
    BY DEF Inv, Queued, AtLock
  <2>3. ~(ticket[q] < ticket[r])
    BY <2>1, <2>2 DEF Before
  <2>4. place[q] # "holding"
    <3>1. place[q] = "holding" => Before(Lock(r), ticket[q])
      BY DEF Inv, Queued, AtLock
    <3> QED BY <2>1, <2>2, <2>3, <3>1 DEF Before
  <2> QED BY <2>1, <2>3, <2>4 DEF AtLock
<1> QED BY <1>1, Invariant, PTL

(***************************************************************************)
(* Steps without a failed write.  Those that do not enter or release a     *)
(* lock leave every run that is at a lock there.                           *)
(***************************************************************************)
LEMMA NoFault ==
  ASSUME Inv, NEW r \in Runs, Step(r), faults' = 0
  PROVE  faults = 0 /\ ~Fault(r)
<1>1. faults \in Nat
  BY DEF Inv, TypeOK
<1>2. ~Fault(r)
  BY <1>1 DEF Fault, LockEventFails, RecordFails, WriteIndexFails
<1> QED BY <1>2 DEF Step, Progress, Accept, Cancel, Begin, BeginFails, Enter, Acquire,
           Release, Finish, Throw, Record, ReadIndex, OpenIndex, WriteIndex

LEMMA StayAtLock ==
  ASSUME Inv, NEW r \in Runs, Step(r), ~Fault(r), ~Enter(r), ~Release(r)
  PROVE  /\ UNCHANGED lockVars
         /\ \A q \in Runs : place[q] \in AtLock => place'[q] \in AtLock /\ left'[q] = left[q]
<1> USE DEF Inv, TypeOK, Goes, AtLock, lockVars, None
<1>1. CASE Accept(r) \/ Cancel(r) \/ Begin(r) \/ BeginFails(r) \/ Acquire(r)
  BY <1>1 DEF Accept, Cancel, Begin, BeginFails, Acquire, Ends
<1>2. CASE Finish(r) \/ Throw(r)
  BY <1>2 DEF Finish, Throw, Catch
<1>3. CASE Record(r) \/ OpenIndex(r) \/ WriteIndex(r)
  BY <1>3 DEF Record, OpenIndex, WriteIndex, Ends
<1>4. CASE ReadIndex(r)
  BY <1>4 DEF ReadIndex, FinalizeThrows, Catch, Ends
<1> QED BY <1>1, <1>2, <1>3, <1>4 DEF Step, Progress

(***************************************************************************)
(* Without a failed write no lock stays behind.                            *)
(***************************************************************************)
THEOREM NoLockLeftBehind == Spec => []NoLockLeft
<1>1. Init => NoLockLeft
  BY InitInv
<1>2. ASSUME Inv, NoLockLeft, [Next]_vars PROVE NoLockLeft'
  <2>1. CASE UNCHANGED vars
    BY <1>2, <2>1 DEF vars, lockVars, NoLockLeft, Lock
  <2>2. ASSUME NEW r \in Runs, Step(r), faults' = 0 PROVE NoLockLeft'
    <3>1. faults = 0 /\ ~Fault(r)
      BY <1>2, <2>2, NoFault
    <3>2. \A k \in Locks : entry[k] # 0 => \E q \in Runs : At(q, k) /\ ticket[q] = entry[k]
      BY <1>2, <3>1 DEF NoLockLeft, At
    <3>3. SUFFICES ASSUME NEW k \in Locks, entry'[k] # 0
                   PROVE  \E q \in Runs : At(q, k)' /\ ticket'[q] = entry'[k]
      BY DEF NoLockLeft, At
    <3>4. CASE Enter(r)
      <4>1. place[r] = "working" /\ place'[r] = "waiting" /\ Lock(r)' = Lock(r) /\ Lock(r) \in Locks
            /\ ticket'[r] = issued[Lock(r)] + 1 /\ entry' = [entry EXCEPT ![Lock(r)] = issued[Lock(r)] + 1]
        BY <1>2, <3>4, TailType DEF Enter, Goes, Inv, TypeOK, Lock
      <4>2. \A q \in Runs : q # r => place'[q] = place[q] /\ Lock(q)' = Lock(q) /\ ticket'[q] = ticket[q]
        BY <1>2, <3>4 DEF Enter, Goes, Inv, TypeOK, Lock
      <4>3. CASE k = Lock(r)
        BY <1>2, <4>1, <4>3 DEF At, AtLock, Inv, TypeOK
      <4>4. CASE k # Lock(r)
        <5>1. entry'[k] = entry[k]
          BY <1>2, <4>1, <4>4 DEF Inv, TypeOK
        <5>2. PICK q \in Runs : At(q, k) /\ ticket[q] = entry[k]
          BY <3>2, <3>3, <5>1
        <5>3. q # r
          BY <4>1, <5>2 DEF At, AtLock
        <5> QED BY <4>2, <5>1, <5>2, <5>3 DEF At
      <4> QED BY <4>3, <4>4
    <3>5. CASE Release(r)
      <4>1. entry' = [entry EXCEPT ![Lock(r)] = IF entry[Lock(r)] = ticket[r] THEN 0 ELSE entry[Lock(r)]]
            /\ UNCHANGED ticket
        BY <3>5 DEF Release, AfterRelease
      <4>2. \A q \in Runs : q # r => place'[q] = place[q] /\ Lock(q)' = Lock(q)
        BY <1>2, <3>5 DEF Release, Goes, Inv, TypeOK, Lock
      <4>3. entry'[k] = entry[k] /\ (k = Lock(r) => entry[k] # ticket[r])
        BY <1>2, <3>3, <4>1 DEF Inv, TypeOK
      <4>4. PICK q \in Runs : At(q, k) /\ ticket[q] = entry[k]
        BY <3>2, <3>3, <4>3
      <4>5. q # r
        BY <4>3, <4>4 DEF At
      <4> QED BY <4>1, <4>2, <4>3, <4>4, <4>5 DEF At
    <3>6. CASE ~Enter(r) /\ ~Release(r)
      <4>1. UNCHANGED <<entry, ticket>> /\ \A q \in Runs : place[q] \in AtLock =>
              place'[q] \in AtLock /\ left'[q] = left[q]
        BY <1>2, <2>2, <3>1, <3>6, StayAtLock DEF lockVars
      <4>2. PICK q \in Runs : At(q, k) /\ ticket[q] = entry[k]
        BY <3>2, <3>3, <4>1
      <4> QED BY <4>1, <4>2 DEF At, Lock
    <3> QED BY <3>4, <3>5, <3>6
  <2>3. (\E r \in Runs : Step(r)) /\ faults' # 0 => NoLockLeft'
    BY DEF NoLockLeft
  <2> QED BY <1>2, <2>1, <2>2, <2>3 DEF Next, Step
<1> QED BY <1>1, <1>2, Invariant, PTL DEF Spec

(***************************************************************************)
(* The locks are a LockQueue.                                              *)
(***************************************************************************)
LEMMA QueueInit == Init => Queue!Init
<1> SUFFICES ASSUME Init PROVE Queue!Init
  OBVIOUS
<1>1. \A r \in Runs : place[r] \notin AtLock /\ place[r] # "holding"
  BY DEF Init, AtLock, None
<1>2. LockOf = [r \in Runs |-> {}] /\ AheadOf = [r \in Runs |-> {}]
  BY <1>1 DEF LockOf, AheadOf, At
<1>3. Holders = {}
  BY <1>1 DEF Holders
<1> QED BY <1>2, <1>3 DEF Queue!Init

\* Who is at a lock is at one of the locks, and at one only.
LEMMA AtOneLock ==
  ASSUME Inv, NEW r \in Runs
  PROVE  /\ \A l : At(r, l) => l \in Locks /\ LockOf[r] = {l}
         /\ LockOf[r] = {} <=> place[r] \notin AtLock
<1>1. place[r] \in AtLock => Lock(r) \in Locks
  BY TailType DEF Inv, TypeOK, Lock
<1> QED BY <1>1 DEF LockOf, At

\* A step that moves nobody to a lock or from it.
LEMMA QueueAlone ==
  ASSUME UNCHANGED ticket,
         \A q \in Runs : \/ place'[q] = place[q] /\ left'[q] = left[q]
                         \/ place[q] \notin AtLock /\ place'[q] \notin AtLock
  PROVE  UNCHANGED Queue!vars
<1>1. \A q \in Runs : \A l : At(q, l)' <=> At(q, l)
  BY DEF At, Lock
<1>2. Holders' = Holders
  BY DEF Holders, AtLock
<1>3. LockOf' = LockOf
  BY <1>1 DEF LockOf
<1>4. AheadOf' = AheadOf
  BY <1>1 DEF AheadOf
<1> QED BY <1>2, <1>3, <1>4 DEF Queue!vars

\* A run that leaves a lock, however it leaves it.
LEMMA QueueLeft ==
  ASSUME Inv, NEW r \in Runs, place[r] \in AtLock, place'[r] \notin AtLock, UNCHANGED ticket,
         \A q \in Runs \ {r} : place'[q] = place[q] /\ left'[q] = left[q]
  PROVE  Queue!Leave(r)
<1>1. /\ \A q \in Runs \ {r} : \A l : At(q, l)' <=> At(q, l)
      /\ \A l : ~At(r, l)'
  BY DEF At, Lock
<1>2. LockOf[r] # {} /\ LockOf' = [LockOf EXCEPT ![r] = {}]
  <2>1. LockOf[r] # {}
    BY AtOneLock
  <2>2. \A q \in Runs : LockOf'[q] = IF q = r THEN {} ELSE LockOf[q]
    BY <1>1 DEF LockOf
  <2> QED BY <2>1, <2>2 DEF LockOf
<1>3. Holders' = Holders \ {r}
  BY DEF Holders, AtLock
<1>4. AheadOf' = [q \in Runs |-> IF q = r THEN {} ELSE AheadOf[q] \ {r}]
  <2>1. \A q \in Runs : AheadOf'[q] = IF q = r THEN {} ELSE AheadOf[q] \ {r}
    BY <1>1 DEF AheadOf
  <2> QED BY <2>1 DEF AheadOf
<1> QED BY <1>2, <1>3, <1>4 DEF Queue!Leave

\* A run that takes its lock: whoever is ahead of it would hold a ticket that is
\* resolved.
LEMMA QueueTaken ==
  ASSUME Inv, NEW r \in Runs, Acquire(r)
  PROVE  Queue!Take(r)
<1>1. place[r] = "waiting" /\ place \in [Runs -> Places] /\ place' = [place EXCEPT ![r] = "holding"]
      /\ UNCHANGED <<ticket, left>>
  BY DEF Acquire, Goes, lockVars, Inv, TypeOK
<1>2. At(r, Lock(r)) /\ LockOf[r] # {} /\ r \notin Holders
  BY <1>1, AtOneLock DEF At, AtLock, Holders
<1>3. \A q \in Runs : \A l : At(q, l)' <=> At(q, l)
  BY <1>1 DEF At, Lock, AtLock
<1>4. LockOf' = LockOf /\ AheadOf' = AheadOf
  BY <1>1, <1>3 DEF LockOf, AheadOf
<1>5. Holders' = Holders \cup {r}
  BY <1>1 DEF Holders
<1>6. AheadOf[r] = {}
  <2> SUFFICES ASSUME NEW q \in Runs, At(q, Lock(r)), ticket[q] < ticket[r] PROVE FALSE
    BY <1>2 DEF AheadOf, At
  <2>1. Before(Lock(r), ticket[r])
    BY TurnTaken
  <2>2. ticket[q] \in 1 .. issued[Lock(r)] /\ ticket[q] \notin released[Lock(r)]
    BY DEF Inv, Queued, At
  <2>3. ticket[r] \in Nat /\ issued[Lock(r)] \in Nat
    BY <1>2, AtOneLock DEF Inv, TypeOK
  <2> QED BY <2>1, <2>2, <2>3 DEF Before
<1> QED BY <1>2, <1>4, <1>5, <1>6 DEF Queue!Take

\* A run that asks for a lock gets a ticket above those of all who are there.
LEMMA QueueJoined ==
  ASSUME Inv, NEW r \in Runs, Enter(r)
  PROVE  Lock(r) \in Locks /\ Queue!Ask(r, Lock(r))
<1> DEFINE l == Lock(r)
<1>1. l \in Locks /\ place[r] = "working" /\ place \in [Runs -> Places]
      /\ place' = [place EXCEPT ![r] = "waiting"]
      /\ ticket' = [ticket EXCEPT ![r] = issued[l] + 1] /\ ticket \in [Runs -> Nat]
      /\ issued[l] \in Nat /\ left' = left
  BY TailType DEF Inv, TypeOK, Enter, Goes, Lock
<1>2. /\ \A q \in Runs \ {r} : \A k : At(q, k)' <=> At(q, k)
      /\ \A k : ~At(r, k) /\ (At(r, k)' <=> k = l)
  BY <1>1 DEF At, Lock, AtLock
<1>3. \A q \in Runs \ {r} : At(q, l) => ticket[q] <= issued[l]
  BY <1>1 DEF Inv, Queued, At
<1>4. /\ ticket'[r] = issued[l] + 1
      /\ \A q \in Runs \ {r} : ticket'[q] = ticket[q] /\ ticket[q] \in Nat
  BY <1>1
<1> HIDE DEF l
<1>5. LockOf[r] = {} /\ LockOf' = [LockOf EXCEPT ![r] = {l}]
  BY <1>1, <1>2 DEF LockOf
<1>6. Holders' = Holders
  BY <1>1 DEF Holders
<1>7. \A q \in Runs : AheadOf'[q] = IF q = r THEN {x \in Runs : l \in LockOf[x]} ELSE AheadOf[q]
  <2>1. AheadOf'[r] = {x \in Runs : l \in LockOf[x]}
    <3>1. \A x \in Runs : x \in AheadOf'[r] <=> x # r /\ At(x, l)
      BY <1>1, <1>2, <1>3, <1>4 DEF AheadOf
    <3>2. \A x \in Runs : l \in LockOf[x] <=> x # r /\ At(x, l)
      BY <1>1, <1>2 DEF LockOf
    <3> QED BY <3>1, <3>2 DEF AheadOf
  <2>2. ASSUME NEW q \in Runs \ {r} PROVE AheadOf'[q] = AheadOf[q]
    <3>1. \A x \in Runs : x \in AheadOf'[q] <=> x \in AheadOf[q]
      BY <1>1, <1>2, <1>3, <1>4 DEF AheadOf
    <3> QED BY <3>1 DEF AheadOf
  <2> QED BY <2>1, <2>2
<1>8. AheadOf' = [AheadOf EXCEPT ![r] = {x \in Runs : l \in LockOf[x]}]
  BY <1>7 DEF AheadOf
<1> QED BY <1>1, <1>5, <1>6, <1>8 DEF Queue!Ask, l

LEMMA QueueStep ==
  ASSUME Inv, [Next]_vars
  PROVE  [Queue!Next]_(Queue!vars)
<1>1. CASE UNCHANGED vars
  BY <1>1, QueueAlone DEF vars, lockVars
<1>2. ASSUME NEW r \in Runs, Enter(r) PROVE Queue!Next
  BY <1>2, QueueJoined DEF Queue!Next
<1>3. ASSUME NEW r \in Runs, Acquire(r) PROVE Queue!Next
  BY <1>3, QueueTaken DEF Queue!Next
<1>4. ASSUME NEW r \in Runs, Release(r) \/ LockEventFails(r) PROVE Queue!Next
  <2>1. place[r] \in AtLock /\ place'[r] \notin AtLock /\ UNCHANGED ticket
        /\ \A q \in Runs \ {r} : place'[q] = place[q] /\ left'[q] = left[q]
    BY <1>4 DEF Release, LockEventFails, Catch, Goes, lockVars, AtLock, Inv, TypeOK
  <2> QED BY <2>1, QueueLeft DEF Queue!Next
<1>5. ASSUME NEW r \in Runs, Elsewhere(r), ~LockEventFails(r) PROVE UNCHANGED Queue!vars
  <2>1. UNCHANGED ticket
    BY <1>5, ElsewhereLocks DEF lockVars
  <2>2. \A q \in Runs : \/ place'[q] = place[q] /\ left'[q] = left[q]
                        \/ place[q] \notin AtLock /\ place'[q] \notin AtLock
    <3>1. ASSUME NEW q \in Runs, q # r PROVE place'[q] = place[q] /\ left'[q] = left[q]
      BY <1>5, <3>1, OthersStay
    <3>2. Cancel(r) \/ place[r] \notin AtLock
      BY <1>5 DEF Elsewhere, Accept, Begin, BeginFails, Finish, Throw, Record, RecordFails, ReadIndex,
                  OpenIndex, WriteIndex, WriteIndexFails, AtLock, None
    <3>3. Cancel(r) => UNCHANGED <<place, left>>
      BY DEF Cancel
    <3> QED BY <1>5, <3>1, <3>2, <3>3, ElsewhereLocks
  <2> QED BY <2>1, <2>2, QueueAlone
<1> QED BY <1>1, <1>2, <1>3, <1>4, <1>5 DEF Next, Progress, Fault, Elsewhere

\* withResourceLock serves a resource like a queue that nobody jumps, for any number
\* of runs and locks, whichever of its events cannot be written.
THEOREM ServeRunsImplementLockQueue == Spec => ImplementsLockQueue
BY QueueInit, QueueStep, Invariant, PTL DEF Spec, ImplementsLockQueue, Queue!Spec

(***************************************************************************)
(* Nobody waits for nothing.  While no write has failed every promise that *)
(* is not resolved is that of a run at the lock; so somebody is at the     *)
(* head of the queue, and holds the lock or may take it.                   *)
(***************************************************************************)
Attended(l) ==
  \A t \in (1 .. issued[l]) \ released[l] : \E q \in Runs : At(q, l) /\ ticket[q] = t

AllAttended == faults = 0 => \A l \in Locks : Attended(l)

MayGoOn(q) ==
  place[q] = "holding" \/ behind[q] = 0 \/ behind[q] \in released[Lock(q)]

\* A run that waits and is not stranded waits for a run at the same lock, itself
\* or one that queued before it, which holds the lock or may take it.
TurnComes ==
  \A r \in Runs : place[r] = "waiting" /\ ~Stranded(r) =>
    \E q \in Runs : At(q, Lock(r)) /\ ticket[q] <= ticket[r] /\ MayGoOn(q)

LEMMA LeastNatural ==
  ASSUME NEW T \in SUBSET Nat, T # {}
  PROVE  \E n \in T : \A m \in T : n <= m
<1> DEFINE R == {ss \in Nat \X Nat : ss[1] < ss[2]}
<1>1. IsWellFoundedOn(R, Nat)
  BY NatLessThanWellFounded DEF OpToRel
<1>2. PICK n \in T : \A m \in T : ~ (<<m, n>> \in R)
  <2> HIDE DEF R
  <2> QED BY <1>1, WFMin
<1>3. ASSUME NEW m \in T PROVE n <= m
  <2>1. <<m, n>> \in Nat \X Nat /\ ~ (<<m, n>> \in R)
    BY <1>2
  <2>2. ~ (<<m, n>>[1] < <<m, n>>[2])
    BY <2>1
  <2> QED BY <2>2
<1> QED BY <1>3

LEMMA AttendedStep ==
  ASSUME Inv, AllAttended, [Next]_vars
  PROVE  AllAttended'
<1>1. CASE UNCHANGED vars
  BY <1>1 DEF vars, lockVars, AllAttended, Attended, At, Lock
<1>2. ASSUME NEW r \in Runs, Step(r), faults' = 0, NEW k \in Locks,
             NEW t \in 1 .. issued'[k], t \notin released'[k]
      PROVE  \E q \in Runs : At(q, k)' /\ ticket'[q] = t
  <2>1. faults = 0 /\ ~Fault(r)
    BY <1>2, NoFault
  <2>2. \A u \in 1 .. issued[k] : u \notin released[k] => \E q \in Runs : At(q, k) /\ ticket[q] = u
    BY <2>1 DEF AllAttended, Attended
  <2>3. CASE Enter(r)
    <3>1. place[r] = "working" /\ place'[r] = "waiting" /\ Lock(r)' = Lock(r) /\ Lock(r) \in Locks
          /\ ticket'[r] = issued[Lock(r)] + 1 /\ issued' = [issued EXCEPT ![Lock(r)] = @ + 1]
          /\ released' = released
      BY <2>3, TailType DEF Enter, Goes, Inv, TypeOK, Lock
    <3>2. \A q \in Runs : q # r => place'[q] = place[q] /\ Lock(q)' = Lock(q) /\ ticket'[q] = ticket[q]
      BY <2>3 DEF Enter, Goes, Inv, TypeOK, Lock
    <3>3. CASE k = Lock(r) /\ t = issued[k] + 1
      BY <3>1, <3>3 DEF At, AtLock
    <3>4. CASE ~(k = Lock(r) /\ t = issued[k] + 1)
      <4>1. t \in 1 .. issued[k] /\ t \notin released[k]
        BY <1>2, <3>1, <3>4 DEF Inv, TypeOK
      <4>2. PICK q \in Runs : At(q, k) /\ ticket[q] = t
        BY <2>2, <4>1
      <4>3. q # r
        BY <3>1, <4>2 DEF At, AtLock
      <4> QED BY <3>2, <4>2, <4>3 DEF At
    <3> QED BY <3>3, <3>4
  <2>4. CASE Release(r)
    <3>1. place[r] = "holding" /\ Lock(r) \in Locks /\ UNCHANGED <<issued, ticket>>
          /\ released' = [released EXCEPT ![Lock(r)] = @ \cup {ticket[r]}]
      BY <2>4, TailType DEF Release, Goes, Inv, TypeOK, Lock, AtLock
    <3>2. \A q \in Runs : q # r => place'[q] = place[q] /\ Lock(q)' = Lock(q)
      BY <2>4 DEF Release, Goes, Inv, TypeOK, Lock
    <3>3. t \in 1 .. issued[k] /\ t \notin released[k] /\ (k = Lock(r) => t # ticket[r])
      BY <1>2, <3>1 DEF Inv, TypeOK
    <3>4. PICK q \in Runs : At(q, k) /\ ticket[q] = t
      BY <2>2, <3>3
    <3>5. q # r
      BY <3>3, <3>4 DEF At
    <3> QED BY <3>1, <3>2, <3>4, <3>5 DEF At
  <2>5. CASE ~Enter(r) /\ ~Release(r)
    <3>1. UNCHANGED lockVars /\ \A q \in Runs : place[q] \in AtLock =>
            place'[q] \in AtLock /\ left'[q] = left[q]
      BY <1>2, <2>1, <2>5, StayAtLock
    <3>2. PICK q \in Runs : At(q, k) /\ ticket[q] = t
      BY <1>2, <2>2, <3>1 DEF lockVars
    <3> QED BY <3>1, <3>2 DEF At, Lock, lockVars
  <2> QED BY <2>3, <2>4, <2>5
<1>3. ASSUME NEW r \in Runs, Step(r) PROVE AllAttended'
  BY <1>2, <1>3 DEF AllAttended, Attended
<1> QED BY <1>1, <1>3 DEF Next, Step

\* Who has the least promise that is not resolved may go on.
LEMMA HeadGoesOn ==
  ASSUME Inv, NEW l \in Locks, NEW q \in Runs, At(q, l), Before(l, ticket[q])
  PROVE  MayGoOn(q)
<1>1. ticket[q] \in Nat /\ behind[q] \in Nat
  BY DEF Inv, TypeOK
<1>2. behind[q] # 0 => behind[q] = ticket[q] - 1
  BY DEF Inv, Queued, At
<1>3. behind[q] # 0 => behind[q] \in 1 .. (ticket[q] - 1)
  BY <1>1, <1>2
<1> QED BY <1>3 DEF Before, MayGoOn, At

LEMMA SomebodyGoesOn == Inv /\ AllAttended => TurnComes
<1> SUFFICES ASSUME Inv, AllAttended, NEW r \in Runs, place[r] = "waiting", ~Stranded(r)
             PROVE  \E q \in Runs : At(q, Lock(r)) /\ ticket[q] <= ticket[r] /\ MayGoOn(q)
  BY DEF TurnComes
<1> DEFINE l == Lock(r)
           Open == {t \in 1 .. ticket[r] : t \notin released[l]}
<1>1. l \in Locks /\ At(r, l)
  BY TailType DEF Inv, TypeOK, Lock, At, AtLock
<1>2. ticket[r] \in 1 .. issued[l] /\ ticket[r] \notin released[l] /\ issued[l] \in Nat
  BY <1>1 DEF Inv, Queued, TypeOK, At
<1>3. \A t \in Open : \E q \in Runs : At(q, l) /\ ticket[q] = t
  <2> SUFFICES ASSUME NEW t \in Open, t # ticket[r] PROVE \E q \in Runs : At(q, l) /\ ticket[q] = t
    BY <1>1
  <2>1. t \in 1 .. issued[l] /\ t \notin released[l] /\ t < ticket[r]
    BY <1>2
  <2>2. CASE faults = 0
    BY <1>1, <2>1, <2>2 DEF AllAttended, Attended
  <2>3. CASE faults # 0
    <3>1. faults > 0
      BY <2>3 DEF Inv, TypeOK
    <3>2. t \notin Abandoned(l)
      BY <2>1, <3>1 DEF Stranded
    <3> QED BY <2>1, <3>2 DEF Abandoned, At
  <2> QED BY <2>2, <2>3
<1>4. PICK n \in Open : \A m \in Open : n <= m
  <2>1. Open \in SUBSET Nat /\ ticket[r] \in Open
    BY <1>2
  <2> HIDE DEF Open
  <2> QED BY <2>1, LeastNatural
<1>5. PICK q \in Runs : At(q, l) /\ ticket[q] = n
  BY <1>3, <1>4
<1>6. Before(l, ticket[q])
  BY <1>2, <1>4, <1>5 DEF Before
<1> QED BY <1>1, <1>4, <1>5, <1>6, HeadGoesOn

\* Nobody waits for nothing, whatever clients cancel and however many runs and
\* locks there are.
THEOREM NobodyWaitsForNothing == Spec => []TurnComes
<1>1. Init => AllAttended
  BY DEF Init, AllAttended, Attended
<1> QED BY <1>1, InitInv, InvStep, AttendedStep, SomebodyGoesOn, PTL DEF Spec

(***************************************************************************)
(* The verdict that clients poll is the one that the run has recorded.     *)
(***************************************************************************)
\* An ended run that has a passed manifest, and no write has failed.
Polled(r) ==
  place[r] = "ended" /\ manifest[r] = "passed" /\ faults = 0 =>
    record[r] = "passed" \/ r \in aborted

THEOREM VerdictsAreRecorded == Spec => []PassedIsRecorded
<1> DEFINE Told == \A r \in Runs : Polled(r)
<1>1. Init => Told
  BY DEF Init, Polled, None
<1>2. ASSUME Inv, Told, [Next]_vars PROVE Told'
  <2>1. CASE UNCHANGED vars
    BY <1>2, <2>1 DEF vars, fileVars, Polled
  <2>2. ASSUME NEW r \in Runs, Step(r) PROVE Told'
    <3>0. faults' = 0 => faults = 0 /\ ~Fault(r)
      <4>1. faults \in Nat
        BY <1>2 DEF Inv, TypeOK
      <4>2. ~Fault(r) => faults' = faults
        BY <2>2 DEF Step, Progress, Accept, Cancel, Begin, BeginFails, Enter, Acquire,
           Release, Finish, Throw, Record, ReadIndex, OpenIndex, WriteIndex
      <4> QED BY <4>1, <4>2 DEF Fault, LockEventFails, RecordFails, WriteIndexFails
    <3>1. aborted \subseteq aborted'
      BY <2>2 DEF Step, Progress, Fault, Accept, Cancel, Begin, BeginFails, Enter, Acquire, Release,
         Finish, Throw, Record, ReadIndex, OpenIndex, WriteIndex, LockEventFails, RecordFails, WriteIndexFails
    <3>2. ASSUME NEW q \in Runs, q # r PROVE Polled(q)'
      BY <1>2, <2>2, <3>0, <3>1, <3>2, OthersSame DEF Same, Polled
    <3>3. Polled(r)'
      <4> SUFFICES ASSUME place'[r] = "ended", manifest'[r] = "passed", faults' = 0
                   PROVE  record'[r] = "passed" \/ r \in aborted'
        BY DEF Polled
      <4>1. WrittenBy(r) /\ Polled(r)
        BY <1>2 DEF Inv, Written
      <4> USE DEF Inv, TypeOK, Goes
      <4>2. CASE Accept(r) \/ Begin(r) \/ Finish(r) \/ Throw(r) \/ Record(r) \/ OpenIndex(r)
        BY <1>2, <4>2 DEF Accept, Begin, Finish, Throw, Catch, Record, OpenIndex
      <4>3. CASE Enter(r) \/ Acquire(r) \/ Release(r)
        BY <1>2, <4>3 DEF Enter, Acquire, Release
      <4>4. CASE Cancel(r)
        BY <1>2, <4>4 DEF Cancel
      <4>5. CASE BeginFails(r)
        BY <4>1, <4>5 DEF BeginFails, fileVars, WrittenBy, AtWork, None
      <4>6. CASE ReadIndex(r)
        <5>1. r \in caught /\ manifest[r] = "passed" /\ place[r] = "reading"
          BY <1>2, <4>6 DEF ReadIndex, FinalizeThrows, Catch
        <5> QED BY <4>1, <5>1 DEF WrittenBy, Closed
      <4>7. CASE WriteIndex(r)
        BY <1>2, <4>1, <4>7 DEF WriteIndex, Ends, WrittenBy, Closed
      <4> QED BY <2>2, <3>0, <4>2, <4>3, <4>4, <4>5, <4>6, <4>7 DEF Step, Progress
    <3> QED BY <3>2, <3>3
  <2> QED BY <2>1, <2>2, <1>2 DEF Next, Step
<1>3. Inv /\ Told => PassedIsRecorded
  BY DEF Inv, Written, WrittenBy, Closed, Polled, PassedIsRecorded
<1> QED BY <1>1, <1>2, <1>3, InitInv, InvStep, PTL DEF Spec

(***************************************************************************)
(* A cancelled run is doomed: from the cancellation on, whatever its       *)
(* command returns, no verdict that is still to be written is a pass.      *)
(***************************************************************************)
Doomed(r) ==
  /\ r \in aborted /\ place[r] # None /\ record[r] # "passed"
  /\ place[r] \in AtWork \/ verdict[r] # "passed"

LEMMA DoomedStep ==
  ASSUME Inv, [Next]_vars, NEW r \in Runs, Doomed(r)
  PROVE  Doomed(r)'
<1>1. CASE UNCHANGED vars
  BY <1>1 DEF vars, Doomed
<1>2. ASSUME NEW q \in Runs, Step(q) PROVE Doomed(r)'
  <2>1. aborted \subseteq aborted'
    BY <1>2 DEF Step, Progress, Fault, Accept, Cancel, Begin, BeginFails, Enter, Acquire, Release,
       Finish, Throw, Record, ReadIndex, OpenIndex, WriteIndex, LockEventFails, RecordFails, WriteIndexFails
  <2>2. CASE q # r
    BY <1>2, <2>1, <2>2, OthersSame DEF Same, Doomed
  <2>3. CASE q = r
    <3>1. WrittenBy(r) /\ FailedOrCancelled(r) \in Verdicts \ {"passed"}
      BY FallbackType DEF Inv, Written
    <3> USE DEF Inv, TypeOK, Goes, Doomed, AtWork, AtLock, None
    <3>2. CASE Accept(r) \/ Cancel(r) \/ Begin(r)
      BY <2>1, <3>1, <3>2 DEF Accept, Cancel, Begin, WrittenBy
    <3>3. CASE BeginFails(r)
      BY <2>1, <3>1, <3>3 DEF BeginFails, Ends, WrittenBy
    <3>4. CASE Enter(r) \/ Acquire(r) \/ Release(r)
      BY <2>1, <3>4 DEF Enter, Acquire, Release
    <3>5. CASE Finish(r)
      BY <2>1, <3>5 DEF Finish
    <3>6. CASE Throw(r) \/ LockEventFails(r)
      BY <2>1, <3>1, <3>6 DEF Throw, LockEventFails, Catch
    <3>7. CASE Record(r) \/ OpenIndex(r)
      BY <2>1, <3>7 DEF Record, OpenIndex
    <3>8. CASE RecordFails(r) \/ WriteIndexFails(r) \/ ReadIndex(r)
      BY <2>1, <3>1, <3>8 DEF RecordFails, WriteIndexFails, ReadIndex, FinalizeThrows, Catch, Ends
    <3>9. CASE WriteIndex(r)
      BY <2>1, <3>9 DEF WriteIndex, Ends
    <3> QED BY <1>2, <2>3, <3>2, <3>3, <3>4, <3>5, <3>6, <3>7, <3>8, <3>9 DEF Step, Progress, Fault
  <2> QED BY <2>2, <2>3
<1> QED BY <1>1, <1>2 DEF Next, Step

\* A run that is cancelled before its command has returned never passes.
THEOREM CancelledRunsNeverPass == Spec => CancelledNeverPasses
<1>1. ASSUME NEW r \in Runs
      PROVE  Spec => [](r \in aborted /\ place[r] \in AtWork => [](record[r] # "passed"))
  <2>1. Inv /\ r \in aborted /\ place[r] \in AtWork => Doomed(r)
    BY DEF Inv, Written, WrittenBy, Doomed, AtWork, None
  <2>2. Inv /\ Doomed(r) /\ [Next]_vars => Doomed(r)'
    BY DoomedStep
  <2>3. Doomed(r) => record[r] # "passed"
    BY DEF Doomed
  <2> QED BY <2>1, <2>2, <2>3, Invariant, PTL DEF Spec
<1> QED BY <1>1 DEF CancelledNeverPasses

=============================================================================
