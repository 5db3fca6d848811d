----------------------------- MODULE ServeRuns -----------------------------
(***************************************************************************)
(* vos serve: the runs of one server process, from the request that        *)
(* accepts one (vos-server/src/index.ts) through executeVosCommand to the  *)
(* files it leaves (EvidenceWriter, the evidence index), and the locks in  *)
(* which its builds and QEMU sessions queue (runtime/locks.ts).            *)
(*                                                                         *)
(* The runs share one event loop: what happens between two awaits is one   *)
(* action.  A run takes its locks one after the other, never one inside    *)
(* another; `left` is what it still has to take.                           *)
(***************************************************************************)
EXTENDS Naturals, Sequences, SequencesExt

CONSTANTS
  Runs,       \* the runs the server may accept
  Locks,      \* the resources: build:<root>, qemu:<profile>
  Plans,      \* the sequences of locks a command may take
  MaxFaults   \* bound on the writes to disk that fail

ASSUME PlansAssumption == Plans \subseteq Seq(Locks)
ASSUME FaultsAssumption == MaxFaults \in Nat

VARIABLES
  record,     \* record[r]: run.status in the registry, which clients poll
  aborted,    \* the runs whose AbortController has fired
  place,      \* place[r]: where the promise of run r is
  left,       \* left[r]: the locks it is still to take, the current one first
  issued,     \* issued[l]: how many promises `current` were made for lock l
  released,   \* released[l]: those of them that are resolved
  entry,      \* entry[l]: the last one made, if `queues` has an entry; or 0
  ticket,     \* ticket[r]: the one that run r made for the lock it is at
  behind,     \* behind[r]: the one that its `previous` waits for; or 0
  verdict,    \* verdict[r]: the status that finalize is called with
  caught,     \* the runs in the catch block of executeVosCommand
  manifest,   \* manifest[r]: the status in manifest.json
  log,        \* log[r]: the closing events in events.jsonl
  mine,       \* mine[r]: the runs of the index that r is about to write
  index,      \* the runs in .vos/index/evidence.json
  torn,       \* that file is open for writing and empty: it does not parse
  faults      \* how many writes have failed

lockVars == <<issued, released, entry, ticket, behind>>
fileVars == <<manifest, log, mine, index, torn>>
vars == <<record, aborted, place, left, lockVars, verdict, caught, fileVars,
          faults>>

(* "failed" stands for every status but the other two.                     *)
Verdicts == {"passed", "failed", "cancelled"}
None == "none"
AtWork == {"starting", "working", "waiting", "holding"}
AtLock == {"waiting", "holding"}
Places == {None, "ended", "closing", "reading", "opening", "writing"} \cup AtWork

Lock(r) == Head(left[r])
Goes(r, p) == place' = [place EXCEPT ![r] = p]
Ends(r, s) == Goes(r, "ended") /\ record' = [record EXCEPT ![r] = s]

(* The status of a run whose command threw or whose promise fails.         *)
FailedOrCancelled(r) == IF r \in aborted THEN "cancelled" ELSE "failed"

Init ==
  /\ record = [r \in Runs |-> None]
  /\ aborted = {}
  /\ place = [r \in Runs |-> None]
  /\ left = [r \in Runs |-> <<>>]
  /\ issued = [l \in Locks |-> 0]
  /\ released = [l \in Locks |-> {}]
  /\ entry = [l \in Locks |-> 0]
  /\ ticket = [r \in Runs |-> 0]
  /\ behind = [r \in Runs |-> 0]
  /\ verdict = [r \in Runs |-> None]
  /\ caught = {}
  /\ manifest = [r \in Runs |-> None]
  /\ log = [r \in Runs |-> <<>>]
  /\ mine = [r \in Runs |-> {}]
  /\ index = {}
  /\ torn = FALSE
  /\ faults = 0

-----------------------------------------------------------------------------
(* Requests of clients, and how a run starts.                              *)

Accept(r) ==
  /\ place[r] = None
  /\ Goes(r, "starting")
  /\ record' = [record EXCEPT ![r] = "running"]
  /\ \E plan \in Plans : left' = [left EXCEPT ![r] = plan]
  /\ UNCHANGED <<aborted, lockVars, verdict, caught, fileVars, faults>>

(* The registry says cancelled whatever it said before.                    *)
Cancel(r) ==
  /\ place[r] # None
  /\ aborted' = aborted \cup {r}
  /\ record' = [record EXCEPT ![r] = "cancelled"]
  /\ UNCHANGED <<place, left, lockVars, verdict, caught, fileVars, faults>>

(* Authorisation, the run's directory, run_started, the first manifest.    *)
Begin(r) ==
  /\ place[r] = "starting"
  /\ Goes(r, "working")
  /\ manifest' = [manifest EXCEPT ![r] = "partial"]
  /\ UNCHANGED <<record, aborted, left, lockVars, verdict, caught, log, mine,
                 index, torn, faults>>

(* An exception before the try block: the promise is rejected.             *)
BeginFails(r) ==
  /\ place[r] = "starting"
  /\ Ends(r, FailedOrCancelled(r))
  /\ UNCHANGED <<aborted, left, lockVars, verdict, caught, fileVars, faults>>

-----------------------------------------------------------------------------
(* withResourceLock.                                                       *)

Enter(r) ==
  /\ place[r] = "working"
  /\ left[r] # <<>>
  /\ Goes(r, "waiting")
  /\ LET l == Lock(r) IN
     /\ issued' = [issued EXCEPT ![l] = @ + 1]
     /\ ticket' = [ticket EXCEPT ![r] = issued[l] + 1]
     /\ behind' = [behind EXCEPT ![r] = entry[l]]
     /\ entry' = [entry EXCEPT ![l] = issued[l] + 1]
  /\ UNCHANGED <<record, aborted, left, released, verdict, caught, fileVars,
                 faults>>

Acquire(r) ==
  /\ place[r] = "waiting"
  /\ behind[r] = 0 \/ behind[r] \in released[Lock(r)]
  /\ Goes(r, "holding")
  /\ UNCHANGED <<record, aborted, left, lockVars, verdict, caught, fileVars,
                 faults>>

(* Slip: a cancelled run leaves without release().                         *)
Release_NotCancelled(r) ==
  /\ place[r] = "holding"
  /\ Goes(r, "working")
  /\ left' = [left EXCEPT ![r] = Tail(@)]
  /\ IF r \in aborted
       THEN UNCHANGED <<released, entry>>
       ELSE LET l == Lock(r) IN
            /\ released' = [released EXCEPT ![l] = @ \cup {ticket[r]}]
            /\ entry' = [entry EXCEPT ![l] = IF @ = ticket[r] THEN 0 ELSE @]
  /\ UNCHANGED <<record, aborted, issued, ticket, behind, verdict, caught,
                 fileVars, faults>>

(* Slip: the entry of the queue is deleted although others queue behind.   *)
AfterRelease_Deletes(l, t) == 0

(* The entry is deleted if it is this run's: nobody has queued behind it.  *)
AfterRelease(l, t) == IF entry[l] = t THEN 0 ELSE entry[l]

Release(r) ==
  /\ place[r] = "holding"
  /\ Goes(r, "working")
  /\ left' = [left EXCEPT ![r] = Tail(@)]
  /\ LET l == Lock(r) IN
     /\ released' = [released EXCEPT ![l] = @ \cup {ticket[r]}]
     /\ entry' = [entry EXCEPT ![l] = AfterRelease(l, ticket[r])]
  /\ UNCHANGED <<record, aborted, issued, ticket, behind, verdict, caught,
                 fileVars, faults>>

-----------------------------------------------------------------------------
(* The outcome of a command.                                               *)

(* Slip: the outcome of a cancelled command is taken as it is.             *)
Finish_NotAsked(r) ==
  /\ place[r] = "working"
  /\ Goes(r, "closing")
  /\ \E s \in {"passed", "failed"} :
       /\ s = "passed" => left[r] = <<>> /\ verdict[r] = None
       /\ verdict' = [verdict EXCEPT ![r] = s]
  /\ UNCHANGED <<record, aborted, left, lockVars, caught, fileVars, faults>>

(* A command that failed before it took all its locks takes no more; a     *)
(* suite that failed is remembered in `verdict`.  A cancelled run is       *)
(* caught, whatever its command returned.                                  *)
Finish(r) ==
  /\ place[r] = "working"
  /\ Goes(r, "closing")
  /\ IF r \in aborted
       THEN /\ verdict' = [verdict EXCEPT ![r] = "cancelled"]
            /\ caught' = caught \cup {r}
       ELSE /\ \E s \in {"passed", "failed"} :
                 /\ s = "passed" => left[r] = <<>> /\ verdict[r] = None
                 /\ verdict' = [verdict EXCEPT ![r] = s]
            /\ UNCHANGED caught
  /\ UNCHANGED <<record, aborted, left, lockVars, fileVars, faults>>

Catch(r) ==
  /\ Goes(r, "closing")
  /\ verdict' = [verdict EXCEPT ![r] = FailedOrCancelled(r)]
  /\ caught' = caught \cup {r}

Throw(r) ==
  /\ place[r] = "working"
  /\ Catch(r)
  /\ UNCHANGED <<record, aborted, left, lockVars, fileVars, faults>>

(* One of the events that withResourceLock writes ("waiting", "acquired",  *)
(* "released") cannot be written: the exception leaves the function before *)
(* release().  runSuite may catch it and go on with the next suite.        *)
LockEventFails(r) ==
  /\ place[r] \in AtLock
  /\ faults < MaxFaults
  /\ faults' = faults + 1
  /\ \/ /\ Goes(r, "working")
        /\ left' = [left EXCEPT ![r] = Tail(@)]
        /\ verdict' = [verdict EXCEPT ![r] = "failed"]
        /\ UNCHANGED caught
     \/ /\ Catch(r)
        /\ UNCHANGED left
  /\ UNCHANGED <<record, aborted, lockVars, fileVars>>

-----------------------------------------------------------------------------
(* EvidenceWriter.finalize, from the try block or from the catch block.    *)

(* Slip: a run whose index cannot be read keeps its verdict in the         *)
(* registry while the catch block closes it again as failed.               *)
FinalizeThrows_Returns(r) ==
  /\ Ends(r, verdict[r])
  /\ UNCHANGED <<verdict, caught>>

(* An exception in it leads from the try block to the catch block, and     *)
(* from there to the rejection of the run's promise.                       *)
FinalizeThrows(r) ==
  IF r \in caught
    THEN Ends(r, FailedOrCancelled(r)) /\ UNCHANGED <<verdict, caught>>
    ELSE Catch(r) /\ UNCHANGED record

WriteManifest(r) == manifest' = [manifest EXCEPT ![r] = verdict[r]]
WriteEvent(r) == log' = [log EXCEPT ![r] = Append(@, verdict[r])]

(* The manifest, then run_finished or run_cancelled.                       *)
Record(r) ==
  /\ place[r] = "closing"
  /\ Goes(r, "reading")
  /\ WriteManifest(r)
  /\ WriteEvent(r)
  /\ UNCHANGED <<record, aborted, left, lockVars, verdict, caught, mine, index,
                 torn, faults>>

RecordFails(r) ==
  /\ place[r] = "closing"
  /\ faults < MaxFaults
  /\ faults' = faults + 1
  /\ \/ UNCHANGED <<manifest, log>>
     \/ WriteManifest(r) /\ UNCHANGED log
     \/ WriteManifest(r) /\ WriteEvent(r)   \* the audit chain refused it
  /\ FinalizeThrows(r)
  /\ UNCHANGED <<aborted, left, lockVars, mine, index, torn>>

(* writeEvidenceIndex: read, then open and truncate, then write.  Other    *)
(* runs do the same in between; a file that is open does not parse.        *)
ReadIndex(r) ==
  /\ place[r] = "reading"
  /\ IF torn
       THEN FinalizeThrows(r) /\ UNCHANGED mine
       ELSE /\ Goes(r, "opening")
            /\ mine' = [mine EXCEPT ![r] = index \cup {r}]
            /\ UNCHANGED <<record, verdict, caught>>
  /\ UNCHANGED <<aborted, left, lockVars, manifest, log, index, torn, faults>>

OpenIndex(r) ==
  /\ place[r] = "opening"
  /\ Goes(r, "writing")
  /\ index' = {}
  /\ torn' = TRUE
  /\ UNCHANGED <<record, aborted, left, lockVars, verdict, caught, manifest,
                 log, mine, faults>>

(* The result of the run replaces whatever the registry says.              *)
WriteIndex(r) ==
  /\ place[r] = "writing"
  /\ index' = mine[r]
  /\ torn' = FALSE
  /\ Ends(r, verdict[r])
  /\ UNCHANGED <<aborted, left, lockVars, verdict, caught, manifest, log, mine,
                 faults>>

WriteIndexFails(r) ==
  /\ place[r] = "writing"
  /\ faults < MaxFaults
  /\ faults' = faults + 1
  /\ FinalizeThrows(r)
  /\ UNCHANGED <<aborted, left, lockVars, fileVars>>

-----------------------------------------------------------------------------
(* What the event loop does for a run without anybody's doing.             *)
Progress(r) ==
  \/ Begin(r) \/ BeginFails(r)
  \/ Enter(r) \/ Acquire(r) \/ Release(r)
  \/ Finish(r) \/ Throw(r)
  \/ Record(r) \/ ReadIndex(r) \/ OpenIndex(r) \/ WriteIndex(r)

Fault(r) == LockEventFails(r) \/ RecordFails(r) \/ WriteIndexFails(r)

Next == \E r \in Runs : Accept(r) \/ Cancel(r) \/ Progress(r) \/ Fault(r)

Spec == Init /\ [][Next]_vars /\ \A r \in Runs : WF_vars(Progress(r))

-----------------------------------------------------------------------------
(* Every variable keeps its type; ended runs have left their lock.         *)
TypeOK ==
  /\ record \in [Runs -> Verdicts \cup {None, "running"}]
  /\ aborted \subseteq Runs
  /\ place \in [Runs -> Places]
  /\ left \in [Runs -> Seq(Locks)]
  /\ \A r \in Runs : place[r] \in AtLock => left[r] # <<>>
  /\ issued \in [Locks -> Nat]
  /\ released \in [Locks -> SUBSET Nat]
  /\ entry \in [Locks -> Nat]
  /\ ticket \in [Runs -> Nat]
  /\ behind \in [Runs -> Nat]
  /\ verdict \in [Runs -> Verdicts \cup {None}]
  /\ caught \subseteq Runs
  /\ manifest \in [Runs -> Verdicts \cup {None, "partial"}]
  /\ log \in [Runs -> Seq(Verdicts)]
  /\ mine \in [Runs -> SUBSET Runs]
  /\ index \subseteq Runs
  /\ torn \in BOOLEAN
  /\ faults \in 0 .. MaxFaults

(* withResourceLock serves a resource in the order in which runs asked for *)
(* it: two runs at one lock never hold it both, and no run overtakes one   *)
(* that queued before it.                                                  *)
HeldInTurn ==
  \A r, q \in Runs :
    /\ r # q
    /\ place[r] = "holding"
    /\ place[q] \in AtLock
    /\ Lock(q) = Lock(r)
    => ticket[r] < ticket[q] /\ place[q] = "waiting"

(* Whoever is at a lock, and who of them asked before whom.  With these    *)
(* the locks are a LockQueue: no failed write, cancellation or late        *)
(* promise lets a run overtake another or share a lock.                    *)
At(r, l) == place[r] \in AtLock /\ Lock(r) = l
LockOf  == [r \in Runs |-> {l \in Locks : At(r, l)}]
Holders == {r \in Runs : place[r] = "holding"}
AheadOf == [r \in Runs |->
  {q \in Runs : \E l \in Locks : At(r, l) /\ At(q, l) /\ ticket[q] < ticket[r]}]

Queue == INSTANCE LockQueue WITH at <- LockOf, holding <- Holders, ahead <- AheadOf
ImplementsLockQueue == Queue!Spec

(* A client that polls `passed` finds the same verdict in the manifest and *)
(* as the last closing event of the log; and while no write has failed, a  *)
(* run with that manifest is polled as passed, or cancelled afterwards.    *)
PassedIsRecorded ==
  \A r \in Runs :
    /\ record[r] = "passed" =>
         manifest[r] = "passed" /\ log[r] # <<>> /\ Last(log[r]) = "passed"
    /\ place[r] = "ended" /\ manifest[r] = "passed" /\ faults = 0 =>
         record[r] = "passed" \/ r \in aborted

(* Without a failed write no lock stays behind: `queues` has an entry only *)
(* while the run that made it is at the lock.                              *)
NoLockLeft ==
  faults = 0 =>
    \A l \in Locks : entry[l] # 0 =>
      \E r \in Runs : place[r] \in AtLock /\ Lock(r) = l /\ ticket[r] = entry[l]

(* A run that is cancelled before its command has returned is never        *)
(* reported as passed, although its result replaces the cancelled status.  *)
CancelledNeverPasses ==
  \A r \in Runs :
    [](r \in aborted /\ place[r] \in AtWork => [](record[r] # "passed"))

(* Every accepted run ends, cancelled or not, whatever the others do;      *)
(* except that it may wait for ever behind a lock whose holder could not   *)
(* write an event.                                                         *)
Abandoned(l) ==
  (1 .. issued[l]) \
    (released[l] \cup {ticket[q] : q \in {p \in Runs : place[p] \in AtLock /\ Lock(p) = l}})

Stranded(r) ==
  /\ faults > 0
  /\ place[r] = "waiting"
  /\ \E t \in Abandoned(Lock(r)) : t < ticket[r]

EveryRunEnds ==
  \A r \in Runs : place[r] = "starting" ~> (place[r] = "ended" \/ Stranded(r))

=============================================================================
