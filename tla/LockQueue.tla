----------------------------- MODULE LockQueue -----------------------------
(***************************************************************************)
(* What withResourceLock promises: whoever asks for a lock comes behind    *)
(* everybody who is there already, nobody takes it while somebody is       *)
(* ahead, and whoever leaves, served or not, is in nobody's way any more.  *)
(* Promises, tickets and the map of queues do not occur; ServeRuns         *)
(* implements this module, failing writes and cancellations included.      *)
(***************************************************************************)
CONSTANTS Runs, Locks

VARIABLES at,       \* the lock a run is at, as a set of at most one
          holding,  \* the runs that hold the lock they are at
          ahead     \* who asked for it before each run and has not left

vars == <<at, holding, ahead>>

Init == /\ at      = [r \in Runs |-> {}]
        /\ holding = {}
        /\ ahead   = [r \in Runs |-> {}]

Ask(r, l) ==
  /\ at[r] = {}
  /\ at'    = [at EXCEPT ![r] = {l}]
  /\ ahead' = [ahead EXCEPT ![r] = {q \in Runs : l \in at[q]}]
  /\ UNCHANGED holding

Take(r) ==
  /\ at[r] # {} /\ r \notin holding
  /\ ahead[r] = {}
  /\ holding' = holding \cup {r}
  /\ UNCHANGED <<at, ahead>>

Leave(r) ==
  /\ at[r] # {}
  /\ at'      = [at EXCEPT ![r] = {}]
  /\ holding' = holding \ {r}
  /\ ahead'   = [q \in Runs |-> IF q = r THEN {} ELSE ahead[q] \ {r}]

Next == \E r \in Runs : Take(r) \/ Leave(r) \/ \E l \in Locks : Ask(r, l)

Spec == Init /\ [][Next]_vars
=============================================================================
