---------------------------- MODULE QuotaLedger ----------------------------
(***************************************************************************)
(* What the portal promises about model usage: a ledger in which each      *)
(* question is reserved at most once, at one instant at which every quota  *)
(* that applies has room for it, and is then settled or released once and  *)
(* for all.  Transactions, locks, tasks, leases and workers do not occur.  *)
(* Questions implements this module as long as no answer costs more than   *)
(* was reserved for it.                                                    *)
(***************************************************************************)
EXTENDS Integers, FiniteSets, Functions

CONSTANTS Users, Questions, Asker, Limits, NoLimit, Reservations, Actuals

VARIABLES quota,    \* the quota of each user and of the course
          usage,    \* what became of each question's usage
          amount    \* how much of it counts: reserved, or spent once settled

vars == <<quota, usage, amount>>

Course == "course"
Scopes == Users \cup {Course}

Init == /\ quota  = [s \in Scopes |-> NoLimit]
        /\ usage  = [q \in Questions |-> "none"]
        /\ amount = [q \in Questions |-> 0]

Used(s) == {q \in Questions : usage[q] \in {"reserved", "settled"} /\ s \in {Course, Asker[q]}}

HasRoom(s, a) ==
  quota[s] # NoLimit =>
    /\ Cardinality(Used(s)) + 1 <= quota[s].requests
    /\ SumFunctionOnSet(amount, Used(s)) + a <= quota[s].tokens

Reserve(q, a) ==
  /\ usage[q] = "none"
  /\ quota[Course] # NoLimit
  /\ HasRoom(Course, a) /\ HasRoom(Asker[q], a)
  /\ usage' = [usage EXCEPT ![q] = "reserved"]
  /\ amount' = [amount EXCEPT ![q] = a]
  /\ UNCHANGED quota

Settle(q, a) ==
  /\ usage[q] = "reserved"
  /\ usage' = [usage EXCEPT ![q] = "settled"]
  /\ amount' = [amount EXCEPT ![q] = a]
  /\ UNCHANGED quota

Release(q) ==
  /\ usage[q] = "reserved"
  /\ usage' = [usage EXCEPT ![q] = "released"]
  /\ UNCHANGED <<quota, amount>>

\* A user's quota is never above the course's.
Nested(limits) ==
  \A u \in Users : limits[u] # NoLimit /\ limits[Course] # NoLimit =>
    limits[u].requests <= limits[Course].requests /\ limits[u].tokens <= limits[Course].tokens

SetQuota(s, limit) ==
  /\ quota' = [quota EXCEPT ![s] = limit]
  /\ Nested(quota')
  /\ UNCHANGED <<usage, amount>>

Next ==
  \/ \E q \in Questions : \/ \E a \in Reservations : Reserve(q, a)
                          \/ \E a \in Actuals : Settle(q, a)
                          \/ Release(q)
  \/ \E s \in Scopes, limit \in Limits \cup {NoLimit} : SetQuota(s, limit)

Spec == Init /\ [][Next]_vars
=============================================================================
