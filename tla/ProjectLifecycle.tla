-------------------------- MODULE ProjectLifecycle --------------------------
(***************************************************************************)
(* What a teacher may expect of a project that is asked for: it is made in *)
(* one step, complete and with one webhook, or it is given up once its     *)
(* attempts are used up and can then be put back.  Its task is pending     *)
(* exactly while it is neither made nor given up.  Leases, backoff, half   *)
(* made repositories, lost replies and rollbacks do not occur;             *)
(* ProjectProvisioning implements this module until a worker is overtaken. *)
(***************************************************************************)
EXTENDS Naturals

CONSTANTS Projects, MaxAttempts

VARIABLES status,    \* "absent", "provisioning", "active" or "failed"
          pending,   \* the projects whose task is still to be done
          attempts,  \* how often each was tried
          delivered  \* what each project that is active has in Gitea

vars == <<status, pending, attempts, delivered>>

Nothing  == [repo |-> FALSE, members |-> FALSE, hooks |-> 0]
Complete == [repo |-> TRUE,  members |-> TRUE,  hooks |-> 1]

Init == /\ status    = [p \in Projects |-> "absent"]
        /\ pending   = {}
        /\ attempts  = [p \in Projects |-> 0]
        /\ delivered = [p \in Projects |-> Nothing]

Becomes(p, before, after) ==
  status[p] = before /\ status' = [status EXCEPT ![p] = after]

Ask(p) ==
  /\ Becomes(p, "absent", "provisioning")
  /\ pending' = pending \cup {p}
  /\ UNCHANGED <<attempts, delivered>>

Try(p) ==
  /\ status[p] = "provisioning" /\ p \in pending
  /\ attempts' = [attempts EXCEPT ![p] = @ + 1]
  /\ UNCHANGED <<status, pending, delivered>>

Succeed(p) ==
  /\ attempts[p] > 0
  /\ Becomes(p, "provisioning", "active")
  /\ pending' = pending \ {p}
  /\ delivered' = [delivered EXCEPT ![p] = Complete]
  /\ UNCHANGED attempts

GiveUp(p) ==
  /\ attempts[p] >= MaxAttempts
  /\ Becomes(p, "provisioning", "failed")
  /\ pending' = pending \ {p}
  /\ UNCHANGED <<attempts, delivered>>

PutBack(p) ==
  /\ Becomes(p, "failed", "provisioning")
  /\ pending' = pending \cup {p}
  /\ UNCHANGED <<attempts, delivered>>

Next == \E p \in Projects : Ask(p) \/ Try(p) \/ Succeed(p) \/ GiveUp(p) \/ PutBack(p)

Spec == Init /\ [][Next]_vars
=============================================================================
