---------------------------- MODULE MCQuestions ----------------------------
(* Small instances of Questions: two users, two workers.                   *)
EXTENDS Questions, TLC

CONSTANTS u1, u2, q1, q2, w1, w2

Two       == (q1 :> u1) @@ (q2 :> u2)
Quotas    == {[requests |-> 1, tokens |-> 4], [requests |-> 2, tokens |-> 3]}
=============================================================================
