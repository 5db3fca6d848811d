----------------------------- MODULE MCGrading -----------------------------
(* Small instances of Grading: one project of two, scores from 0 to 2.     *)
EXTENDS Grading

CONSTANTS p1, alice, bob

Steps == {-1, 0, 1}
=============================================================================
