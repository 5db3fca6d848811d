--------------------------- MODULE MCStudentWork ---------------------------
(* Small instances of StudentWork.                                         *)
EXTENDS StudentWork, TLC

CONSTANTS s1, s2, s3, g1, g2, k1

\* s1 and s2 differ in another module only.
Agree    == (s1 :> s1) @@ (s2 :> s1) @@ (s3 :> s3)
Start    == [spec |-> s1, config |-> g1, code |-> k1]
=============================================================================
