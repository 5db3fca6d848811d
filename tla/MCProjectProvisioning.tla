----------------------- MODULE MCProjectProvisioning -----------------------
(* Small instances of ProjectProvisioning: one project, two workers.       *)
EXTENDS ProjectProvisioning

CONSTANTS w1, w2, p1
=============================================================================
