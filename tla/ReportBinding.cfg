\* The same project.
CONSTANTS
  s1 = s1
  s2 = s2
  s3 = s3
  g1 = g1
  g2 = g2
  k1 = k1
  Specs = {s1, s2, s3}
  Configs = {g1, g2}
  Codes = {k1}
  Binding <- Agree
  Project <- Start
  MaxCommits = 3
  MaxEdits = 1
  MaxAtOnce = 2
  MaxFaults = 1
SPECIFICATION Spec
INVARIANTS ReportedHeadWasVerified
\* The student need not do anything.
CHECK_DEADLOCK FALSE
