\* Three attempts, two crashes, one retry; two leases run out under their workers.
CONSTANTS
  w1 = w1
  w2 = w2
  p1 = p1
  NoOwner = NoOwner
  NoProject = NoProject
  Projects = {p1}
  Workers = {w1, w2}
  MaxAttempts = 3
  MaxCrashes = 2
  MaxRetries = 1
  MaxOvertakes = 2
SPECIFICATION Spec
INVARIANTS TaskTellsState
PROPERTIES LifecycleUntilOvertaken StoppedStaysStopped EveryProjectSettles
\* An active project, or one that has failed for good, needs no further step.
CHECK_DEADLOCK FALSE
