\* Two runs, one lock that they take once or twice, one failing write.
CONSTANTS
  r1 = r1
  r2 = r2
  build = build
  Runs = {r1, r2}
  Locks = {build}
  Plans <- OneLock
  MaxFaults = 1
SPECIFICATION Spec
INVARIANTS PassedIsRecorded
PROPERTIES ImplementsLockQueue CancelledNeverPasses EveryRunEnds
\* Every run may end.
CHECK_DEADLOCK FALSE
