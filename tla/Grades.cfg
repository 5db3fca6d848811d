\* Up to five adjusted snapshots, two submissions, two members who appeal.
CONSTANTS
  p1 = p1
  alice = alice
  bob = bob
  Projects = {p1}
  Members = {alice, bob}
  MaxScore = 2
  Baselines = {0, 2}
  Deltas <- Steps
  MaxVersions = 5
  MaxSubmissions = 2
SPECIFICATION Spec
INVARIANTS GradesAddUp AppealsAreResolved
PROPERTIES ImplementsScoreLifecycle PublishedGradesStand FrozenProjectIsGraded
\* A course that is archived with every appeal closed needs no further step.
CHECK_DEADLOCK FALSE
