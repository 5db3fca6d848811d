\* A submission drafts a baseline before the teacher calculates one.
CONSTANTS
  p1 = p1
  alice = alice
  bob = bob
  Projects = {p1}
  Members = {alice, bob}
  MaxScore = 2
  Baselines = {0, 2}
  Deltas <- Steps
  MaxVersions = 3
  MaxSubmissions = 1
SPECIFICATION Spec
PROPERTIES BaselineIsPublished
\* A course that is archived with every appeal closed needs no further step.
CHECK_DEADLOCK FALSE
