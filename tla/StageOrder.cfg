\* Two submissions of the first stage, three stages.
CONSTANTS
  w1 = w1
  w2 = w2
  p1 = p1
  k1 = k1
  k2 = k2
  m1 = m1
  c1 = c1
  case1 = case1
  case2 = case2
  lab = lab
  NoOwner = NoOwner
  NoManifest = NoManifest
  NoCred = NoCred
  NoRequest = NoRequest
  Projects = {p1}
  Commits = {k1, k2}
  Manifests = {m1}
  MaxRuns = 2
  LastStage = 2
  Workers = {w1}
  Creds = {}
  Cases = {case1}
  Labels = {}
  ManualReview = {}
  Showcase <- NoDemand
  RequiredEvidence <- NoDemand
  ReviewArtifacts <- NoDemand
  TriggerInputs = {}
  SubmitInputs <- TwoCommits
SPECIFICATION Spec
INVARIANTS StagesPassedInOrder
\* Every run may end and MaxRuns stops new ones.
CHECK_DEADLOCK FALSE
