\* Submissions of two commits over two stages; manual review at the first, showcase at the last.
CONSTANTS
  w1 = w1
  w2 = w2
  p1 = p1
  k1 = k1
  k2 = k2
  m1 = m1
  c1 = c1
  case1 = case1
  case2 = case2
  lab = lab
  NoOwner = NoOwner
  NoManifest = NoManifest
  NoCred = NoCred
  NoRequest = NoRequest
  Projects = {p1}
  Commits = {k1, k2}
  Manifests = {m1}
  MaxRuns = 2
  LastStage = 1
  Workers = {w1}
  Creds = {}
  Cases = {case1}
  Labels = {lab}
  ManualReview = {0}
  Showcase <- LastShows
  RequiredEvidence <- FirstNeeds
  ReviewArtifacts <- FirstArtifact
  TriggerInputs = {}
  SubmitInputs <- TwoCommits
SPECIFICATION Spec
INVARIANTS SubmissionFollowsRun StagesArePaidFor DraftRestsOnFinalRuns
PROPERTIES ImplementsScoreLifecycle
\* Every run may end and MaxRuns stops new ones.
CHECK_DEADLOCK FALSE
