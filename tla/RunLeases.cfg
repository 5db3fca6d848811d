\* One run, two workers, two cases, one object, one credential.
CONSTANTS
  w1 = w1
  w2 = w2
  p1 = p1
  k1 = k1
  k2 = k2
  m1 = m1
  c1 = c1
  case1 = case1
  case2 = case2
  lab = lab
  NoOwner = NoOwner
  NoManifest = NoManifest
  NoCred = NoCred
  NoRequest = NoRequest
  Projects = {p1}
  Commits = {k1, k2}
  Manifests = {m1}
  MaxRuns = 1
  LastStage = 0
  Workers = {w1, w2}
  Creds = {c1}
  Cases = {case1, case2}
  Labels = {lab}
  ManualReview = {}
  Showcase <- NoDemand
  RequiredEvidence <- NoDemand
  ReviewArtifacts <- NoDemand
  TriggerInputs <- WithCredential
  SubmitInputs = {}
SPECIFICATION Spec
SYMMETRY WorkerSymmetry
INVARIANTS EventLogTellsStory OwnedWhileActive 
PROPERTIES VerdictIsFinal OneWorkerPerRun RecoveryFencesWorker ImplementsRunLifecycle
\* Every run may end and MaxRuns stops new ones.
CHECK_DEADLOCK FALSE
