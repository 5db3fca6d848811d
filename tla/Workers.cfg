\* One run, with a credential or with a submission; two workers, two faults.
CONSTANTS
  w1 = w1
  w2 = w2
  p1 = p1
  k1 = k1
  m1 = m1
  c1 = c1
  case1 = case1
  lab = lab
  NoOwner = NoOwner
  NoManifest = NoManifest
  NoCred = NoCred
  NoRequest = NoRequest
  Projects = {p1}
  Commits = {k1}
  Manifests = {m1}
  MaxRuns = 1
  LastStage = 0
  Workers = {w1, w2}
  Creds = {c1}
  Cases = {case1}
  Labels = {lab}
  ManualReview = {}
  Showcase <- ShowsLabel
  RequiredEvidence <- NoDemand
  ReviewArtifacts <- NoDemand
  TriggerInputs <- WithCredential
  SubmitInputs <- OneSubmission
  MaxFaults = 2
SPECIFICATION WSpec
INVARIANTS OneExecution
PROPERTIES VerdictComesFromRunner EveryRunEnds
\* Every run may end and MaxRuns stops new ones.
CHECK_DEADLOCK FALSE
