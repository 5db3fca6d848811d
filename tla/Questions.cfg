\* Two users, a question of each, two workers; an administrator changes the quotas.
CONSTANTS
  u1 = u1
  u2 = u2
  q1 = q1
  q2 = q2
  w1 = w1
  w2 = w2
  Users = {u1, u2}
  Questions = {q1, q2}
  Workers = {w1, w2}
  NoOwner = NoOwner
  NoQuestion = NoQuestion
  Asker <- Two
  Limits <- Quotas
  NoLimit = NoLimit
  Reservations = {1, 2}
  Actuals = {1}
  MaxAttempts = 2
  MaxFaults = 1
SPECIFICATION Spec
INVARIANTS AnswersAreBilled ClosedTasksOweNothing
PROPERTIES RequestsWithinQuota ImplementsQuotaLedger ReservationsEnd
\* Questions that are answered or given up need no further step.
CHECK_DEADLOCK FALSE
