SPECIFICATION FairSpec
CONSTANTS
  a1 = a1
  a2 = a2
  e1 = e1
  k1 = k1
  r1 = r1
  s1 = s1
  w1 = w1
  NoEntity = NoEntity
  NoAction = NoAction
  Actions = {a1, a2}
  Entities = {e1}
  Requests = {r1}
  Schedulers = {s1}
  Workers = {w1}
  Reconcilers = {k1}
  GrantHolders = {e1}
  RetryBudget = 2
  MaxBatch = 2
  MaxFailures = 1
PROPERTIES ApprovedSettles OpenAttemptCloses
CHECK_DEADLOCK FALSE
