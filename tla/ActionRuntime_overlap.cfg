SPECIFICATION Spec
CONSTANTS
  a1 = a1
  e1 = e1
  e2 = e2
  k1 = k1
  k2 = k2
  r1 = r1
  r2 = r2
  s1 = s1
  s2 = s2
  w1 = w1
  w2 = w2
  NoEntity = NoEntity
  NoAction = NoAction
  Actions = {a1}
  Entities = {e1, e2}
  Requests = {r1, r2}
  Schedulers = {s1, s2}
  Workers = {w1, w2}
  Reconcilers = {k1, k2}
  GrantHolders = {}
  RetryBudget = 2
  MaxBatch = 1
  MaxFailures = 1
SYMMETRY Symmetry
INVARIANT SingleDriver
PROPERTY GovernedAttempts
CHECK_DEADLOCK FALSE
