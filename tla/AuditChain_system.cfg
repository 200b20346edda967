SPECIFICATION Spec
CONSTANTS
  e1 = e1
  p1 = p1
  p2 = p2
  t1 = t1
  t2 = t2
  LegacyKey = LegacyKey
  None = None
  Entities = {e1}
  Principals = {p1, p2}
  Txs = {t1, t2}
  ElixirTxs = {t1}
  MaxWrites = 1
  MaxTime = 2
INVARIANTS SystemSingleSuccessor
CHECK_DEADLOCK FALSE
