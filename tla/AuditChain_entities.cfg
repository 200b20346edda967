SPECIFICATION FairSpec
CONSTANTS
  e1 = e1
  p1 = p1
  p2 = p2
  t1 = t1
  t2 = t2
  LegacyKey = LegacyKey
  None = None
  Entities = {e1}
  Principals = {p1}
  Txs = {t1, t2}
  ElixirTxs = {}
  MaxWrites = 2
  MaxTime = 4
INVARIANTS TypeOK SingleSuccessor IntactVerifies CommittedPredecessor
PROPERTIES AppendsAtTail WaiterServed
CHECK_DEADLOCK FALSE
