\* Three calls of write: one creates, two update with the same expected version.
SPECIFICATION Spec
CONSTANTS
  Writer = {w1, w2, w3}
  Reader = {}
  Text = {t1, t2}
  Meta = {m1, m2}
  Keep = Keep
  AnyVersion = AnyVersion
INVARIANTS
  ConflictKeepsContent
CHECK_DEADLOCK FALSE
