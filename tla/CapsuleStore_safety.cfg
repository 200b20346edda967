\* Three calls of write, one two-step read, two texts and two metadata values.
SPECIFICATION Spec
CONSTANTS
  Writer = {w1, w2, w3}
  Reader = {r1}
  Text = {t1, t2}
  Meta = {m1, m2}
  Keep = Keep
  AnyVersion = AnyVersion
SYMMETRY Symmetry
INVARIANTS
  TypeOK
  Intact
  ReadMatchesMetadata
CHECK_DEADLOCK FALSE
PROPERTY
  GuardedCommit
