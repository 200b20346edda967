SPECIFICATION Spec
CONSTANTS
  c1 = c1
  g1 = g1
  x1 = x1
  p1 = p1
  p2 = p2
  Blank = Blank
  Absent = Absent
  Capsules = {c1}
  Grantees = {g1}
  Contents = {x1}
  Procs = {p1, p2}
  MaxFailures = 1
SYMMETRY ProcSymmetry
INVARIANTS TypeOK HotCommitted ReplayOfDone EffectsBounded
