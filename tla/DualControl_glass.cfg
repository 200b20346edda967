\* Two clients, one break-glass grant beside one escalation, three operators.
SPECIFICATION Spec
CONSTANTS
  Person <- ThreeOperators
  InitialOperators <- ThreeOperators
  Dedicated <- ThreeOperators
  Wanted <- ThreeWanted
  Request = {r1, r2}
  Call = {c1}
  Escalation = {e1}
  Grant = {g1}
  Floor = 2
  None = None
  Census = Census
SYMMETRY Symmetry
INVARIANTS
  GrantOnceUnlessRaced
  FloorUnlessRaced
CHECK_DEADLOCK FALSE
PROPERTY
  ReviewFinalUnlessRaced
