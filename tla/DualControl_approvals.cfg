\* Two clients, two escalations, two second-person calls; no break-glass grant.
SPECIFICATION Spec
CONSTANTS
  Person <- TwoOperators
  InitialOperators <- TwoOperators
  Dedicated <- TwoOperators
  Wanted <- TwoWanted
  Request = {r1, r2}
  Call = {c1, c2}
  Escalation = {e1, e2}
  Grant = {}
  Floor = 1
  None = None
  Census = Census
SYMMETRY Symmetry
INVARIANTS
  TypeOK
  TwoPersonRule
  ApprovalBudget
  SingleUseUnlessRaced
  OnePendingUnlessRaced
CHECK_DEADLOCK FALSE
