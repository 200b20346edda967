\* Two logins, two reset links, two calls that redeem them.
SPECIFICATION Spec
CONSTANTS
  Login = {l1, l2}
  Link = {k1, k2}
  ResetLink = {k1, k2}
  Redeem = {r1, r2}
  Policy = {p1, p2}
  NoLogin = {p2}
  Lockout = 2
  MaxAttempts = 2
  None = None
SYMMETRY Symmetry
INVARIANTS
  TypeOK
  LiveSessionsCurrent
  LockoutClearable
  LinkOnce
CHECK_DEADLOCK FALSE
