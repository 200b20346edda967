\* Two bridges over two capsules, one negotiation and two accesses.
SPECIFICATION Spec
CONSTANTS
  agent = agent
  person = person
  Capsule = {c1, c2}
  Owner = owner
  Grantee = {agent, person}
  AiAgent = {agent}
  Bridge = {b1, b2}
  Declaration = {d1}
  Access = {a1, a2}
  Requested = {2}
  MaxRows = 2
  Offers <- MixedOffers
SYMMETRY Symmetry
INVARIANTS
  TypeOK
  ServeOnceUnlessRaced
  ReadsFollowGrant
  RevokedBridgeEmpty
CHECK_DEADLOCK FALSE
PROPERTY
  NewAccessStopsAtRevoke
