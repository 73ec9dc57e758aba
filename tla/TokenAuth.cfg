SPECIFICATION Spec
CONSTANTS
  Subjects = {alice, bob}
  Clients = {c1}
  CommandsInUse = {}
  ScopeRequests <- MCScopeRequests
  AccessTTL = 1
  RefreshTTL = 1
  PersistentSecret = FALSE
  MaxTokens = 6
  MaxTime = 1
  MaxBoots = 1
  None = None
SYMMETRY SubjectSymmetry
INVARIANTS TypeOK SingleUse SubjectStaysRevoked
PROPERTIES TokensNeverRevive RefreshTokensAreTickets
CHECK_DEADLOCK FALSE
