SPECIFICATION FairSpec
CONSTANTS
  Subjects = {alice}
  Clients = {c1, c2}
  CommandsInUse = {"workspace_list", "workspace_create", "runtime_down"}
  ScopeRequests <- MCScopeRequests
  AccessTTL = 1
  RefreshTTL = 1
  PersistentSecret = TRUE
  MaxTokens = 4
  MaxTime = 0
  MaxBoots = 1
  None = None
INVARIANT CommandsAreAuthorized
PROPERTIES AdmittedIsAnswered OnlyRestartRevives
CHECK_DEADLOCK FALSE
