SPECIFICATION FairSpec
CONSTANTS
  t1 = t1
  t2 = t2
  anon = anon
  p0 = p0
  p1 = p1
  None = None
  Torn = Torn
  Threads = {t2}
  Anonymous = anon
  Agent = t2
  PoolVMs <- OnePoolVM
  Runtimes <- AllRuntimes
  Configured <- KnownRuntimes
  Addressable <- KnownRuntimes
  Shutdowns = TRUE
  MaxCalls = 3
  MaxWarms = 1
  MaxFaults = 0
  MaxBoots = 0
CHECK_DEADLOCK FALSE
PROPERTIES ShutdownEnds
