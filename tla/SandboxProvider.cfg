SPECIFICATION FairSpec
CONSTANTS
  t1 = t1
  t2 = t2
  anon = anon
  p0 = p0
  p1 = p1
  None = None
  Torn = Torn
  Threads = {t1, anon}
  Anonymous = anon
  Agent = t2
  PoolVMs <- TwoPoolVMs
  Runtimes <- AllRuntimes
  Configured <- KnownRuntimes
  Addressable <- StaticRuntimes
  Shutdowns = TRUE
  MaxCalls = 3
  MaxWarms = 2
  MaxFaults = 1
  MaxBoots = 1
INVARIANTS PoolInv NoSilentLeak MappingSurvives
PROPERTIES ReleaseUnmaps PoolLendsOnce CallsReturn
CHECK_DEADLOCK FALSE
