SPECIFICATION FairSpec
CONSTANTS
  a1 = a1
  a2 = a2
  Addresses = {a1, a2}
  Nowhere = Nowhere
  Chinese = FALSE
  Timeout = 12
  Interval = 2
  Threshold = 7
  Advice = 7
  MaxProbe = 1
INVARIANTS EndsInTime OpensOnPersistence StuckIsNoticed
PROPERTY WaitEnds
CHECK_DEADLOCK FALSE
