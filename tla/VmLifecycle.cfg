SPECIFICATION FairSpec
CONSTANTS
  c1 = c1
  c2 = c2
  s1 = s1
  s2 = s2
  None = None
  Commands = {c1, c2}
  SnapNames = {s1}
  MaxCommands = 4
  MaxFaults = 2
CHECK_DEADLOCK FALSE
INVARIANTS AckedSnapshotsExist NoSilentOrphan CleanInv
PROPERTIES SuccessMeansDone CommandsEnd
