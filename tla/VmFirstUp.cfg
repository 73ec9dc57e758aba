SPECIFICATION Spec
CONSTANTS
  c1 = c1
  c2 = c2
  s1 = s1
  s2 = s2
  None = None
  Commands = {c1, c2}
  SnapNames = {s1}
  MaxCommands = 1
  MaxFaults = 0
CHECK_DEADLOCK FALSE
PROPERTIES UndisturbedUpSucceeds
