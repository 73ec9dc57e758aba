SPECIFICATION Spec
CONSTANTS
  t1 = t1
  m1 = m1
  p1 = p1
  Missing = Missing
  ErrorText = ErrorText
  NoData = NoData
  Threads = {t1}
  Servers = {m1}
  Paths = {p1}
  Requests <- OneRead
  MaxFaults = 1
INVARIANT MissingFileRaises
CHECK_DEADLOCK FALSE
