SPECIFICATION Spec
CONSTANTS
  Commands = {c1, c2}
  Snapshots = Snapshots
  OperationLog = OperationLog
  Metadata = {m1, m2}
  NoMetadata = NoMetadata
  MaxEntries = 5
  Garbled = Garbled
SYMMETRY CommandSymmetry
INVARIANTS ChainInv NoEntryTwice AckedKept
PROPERTY AppendOnly
CHECK_DEADLOCK FALSE
