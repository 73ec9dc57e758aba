SPECIFICATION Spec
CONSTANTS
  c1 = c1
  c2 = c2
  t1 = t1
  t2 = t2
  Commands = {c1, c2}
  Tasks = {t1, t2}
  Guarded = {t1}
  Named = {t1}
  Programs = 2
  Marks = {"checkpointed", "checkpoint-waived", "running", "validated", "reviewed"}
  MaxCommands = 3
  Garbled = Garbled
INVARIANTS ReadyIsEarned WaiverStands ReportedIsKept
PROPERTY RecordsAreAtomic
CHECK_DEADLOCK FALSE
