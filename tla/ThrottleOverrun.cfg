\* budgets that do not divide evenly
SPECIFICATION Spec
CONSTANTS
  a = a
  b = b
  Null = Null
  Streams = {a, b}
  Limit = 1
  Millis = 1
  Delay = 1
  Elapsed <- AnyTime
  Packets <- MCPackets
  MaxBytes = 5
  SizeMod = 64
  Reactions <- Obedient
  Removable = {}
INVARIANTS WithinBudget
CHECK_DEADLOCK FALSE
