\* one reader that may stop and close and one that may only close; every budget,
\* rounded down; the handler of either may close the other
SPECIFICATION Spec
CONSTANTS
  a = a
  b = b
  Null = Null
  Streams = {a, b}
  Limit = 1
  Millis = 2
  Delay = 2
  Elapsed <- OddTime
  Packets <- MCPackets
  MaxBytes = 6
  SizeMod = 64
  Reactions <- OnePatient
  Removable = {a, b}
INVARIANTS TypeOK PauseTracksBuffer NoForgottenData
PROPERTIES TransferComesToEnd OverrunAtMinimum KeepsSocketContract AloneWithinBudget EveryByteDelivered
CHECK_DEADLOCK FALSE
