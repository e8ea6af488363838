SPECIFICATION RSpec
CONSTANTS
  a = a
  b = b
  Null = Null
  Streams = {a}
  Limit = 1
  Millis = 1
  Delay = 1
  Elapsed <- AnyTime
  Packets <- MCPackets
  MaxBytes = 10
  SizeMod = 64
  Reactions <- Anything
  Removable = {}
  Backlog = 2
  MaxBody = 2
INVARIANTS NoStalledReader
CHECK_DEADLOCK FALSE
