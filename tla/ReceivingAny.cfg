\* two downloads, of which one may start when the other fails in the controller's transfer
SPECIFICATION RSpec
CONSTANTS
  a = a
  b = b
  Null = Null
  Streams = {a, b}
  Limit = 1
  Millis = 1
  Delay = 1
  Elapsed <- OddTime
  Packets <- EvenPackets
  MaxBytes = 6
  SizeMod = 64
  Reactions <- Anything
  Removable = {}
  Backlog = 1
  MaxBody = 1
INVARIANTS ReaderTypeOK BytesInOrder
PROPERTIES FinishedReaderGetsNothing  TransferComesToEnd
CHECK_DEADLOCK FALSE
