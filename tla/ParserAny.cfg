\* every response within the bounds, cut in every way
SPECIFICATION Spec
CONSTANTS
  Codes <- MCCodes
  Pieces <- MCPieces
  Names <- MCNames
  Values <- MCValues
  MaxFields = 2
  MaxBody = 2
  Location <- MCLocation
INVARIANTS TypeOK HeadersAsSent ResultIsVerdict ResultInTime
CHECK_DEADLOCK FALSE
