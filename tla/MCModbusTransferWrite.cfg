SPECIFICATION TransferSpec
CONSTANTS
  ElemSizes = {1, 16}
  ElemCounts = {123, 124, 125, 126, 1968, 1969, 2000}
  REQUEST_PAYLOAD = 246
  RESPONSE_PAYLOAD = 250
  Directions = {"write"}
INVARIANTS
  WriteIsComplete
CHECK_DEADLOCK FALSE
