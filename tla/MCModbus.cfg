SPECIFICATION ModbusSpec
CONSTANTS
  Tag = {t1, t2}
  None = None
  Chunks <- TwoChunks
  AutoRead = {}
  AutoWrite = {t1}
  MayWrite = {t1, t2}
  ReadOnly = {t2}
  Contended = {t2}
  Reorder = TRUE
  Answers = {"ok", "error", "ack"}
  max_requests_in_flight = 1
  IdMod = 3
  MaxFaults = 1
  MaxAborts = 0
  ElemSizes = {1, 16}
  ElemCounts <- Counts
  REQUEST_PAYLOAD = 246
  RESPONSE_PAYLOAD = 250
  Directions = {"read", "write"}
INVARIANTS
  RequestsInStep
  PiecesCover
PROPERTIES
  
  ReadEnds
CHECK_DEADLOCK FALSE
