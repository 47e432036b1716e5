SPECIFICATION SessionsSpec
CONSTANTS
  t1 = t1
  t2 = t2
  r1 = r1
  r2 = r2
  r3 = r3
  Tags = {t1, t2}
  Reqs = {r1, r2, r3}
  Size <- Sizes
  Packable = {r1, r2, r3}
  PcccSize = 3
  FoSize = 3
  FoExSize = 7
  PlcSizes = {5, 7}
  Connects = {TRUE, FALSE}
  MaxRequests = 2
  MultiHeader = 1
  OffsetEntry = 1
  Faults = 1
  None = None
  RespSize <- Sizes
  FirstReads = {r3}
  RespHeader = 0
  RespEntry = 1
  App = {a1, a2}
SYMMETRY Symmetry
VIEW NoRecords
INVARIANTS AnswerIsOwn RequestsKept PacketFits OneRequest
CHECK_DEADLOCK FALSE
