SPECIFICATION BaseSpec
CONSTANTS
  Tag = {t1}
  Plc = {p1}
  Client = {c1, c2}
  Cleaner = Cleaner
  None = None
  Threads = {h1, h2, h3}
  MaxSignals = 3
  Values = {v1, v2}
  NULL = NULL
  Capacities = {1, 2}
  Increments = {1, 2}
  MaxLength = 4
  NoSock = NoSock
  WakeRoom = 2
  SendRoom = 2
  Header = 2
  Answers <- MCAnswers
  RequestSize = 2
  MaxConns = 2
  MaxAsks = 1
INVARIANTS
  CountIsExact
  NoUseAfterFree
  CondInv
  VectorIsSequence
  StreamsFramed
  WakeNotLost
PROPERTIES
  ImplementsContract
  EventuallyFreed
  HandlerJoined
CHECK_DEADLOCK FALSE
