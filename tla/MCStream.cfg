SPECIFICATION StreamSpec
CONSTANTS
  NoSock = NoSock
  WakeRoom = 2
  SendRoom = 2
  Header = 2
  Answers <- MCAnswers
  RequestSize = 2
  MaxConns = 2
  MaxAsks = 2
PROPERTIES HangUpNoticed
CHECK_DEADLOCK FALSE
