SPECIFICATION FairOpsSpec
CONSTANTS
  a1 = a1
  a2 = a2
  App = {a1, a2}
  Ops <- ReadVsAbort
  Waits = {TRUE, FALSE}
  Answers = {"ok"}
  AutoRead = FALSE
  AutoWrite = FALSE
  MayTimeOut = FALSE
  StartMayFail = FALSE
PROPERTIES
  WaitEnds
