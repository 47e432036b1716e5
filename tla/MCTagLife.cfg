SPECIFICATION LifeSpec
CONSTANTS
  App = {a1}
  Ops <- NoAbort
  Waits = {TRUE, FALSE}
  Answers = {"ok", "more", "cip_error"}
  AutoRead = FALSE
  AutoWrite = FALSE
  MayTimeOut = FALSE
  StartMayFail = FALSE
INVARIANTS
  ReadOkIsFresh
  FlagsAgree
  
PROPERTIES
  WaitEnds
  AutoGoesOn
