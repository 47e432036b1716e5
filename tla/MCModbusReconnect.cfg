SPECIFICATION FairSpec
CONSTANTS
  Tag = {t1, t2}
  None = None
  Chunks <- OneChunk
  AutoRead = {}
  AutoWrite = {}
  MayWrite = {}
  ReadOnly = {}
  Contended = {}
  Reorder = TRUE
  Answers = {"ok"}
  max_requests_in_flight = 1
  IdMod = 3
  MaxFaults = 1
  MaxAborts = 0
PROPERTIES
  ReadServed
