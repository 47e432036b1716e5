CONSTANTS
  None = None
  NewData <- MCData
  Other = {0}
  Places = {2}
  Avails = {22, 40}
  MaxLate = 1
  PcccAvails = {28, 82}
  RawAvails = {40}
  Rooms <- MCRooms
  NameSize = 2
  TypeSize = 2
  Elems = 2
  ElemSizes = {0}
  PadTo = 2
  Memory <- MCMemory
  TagBits <- MCBits
  Bits = {0, 1}
  ServerRooms = {8, 40}
  c1 = c1
  c2 = c2
  Clients = {c1, c2}
  PlcTypes = {"LOGIX", "PLC5", "SLC"}
  ServerTags <- MCServerTags
  FirstBytes <- MCFirstBytes
  Requests <- MCRequests
  Rejects = 0
  DefaultPacket = 504
  MaxSends <- MCMaxSends
SPECIFICATION MCSpec
INVARIANTS ReadDelivers WriteDelivers  ServerIsPlc ReadIsMoment MultiAnswered
PROPERTIES OtherBitsKept Advances
