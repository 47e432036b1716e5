CONSTANTS
  Threads = {p1, p2}
  t1 = t1
  t2 = t2
  Tags = {t1, t2}
  TAG_ID_MASK = 7
  FirstId = 2
  MAX_TAG_MAP_ATTEMPTS = 3
  INITIAL_TAG_TABLE_SIZE = 1
  Hash <- MCHash
  MAX_ITERATIONS = 2
  MAX_INCREMENT = 2
  MaxGrowth = 4
  MaxFailures = 1
  MaxRounds = 2
  NULL = NULL
  Apps = {a1, a2}
  AutoSync = TRUE
  MaxCalls = 2
SPECIFICATION MCSpec
CHECK_DEADLOCK FALSE
INVARIANTS TableIsMap HandleIsOwn WorksWithLive 
  
