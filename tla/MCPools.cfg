SPECIFICATION PoolsSpec
CONSTANTS
  Tag = {t1, t2, t3}
  Plc = {q1, q2}
  None = None
  MaxThreadFailures = 1
  Timeouts = FALSE
  p1 = p1
  p2 = p2
  p3 = p3
  k1 = k1
  PoolTags = {p1, p2, p3}
  Sessions = {s1, s2, s3}
  Key <- Keys
  Private = {p3}
  NoSession = NoSession
  InitFailures = 1
  Slow = FALSE
  Tags = {t1, t2}
  Reqs = {r1, r2}
INVARIANTS
  
  FreedIsOut
PROPERTIES
  PoolsEnd
  Served
CHECK_DEADLOCK FALSE
