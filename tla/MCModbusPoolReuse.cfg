SPECIFICATION Spec
CONSTANTS
  Tag = {t1, t2, t3}
  Plc = {p1, p2, p3}
  None = None
  MaxThreadFailures = 0
  Timeouts = FALSE

INVARIANTS
  TagHasHandler
CHECK_DEADLOCK FALSE
