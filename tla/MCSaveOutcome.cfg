SPECIFICATION DsSpec
CONSTANTS
  Savers = {s1, s2}
  Documents = {d1}
  Paths = {p1, p2}
  DsMaxContent = 2
INVARIANTS
  OutcomeIsOwn
CHECK_DEADLOCK FALSE
