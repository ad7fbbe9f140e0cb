SPECIFICATION FairSpec
CONSTANTS
  Callers = {c1, c2}
  Keys = {k1}
  MaxCap = 2
  MaxTally = 3
PROPERTIES
  ParkedEventuallyMoves
  TerminalDrains
CHECK_DEADLOCK FALSE
