SPECIFICATION MCSpec
CONSTANTS
  Callers = {c1, c2, c3}
  Keys = {k1}
  MaxCap = 2
  MaxTally = 3
SYMMETRY Symmetry
INVARIANTS
  NoLostWakeup
  TerminalSignalsWin
  AccountingExact
PROPERTIES
  ImplementsPool
CHECK_DEADLOCK FALSE
