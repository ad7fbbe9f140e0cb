SPECIFICATION Spec
CONSTANTS
  Paths = {p}
  Contents = {a, b}
  Absent = Absent
  MaxMutations = 3
  MaxTurns = 3
  MaxRetained = 2
  MaxPrior = 2
  MaxCrashes = 1
  MaxEdits = 1
INVARIANTS
  WritesStayUndoable
  ResumeAlwaysPossible
PROPERTIES
  LedgerTruthful
  UndoIsExact
  UserEditsRespected
CHECK_DEADLOCK FALSE
