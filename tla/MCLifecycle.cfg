SPECIFICATION MCSpec
CONSTANTS
  RrCalls = {a1, a2}
  RrMaxReaders = 3
  Runtimes = {r1, r2}
  GrClosers = {r1}
  GrMaxTurns = 2
  GrMaxDeletes = 0
  Keys = {k1}
  Probes = {g1, g2}
  Closers = {c1, c2}
  MaxCap = 2
  TTL = 1
  Timeout = 1
INVARIANTS
  ReaderOutlivesCalls
  ServesActiveGeneration
  StalenessBounded
PROPERTIES
  ProbeDiscipline
  CloseReleasesReaders
  RuntimeCloses
  CloseTerminates
CHECK_DEADLOCK FALSE
