SPECIFICATION MCSpec
CONSTANTS
  IxWriters = {w1, w2}
  IxDocs = {doc1}
  IxSpaces = {v1, v2}
  IxMaxGens = 3
  IxMaxDamage = 1
  Savers = {s1, s2}
  Documents = {d1, d2}
  Paths = {p1}
  DsMaxContent = 2
  FbCalls = {1, 2}
  Chunks = {1}
  FbQueueSize = 2
  FbMaxAge = 1
  FbMaxTime = 2
  FbMaxEvents = 4
  Runtimes = {r1, r2}
  GrClosers = {}
  GrMaxTurns = 3
  GrMaxDeletes = 1
  EfCallers = {e1, e2}
  Texts = {"t1", "t2"}
  EfCapacity = 1
  EfMaxFlights = 2
INVARIANTS
  ActiveIsComplete
  ReportBalances
  JudgedOnce
  TurnsAsReported
  DeletedStaysDeleted
  EachCallItsOwn
PROPERTIES
  ManagedSourcesKept
  PolicyRetiresOldIndex
  SaveOverwritesOnlySeen
CHECK_DEADLOCK FALSE
