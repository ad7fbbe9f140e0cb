SPECIFICATION MCSpec
CONSTANTS
  Jobs = {j1, j2, j3}
  Hosts = {h1, h2}
  ActiveCap = 2
  RetainedCap = 1
  MaxElevated = 1
  CapBytes = 3
  MaxWrite = 4
  MaxEnd = 8
  MaxBytes = 4
INVARIANTS
  BooksExact
  NoOrphans
  KillsAreSafe
  RingIsNewestTail
  ReadHasNoSilentGap
  EOFMeansComplete
SYMMETRY Symmetry
CHECK_DEADLOCK FALSE
