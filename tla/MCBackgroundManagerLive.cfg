SPECIFICATION FairSpec
CONSTANTS
  Jobs = {j1, j2}
  Hosts = {h1, h2}
  ActiveCap = 2
  RetainedCap = 1
  MaxElevated = 2
PROPERTIES
  ShutdownTerminates
CHECK_DEADLOCK FALSE
