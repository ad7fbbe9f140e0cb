SPECIFICATION Spec
CONSTANTS
  Providers = {p1, p2}
  Requests = {r1, r2}
  Slots = 1
  MaxFallbacks = 1
  Threshold = 1
  Cooldown = 1
  NoProvider = none
  Affinities = {TRUE, FALSE}
  Callback = {"none", "plain", "net"}
INVARIANTS
  AnswerIsWhole
  NoHoldAndWait
  ClosedBelowThreshold
PROPERTIES
  OnlyAllowedPlanned
  OpenNeverJumpsToClosed
SYMMETRY Symmetry
