SPECIFICATION FairSpec
CONSTANTS
  Providers = {p1, p2}
  Requests = {r1, r2}
  Slots = 1
  MaxFallbacks = 1
  Threshold = 1
  Cooldown = 1
  NoProvider = none
  Affinities = {FALSE}
  Callback = {"none"}
PROPERTIES
  PermitsReturn
