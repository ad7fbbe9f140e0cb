SPECIFICATION BusySpec
CONSTANTS
  Providers = {p1, p2}
  Requests = {r1}
  Slots = 1
  MaxFallbacks = 1
  Threshold = 1
  Cooldown = 1
  NoProvider = none
  Affinities = {FALSE}
  Callback = {"none"}
PROPERTIES
  HalfOpenResolves
