SPECIFICATION Spec
CONSTANTS
  Links = {l1}
  Canonical = {}
  Lookups = {w1, w2}
  TripAfter = 1
  ReprobeEvery = 2
  MaxFails = 2
  NoLink = NoLink
PROPERTY CacheIsPermanent
