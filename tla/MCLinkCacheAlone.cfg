SPECIFICATION FairSpec
CONSTANTS
  Links = {l1, l2}
  Canonical = {l2}
  Lookups = {w1}
  TripAfter = 2
  ReprobeEvery = 3
  MaxFails = 3
  NoLink = NoLink
INVARIANT LookupsAreSound
PROPERTIES
  CacheIsPermanent
  NothingIsGivenUp
