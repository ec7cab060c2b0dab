SPECIFICATION FairSpec
CONSTANTS
  Runs = {r1, r2}
  f1 = f1
  f2 = f2
  Files = {f1, f2}
  Offers <- MCOffers
  UploadSlots = 1
  ParseSlots = 1
  MaxApplies = 1
  MaxStarts = 2
  MaxCrashes = 1
  NoFile = NoFile
  NoHash = NoHash
  OldHash = OldHash
INVARIANTS
  PermitsAreSound
  RunReadsItsLists
PROPERTIES
  CancellationWins
  PromotionIsEarned
  WaitingEnds
