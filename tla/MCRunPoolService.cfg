SPECIFICATION FairSpec
CONSTANTS
  Runs = {r1, r2, r3}
  Threads = {t1, t2}
  Options = {o1}
  MaxConcurrent = 1
  NoRun = NoRun
  NoOptions = NoOptions
PROPERTIES
  QueuedIsServed
  RunningEnds
  FifoService
