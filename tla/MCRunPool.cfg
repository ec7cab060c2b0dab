SPECIFICATION Spec
CONSTANTS
  Runs = {r1, r2, r3}
  Threads = {t1, t2, t3}
  Options = {o1, o2}
  MaxConcurrent = 2
  NoRun = NoRun
  NoOptions = NoOptions
SYMMETRY Symmetry
INVARIANTS
  Inv
  OneWorkerPerRun
  ConcurrencyCap
  WorkConserving
  RowsAreOwned
  OptionsHonoured
PROPERTY ImplementsLifecycle
