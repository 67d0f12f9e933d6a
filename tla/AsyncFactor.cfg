SPECIFICATION HFairSpec
CONSTANTS
  t1 = t1
  t2 = t2
  Threads = {t1, t2}
  Master = t1
  N = 3
  Sweeps = 2
  Matrices <- Patterns2
  Options <- AllOptions
INVARIANTS
  TypeOK
  RootsExact
  InOrderIsExact
  Converges
PROPERTIES
  RoundsAdvance
  ImplementsChaos
  Returns
