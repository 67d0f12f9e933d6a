SPECIFICATION HFairSpec
CONSTANTS
  t1 = t1
  t2 = t2
  Threads = {t1, t2}
  Master = t1
  N = 4
  Sweeps = 3
  Matrices <- Tridiagonal
  Options <- AllOptions
INVARIANTS
  SerialIsSubstitution
  RootsFinal
  Converges
PROPERTIES
  ImplementsChaos
  Ends
