SPECIFICATION HFairSpec
CONSTANTS
  t1 = t1
  t2 = t2
  Threads = {t1, t2}
  Master = t1
  N = 3
  MaxGen = 6
  Problems <- SmallProblems
  Options <- AllOptions
INVARIANTS ReadsAsSerial NothingLost Contracts
PROPERTIES Returns ImplementsRelaxation
