SPECIFICATION HSpec
CONSTANTS
  t1 = t1
  t2 = t2
  Threads = {t1, t2}
  Master = t1
  N = 3
  Sweeps = 2
  Matrices <- TridiagonalOnly
  Options <- OneThread
INVARIANTS InitAsDocumented
