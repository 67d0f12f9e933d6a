SPECIFICATION Spec
CONSTANTS
  t1 = t1
  t2 = t2
  Threads = {t1, t2}
  Mod <- MCMod
  Structures <- MCStructures
  Files <- MCFiles
  BlockSizes = {1, 2}
  Blocks <- MCBlocks
  Factors = {2}
  Orderings <- MCOrderings
  Assertions = TRUE
  MaxCalls = 1
CHECK_DEADLOCK FALSE
INVARIANT AllRowsGathered
