SPECIFICATION StorageSpec
CONSTANTS
  o1 = o1
  o2 = o2
  o3 = o3
  Objects = {o1, o2, o3}
  NumBlocks = 8
  RowNumbers = {0, 2}
  RawBlockSizes = {1, 4}
SYMMETRY Symmetric
INVARIANTS FreedOnce
