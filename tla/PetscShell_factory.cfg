SPECIFICATION Spec
CONSTANTS
  m1 = m1
  m2 = m2
  Ksps <- NestedKsps
  Root = 1
  Kind <- NestedKind
  Kids <- NestedKids
  Addrs = {1, 2, 3, 4, 5}
  Mats = {m1, m2}
  FirstMat = m1
  Types = {"jacobi", "ilu0", "async_level_ilu0"}
INVARIANTS SameFactory
