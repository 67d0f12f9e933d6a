SPECIFICATION BoundedSpec
CONSTANTS
  N = 4
  Matrices <- Patterns
  MaxLevels = 6
INVARIANTS
  ReturnsSchedule
  NoFaultyList
  NoEmptyList
  ListsExact
  OnlySymmetricReturns
PROPERTIES
  Terminates
  ImplementsGreedy
