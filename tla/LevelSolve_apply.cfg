SPECIFICATION FairApply
CONSTANTS
  N = 4
  EdgeSets <- AllEdgeSets
  Problems <- MCProblems
  Kinds = {"sgs", "ilu scaled"}
INVARIANTS RaceFree SerialResult
PROPERTIES Returns ImplementsSubstitution
