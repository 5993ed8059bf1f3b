SPECIFICATION FairSpec
CONSTANTS
  NodeNum = 9
  MaxCst = 3
  Programs <- MCPrograms
INVARIANTS MergeForest SolvedUnlessCollapsed
PROPERTIES FactsKept ImplementsInclusion Termination
CHECK_DEADLOCK FALSE
