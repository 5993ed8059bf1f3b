CONSTANTS
  M = M
  F = F
  C1 = C1
  C2 = C2
  Func = {M, F, C1, C2}
  Graphs <- MCGraphs
SPECIFICATION Spec
INVARIANTS
  NeverFreeIsReal
  SinksTraced
  PathIsStack
  AllMeansAllInEntry
  PassedOn
PROPERTIES
  DetectorEnds
