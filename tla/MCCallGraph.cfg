CONSTANTS
  FuncNum = 5
  HasBody <- MCHasBody
  ArgNum <- MCArgNum
  Entry = 0
  PathDepth = 3
  MaxCall = 3
  MaxCand = 2
SPECIFICATION FairSpec
INVARIANTS
  PathsComplete
  WalkedAreLinked
  EveryReachableRefreshed
  
PROPERTY BuildEnds
