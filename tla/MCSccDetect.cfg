SPECIFICATION Spec
CONSTANTS
  Nodes = {0, 1, 2}
  MaxEdges = 9
  Graphs <- MCGraphs
INVARIANTS FindsTheCycles StackEmptyBetweenCalls
CHECK_DEADLOCK FALSE
