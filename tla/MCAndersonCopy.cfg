SPECIFICATION Spec
CONSTANTS
  NodeNum = 9
  MaxCst = 3
  Programs <- MCPrograms
INVARIANT CopySolved
CHECK_DEADLOCK FALSE
