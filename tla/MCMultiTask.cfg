SPECIFICATION Spec
CONSTANTS
  TaskNum = 3
  DataNum = 4
INVARIANTS LeavesOnlyWhenAsked ReturnsAfterAllExit LeavesDataBehind
CHECK_DEADLOCK FALSE
