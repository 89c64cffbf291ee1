CONSTANTS
  MaxCalls = 2
SPECIFICATION ToolsSpec
INVARIANT DrivingIsMarked
CHECK_DEADLOCK FALSE
