SPECIFICATION Spec
CONSTANTS
  MaxTurns = 2
  MaxMain = 1
  None = None
PROPERTIES PendingBlocks
CHECK_DEADLOCK FALSE
