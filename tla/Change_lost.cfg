SPECIFICATION Spec
CONSTANTS
  MaxTurns = 2
  MaxMain = 1
  None = None
PROPERTIES NoWorkLost
CHECK_DEADLOCK FALSE
