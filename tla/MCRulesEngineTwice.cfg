SPECIFICATION Spec
CONSTANTS
  Settings <- MCButton
  NoRule = NoRule
  MaxRules = 1
  RingSize = 2
  MaxWrites = 2
  MaxEdits = 0
  Horizon = 3
PROPERTY PressFiresOnce
CHECK_DEADLOCK FALSE
