SPECIFICATION Spec
CONSTANTS
  Settings <- MCSettings
  NoRule = NoRule
  MaxRules = 1
  RingSize = 2
  MaxWrites = 2
  MaxEdits = 2
  Horizon = 2
INVARIANTS CountsOwnFires PressNotSwallowed NoLostWakeup
PROPERTIES CooldownSpacing EdgeNeedsFall
CHECK_DEADLOCK FALSE
