SPECIFICATION Spec
CONSTANTS
  Modes = {0, 1}
  FailLimit = 2
  MaxRetries = 1
  QueueLen = 2
  MaxChanges = 1
  MaxUpdates = 1
  MaxTrouble = 2
  MaxFlashFails = 1
  MaxCrashes = 1
  MaxOutages = 1
  MaxRoles = 1
PROPERTIES HubGoneEndsAlwaysOn ModeSettles
CHECK_DEADLOCK FALSE
