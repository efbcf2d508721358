SPECIFICATION Spec
CONSTANTS
  Nodes = {1, 2}
  MaxNodes = 1
  MaxKeys = 2
  MaxSweeps = 2
  MaxWindows = 2
  MaxFaults = 1
  CheckinQueueLen = 1
  FlushLen = 1
  SeqMod = 3
  AckAirLen = 2
  MaxFlashFails = 1
  RoleRestarts = 1
  Tasks = {"forward_task", "battery_cycle"}
  Channels = {1, 2}
  PongLen = 2
  MaxSends = 2
  Sensors = {1, 2}
  Second = 2
  ForwardQueueLen = 1
  BufferLen = 1
  MaxAge = 2
  AgeLimit = 3
  CntMod = 2
  SendTicks = 0
  FailLimit = 2
  MaxTime = 6
  MaxReadings = 2
  Total = 2
  RecvQueueLen = 1
  StatusAirLen = 1
  MaxStalls = 1
  MaxSilent = 1
  FinalizePolls = 1
  MaxSessions = 2
  OnBattery = {2}
  UpdateRestarts = 1
  Modes = {0, 1}
  FailedWakes = 2
  MaxRetries = 1
  CheckinsWaiting = 2
  MaxChanges = 1
  MaxUpdates = 1
  MaxTrouble = 2
  MaxWriteFails = 1
  MaxCrashes = 1
  MaxOutages = 1
  MaxRoles = 1
INVARIANTS KeysAgree DoneIsPersistedOrFailed OkIsOwn RegressIsBounded
INVARIANTS NeverBootsMixed HubBelievesTruth AbortReachesParked NeverRollsItselfBack
CHECK_DEADLOCK FALSE
