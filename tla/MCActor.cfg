SPECIFICATION Spec
CONSTANTS
  Devices = {d1}
  Keys = {k1}
  NoKey = NoKey
  Actions = {on}
  HardMax <- MCHardMax
  Endpoints = {1, 2}
  MaxDevices = 1
  MaxActions = 1
  Window = 2
  CountMax = 2
  QueueMax = 2
  Callers = {"RULE", "SAFETY"}
  Params = {0}
  Bounds = {0}
  TimedOffs = {FALSE}
  Cooldowns = {0, 2}
  Caps = {0, 1}
  TTLs = {2}
  Horizon = 4
  MaxRequests = 3
INVARIANTS RollingBudget CooldownSpacing StopLetsOneThrough
PROPERTY ImplementsLanes
CHECK_DEADLOCK FALSE
