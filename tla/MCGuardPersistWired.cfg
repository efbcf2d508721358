SPECIFICATION PersistSpec
CONSTANTS
  Devices = {d1}
  Keys = {k1}
  NoKey = NoKey
  NoDevice = NoDevice
  a = a
  Actions = {a}
  HardMax <- MCHardMax
  Endpoints = {1}
  MaxDevices = 1
  MaxActions = 1
  Window = 1
  CountMax = 1
  Plans <- MCPlans
  WiredKeys = {k1}
  Announces <- MCAnnounces
  Submitters = {"RULE", "MANUAL"}
  HourlyCaps = {1}
  MaxCrashes = 1
  MaxPresses = 1
INVARIANT WiredStopSurvives
CHECK_DEADLOCK FALSE
