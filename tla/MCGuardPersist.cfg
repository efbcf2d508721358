SPECIFICATION PersistSpec
CONSTANTS
  Devices = {d1, d2}
  Keys = {k1, k2}
  NoKey = NoKey
  NoDevice = NoDevice
  a = a
  Actions = {a}
  HardMax <- MCHardMax
  Endpoints = {1}
  MaxDevices = 1
  MaxActions = 1
  Window = 1
  CountMax = 1
  Plans <- MCPlans
  WiredKeys = {k2}
  Announces <- MCAnnounces
  Submitters = {"RULE", "MANUAL"}
  HourlyCaps = {1}
  MaxCrashes = 1
  MaxPresses = 3
INVARIANTS StopSurvives NeverRefunded
CHECK_DEADLOCK FALSE
