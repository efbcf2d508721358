SPECIFICATION Spec
CONSTANTS
  Devices = {1, 2}
  Addresses = {1, 2}
  Endpoints <- MCEndpoints
  MaxRecords = 2
  MaxRetries = 1
  MaxAnnounces = 2
  Slots = {0, 1}
  MaxCommands = 4
  Callers = {1, 2}
  Window = 3
  Grace = 1
  MaxOpens = 3
  Macs = {7}
  Caps = {"a", "b"}
  PlantsMax = 2
  LastPlantId = 2
  CacheSlots = 4
  PlantChanges = 3
  MaxTicks = 2
  Zigbee = {2}
  EntityCaps = {1}
  LastPlant = 1
  QueueDepth = 2
  EntityChanges = 2
  MaxReports = 1
  MaxDrops = 1
  Keys = {1, 2, 3}
  WrapperSlots = 2
  WrapperChanges = 3
  Sensors = {7, 8}
  RingMacs = {7}
  NamedMacs = {8}
  MigrationChanges = 2
  RuleSlots = {1, 2}
  RuleChanges = 4
  Writers = {1, 2}
  Resetters = {1}
  MaxCalls = 2
  LastId = 3
  MaxReboots = 1
  MaxFails = 1
  MaxCrashes = 1
INVARIANTS OwnUnlessRaced OutcomeIsItsOwn RelaxedIsBounded
INVARIANTS HistoryIsOwn NoOrphan SavedIsWhatRuns FlashMovesForward
CHECK_DEADLOCK FALSE
