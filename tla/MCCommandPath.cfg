SPECIFICATION Spec
CONSTANTS
  Keys = {k1, k2}
  NoCommand = NoCommand
  QueueMax = 2
  MaxCommands = 4
INVARIANTS NothingVanishes OwedUnlessRaced
CHECK_DEADLOCK FALSE
