SPECIFICATION CloseFairSpec
CONSTANTS
  Identities = {k1, k2}
  NoKey = NoKey
  MaxPending = 2
  MaxRetries = 2
  AlertStreak = 2
  BackoffCap = 1
  Durations = {1}
  MaxKnown = 1
  MaxDispatched = 2
  MaxCrashes = 1
  MaxInflight = 1
INVARIANTS OpenHasObligation OpenIsOnFlash ExhaustedMeansTried
PROPERTIES NeverSilent
CHECK_DEADLOCK FALSE
