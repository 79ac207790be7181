SPECIFICATION LiveSpec
CONSTANTS
  Ticker = ticker
  Timers = {x1}
  MaxKey = 2
  LockTicks = 4
  RequestTicks = 1
  NoKey = NoKey
  Faulty = TRUE
  Shared = TRUE
INVARIANTS
  TypeOK
  RotationIsExclusive
  SecretIsLive
PROPERTIES
  SecretAdvances
  RefinesCustody
  RotationEnds
  DueKeyIsRotated
