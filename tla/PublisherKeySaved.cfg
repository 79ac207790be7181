SPECIFICATION Spec
CONSTANTS
  Ticker = ticker
  Timers = {x1, x2}
  MaxKey = 2
  LockTicks = 4
  RequestTicks = 1
  NoKey = NoKey
  Faulty = TRUE
  Shared = FALSE
INVARIANTS
  RotatedSecretIsSaved
