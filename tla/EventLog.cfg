SPECIFICATION LiveSpec
CONSTANTS
  Instances = {i1}
  Events = {e1, e2, e3}
  Ship = Ship
INVARIANTS
  TypeOK
  NoEventLost
  PayloadHasHeader
  DuplicatesAreExcused
PROPERTIES
  MutexIsReleased
  HealthyLogIsShipped
  RefinesPromise
