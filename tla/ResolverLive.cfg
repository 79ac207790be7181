SPECIFICATION LiveSpec
CONSTANTS
  Threads = {t1}
  Workers = {k1}
  Hosts = {h1}
  URLs = {u1, u2}
  Paths = {p1}
  ETags <- MCETags
  ETagOf <- MCETagOf
  Dated <- MCDated
  MaxDate = 2
  First = u1
  Second = u2
  Mixed = TRUE
  EmptyBody = EmptyBody
  NoURL = NoURL
  Unset = Unset
  NoHost = NoHost
  CacheTTL = 2
  RefreshBefore = 1
  RefreshJitter = 1
  RetryDelay = 1
  NoDirectiveDelay = 1
PROPERTIES
  RefreshEnds
  EventuallyCurrent
