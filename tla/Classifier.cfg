SPECIFICATION LiveSpec
CONSTANTS
  Requests = {t1}
  Boot = boot
  Refreshes = {k1, k2}
  MaxVersion = 2
  Absent = Absent
  Unreadable = Unreadable
INVARIANTS
  TypeOK
  SingleFlight
  FlagMeansFlight
  StartIsNoOlder
PROPERTIES
  RulesOnlyAdvance
  RefreshEnds
  ClassifiedRulesBecomeCurrent
  RefinesPromise
