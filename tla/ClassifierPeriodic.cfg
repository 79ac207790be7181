SPECIFICATION LiveSpec
CONSTANTS
  Requests = {t1}
  Boot = boot
  Refreshes = {k1}
  MaxVersion = 1
  Absent = Absent
  Unreadable = Unreadable
PROPERTIES
  RulesBecomeCurrent
