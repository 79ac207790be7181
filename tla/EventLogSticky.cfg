SPECIFICATION LiveSpec
CONSTANTS
  Instances = {i1}
  Events = {e1, e2, e3}
  Ship = Ship
PROPERTIES
  LogIsShipped
