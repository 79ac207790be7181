SPECIFICATION Spec
CONSTANTS
  Instances = {i1, i2}
  Events = {e1, e2, e3}
  Ship = Ship
INVARIANTS
  PayloadHasHeader
