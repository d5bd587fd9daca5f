SPECIFICATION Spec
CONSTANTS
  MaxItems = 3
  MaxQueue = 2
  Kinds = {"content"}
  Demotes = TRUE
  Offsets = {2}
CONSTRAINT InOrder
CONSTRAINT Unhurried
INVARIANT PlaysOnAfterStop
CHECK_DEADLOCK FALSE
