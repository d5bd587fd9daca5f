SPECIFICATION Spec
CONSTANTS
  MaxDialogs = 2
  MaxTimers = 2
PROPERTY LateStopsDropped
