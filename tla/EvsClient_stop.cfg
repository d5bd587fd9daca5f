SPECIFICATION Spec
CONSTANTS
  Socket = {s1, s2, s3}
  None = None
  MaxTimers = 2
PROPERTY StopDisconnects
CHECK_DEADLOCK FALSE
