SPECIFICATION FairSpec
CONSTANTS
  Socket = {s1, s2, s3}
  None = None
  MaxTimers = 2
INVARIANT TypeOK
INVARIANT ConnectionBehindFlag
INVARIANT SendsReachServer
INVARIANT NothingAfterLoss
INVARIANT OneConnection
INVARIANT EveryErrorHeard
PROPERTY StopLasts
PROPERTY Recovers
CHECK_DEADLOCK FALSE
