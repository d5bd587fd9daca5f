CONSTANTS
  Channel <- EvsChannel
  Priority <- EvsPriority
  CaptureOn <- EvsCaptureOn
  Nobody = Nobody
  HandsOver <- EvsHandsOver
  GivesUp <- EvsGivesUp
SPECIFICATION FairSpec
INVARIANTS TypeOK PointersMatchStates SingleBackground RequestGranted
PROPERTY CallsReturn
