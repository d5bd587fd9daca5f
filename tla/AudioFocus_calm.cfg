CONSTANTS
  Channel <- WideChannel
  Priority <- WidePriority
  CaptureOn <- WideCaptureOn
  Nobody = Nobody
  HandsOver <- EvsHandsOver
  GivesUp <- EvsGivesUp
SPECIFICATION Spec
INVARIANTS NoWaitingForNobody ForegroundOutranksBackground
PROPERTY ImplementsSlots
