SPECIFICATION Spec
CONSTANTS
  MaxItems = 2
  MaxQueue = 1
  Kinds = {"tts", "alert", "content"}
  Demotes = TRUE
  Offsets = {1}
INVARIANT TypeOK
INVARIANT HeldForSomething
INVARIANT NothingStartsUnheld
INVARIANT LowIsTimed
INVARIANT RightItemSounds
PROPERTY ImplementsItems
VIEW Told
CONSTRAINT Few
CHECK_DEADLOCK FALSE
