SPECIFICATION FairSpec
CONSTANTS
  MaxItems = 3
  MaxQueue = 2
  Kinds = {"tts", "alert", "content"}
  Demotes = TRUE
  Offsets = {2}
CONSTRAINT InOrder
CONSTRAINT Calm
INVARIANT PlayingIsPlayed
PROPERTY ChannelComesBack
CHECK_DEADLOCK FALSE
