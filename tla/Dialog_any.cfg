SPECIFICATION FairSpec
CONSTANTS
  MaxDialogs = 3
  MaxTimers = 3
INVARIANTS
  TypeOK
  VoiceOnlyWhenRecording
  NoStrayTimer
  RecordingIsHeard
  KeptForSpeech
PROPERTIES
  ImplementsPhases
  DialogEnds
