---------------------------- MODULE AudioChannels ----------------------------
(***************************************************************************)
(* The channel table of the EVSAudioMgr constructor.                       *)
(***************************************************************************)
EvsChannel == {"AIP", "TTS", "ALERT", "CONTENT", "LOCAL"}

EvsPriority ==
  [c \in EvsChannel |-> CASE c = "AIP" -> 30
                          [] c = "ALERT" -> 40
                          [] c = "CONTENT" -> 50
                          [] OTHER -> 10]

\* Fault: TTS missing from the capture list of ALERT.
EvsCaptureOnShort ==
  [c \in EvsChannel |-> CASE c = "AIP" -> {"TTS", "LOCAL", "ALERT"}
                          [] c = "ALERT" -> {"LOCAL", "AIP"}
                          [] c = "CONTENT" -> {"ALERT", "TTS", "LOCAL", "AIP"}
                          [] OTHER -> {}]

EvsCaptureOn ==
  [c \in EvsChannel |-> CASE c = "AIP" -> {"TTS", "LOCAL", "ALERT"}
                          [] c = "ALERT" -> {"TTS", "LOCAL", "AIP"}
                          [] c = "CONTENT" -> {"ALERT", "TTS", "LOCAL", "AIP"}
                          [] OTHER -> {}]

\* Told that TTS lost its focus, EVSCapAudioPlayer hands playback to CONTENT.
EvsHandsOver == {<<"TTS", "CONTENT">>}

\* Told of a change while it waits for a stop, EVSAudioPlayer gives CONTENT up.
EvsGivesUp == {"CONTENT"}
=============================================================================
