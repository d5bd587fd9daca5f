----------------------------- MODULE MCAudioFocus -----------------------------
(***************************************************************************)
(* Instances of AudioFocus for TLC: the table of the source alone, and     *)
(* that table with two channels more that capture nobody.  With the        *)
(* source's captures nobody ever waits behind a more important channel;    *)
(* the two reach the branches of acquireChannel where somebody does.       *)
(***************************************************************************)
EXTENDS AudioFocus, AudioChannels

PlainChannel == {"mid", "low"}
WideChannel == EvsChannel \cup PlainChannel
WidePriority ==
  [c \in WideChannel |-> CASE c = "mid" -> 50 [] c = "low" -> 60 [] OTHER -> EvsPriority[c]]
WideCaptureOn ==
  [c \in WideChannel |-> IF c \in PlainChannel THEN {} ELSE EvsCaptureOn[c]]
=============================================================================
