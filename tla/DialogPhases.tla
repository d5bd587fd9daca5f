----------------------------- MODULE DialogPhases -----------------------------
(***************************************************************************)
(* What a user may expect of a dialog.  Dialogs come one after another; a  *)
(* new one may take the place of the present one at any time.  One that    *)
(* waits to begin listens once; it may lose the microphone, to an alert    *)
(* say, but does not take it back; it thinks once, and ends once.  When    *)
(* the promise does not hold any more the phase is "disturbed".            *)
(***************************************************************************)
EXTENDS Naturals

VARIABLES
  phase,    \* of the present dialog
  number    \* how many dialogs there have been

Init == phase = "ended" /\ number = 0

Start ==
  /\ phase' \in {"starting", "thinking"}
  /\ number' = number + 1

Listens == phase = "starting" /\ phase' = "listening"
LosesMicrophone == phase = "listening" /\ phase' = "deaf"
Thinks == phase \in {"listening", "deaf"} /\ phase' = "thinking"
Ends == phase \in {"listening", "deaf", "thinking"} /\ phase' = "ended"

Disturbed == phase' = "disturbed" /\ number' = 0

Next ==
  \/ Start /\ phase # "disturbed"
  \/ (Listens \/ LosesMicrophone \/ Thinks \/ Ends) /\ UNCHANGED number
  \/ Disturbed

Spec == Init /\ [][Next]_<<phase, number>>
=============================================================================
