---------------------------- MODULE ConfigAttempts ----------------------------
(***************************************************************************)
(* What the rest of the application may expect of the configuration of the *)
(* network: one attempt after another, each announced and each ended once. *)
(* An attempt first waits for a phone, then for the Wi-Fi, then for its    *)
(* authorization, and only the last of these ends it without an error.     *)
(* When the promise does not hold any more the phase is "disturbed".       *)
(***************************************************************************)
VARIABLES
  phase,    \* of the attempt under way, "idle" when there is none
  told      \* the last thing that was emitted of it

Init == phase = "idle" /\ told = "none"

Begins == phase' = "network" /\ told' = "config_start"
Receives == phase = "network" /\ phase' = "joining" /\ UNCHANGED told
Joins == phase = "joining" /\ phase' = "authorizing" /\ UNCHANGED told
Succeeds == phase = "authorizing" /\ phase' = "idle" /\ told' = "config_end"
Fails == phase # "idle" /\ phase' = "idle" /\ told' = "config_end with an error"

ProcessDies == phase' = "idle" /\ told' = "none"
Disturbed == phase' = "disturbed" /\ told' = "none"

Next ==
  \/ phase # "disturbed" /\ (Begins \/ Receives \/ Joins \/ Succeeds \/ Fails \/ ProcessDies)
  \/ Disturbed

Spec == Init /\ [][Next]_<<phase, told>>
=============================================================================
