----------------------------- MODULE PlayedItems -----------------------------
(***************************************************************************)
(* What somebody who gives a player items may expect of it.  They are      *)
(* numbered as they are asked for, and taken one at a time in that order,  *)
(* some of them passed over.  Nothing sounds but the item that is taken.   *)
(* The player is done with it, silent and for good, after it was heard or  *)
(* somebody asked to stop it.  When the promise does not hold any more the *)
(* player is not calm.                                                     *)
(***************************************************************************)
EXTENDS Naturals

VARIABLES
  asked,    \* how many items have been asked for
  current,  \* the item that is taken, 0 when there is none
  sounding, \* the item that sounds, 0 when there is none
  heard,    \* the items that have sounded
  cut,      \* those somebody asked to stop
  over,     \* those the player is done with
  calm

vars == <<asked, current, sounding, heard, cut, over, calm>>

Init ==
  /\ asked = 0 /\ current = 0 /\ sounding = 0
  /\ heard = {} /\ cut = {} /\ over = {}
  /\ calm = TRUE

\* An item is asked for, or none; the present one is to stop, or goes on.
Wishes ==
  /\ asked' \in {asked, asked + 1}
  /\ cut' = cut \/ (current' # 0 /\ cut' = cut \cup {current'})

\* No item is taken, or one after all that are over.
Takes == current' # 0 => current' \in 1..asked' /\ \A i \in over' : i < current'

Begins == current = 0 /\ UNCHANGED over /\ Takes
GoesOn == UNCHANGED <<current, over>>
Ends ==
  /\ current \in heard \cup cut
  /\ sounding = 0
  /\ over' = over \cup {current}
  /\ Takes

Turns == Wishes /\ (Begins \/ GoesOn \/ Ends) /\ UNCHANGED <<sounding, heard>>

Sounds ==
  /\ sounding' \in {0, current}
  /\ heard' = heard \cup ({sounding'} \ {0})
  /\ UNCHANGED <<asked, current, cut, over>>

Next ==
  \/ calm /\ calm' = TRUE /\ (Turns \/ Sounds)
  \/ calm' = FALSE

Spec == Init /\ [][Next]_vars
=============================================================================
