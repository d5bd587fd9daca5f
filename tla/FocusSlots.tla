------------------------------ MODULE FocusSlots ------------------------------
(***************************************************************************)
(* What the channel manager promises its listeners: one foreground slot    *)
(* and one background slot.  A channel enters a slot only when it is free, *)
(* channels move one at a time, and a channel that loses its slot is told  *)
(* before the next one is told that it has it.  When the promise does not  *)
(* hold any more the manager is not calm.                                  *)
(***************************************************************************)
CONSTANT Channel

VARIABLES focus, calm

Slot == {"FOREGROUND", "BACKGROUND"}

Free(slot) == \A c \in Channel : focus[c] # slot

Init == focus = [c \in Channel |-> "NONE"] /\ calm = TRUE

Enter(c, slot) ==
  /\ Free(slot)
  /\ focus' = [focus EXCEPT ![c] = slot]

Leave(c) ==
  /\ focus[c] \in Slot
  /\ focus' = [focus EXCEPT ![c] = "NONE"]

Moves == \E c \in Channel : Leave(c) \/ \E slot \in Slot : Enter(c, slot)

Next ==
  \/ calm /\ calm' = TRUE /\ Moves
  \/ calm' = FALSE

Spec == Init /\ [][Next]_<<focus, calm>>
=============================================================================
