------------------------------ MODULE PlayerIpc ------------------------------
(***************************************************************************)
(* What runs between a player of the application and its MediaPlayer in    *)
(* the mediaplayer process: commands and reports, each a datagram of a     *)
(* local socket.  Volume and mute commands, control results and volume       *)
(* reports change nothing that is modelled and are left out; so are the    *)
(* source ids in commands and reports, which neither side looks at.        *)
(***************************************************************************)
EXTENDS Naturals, Sequences

CONSTANTS
  MaxItems,   \* bound: items a run plays
  MaxQueue    \* bound: commands not yet read, reports not yet handled

ASSUME IpcAssumption ==
  /\ MaxItems \in Nat \ {0}
  /\ MaxQueue \in Nat \ {0}

VARIABLES
  cmds,       \* commands the process has not read
  reports     \* reports the application has not handled

Item == 1..MaxItems

\* EVT_MEDIAPLAYER_SET_SOURCE and the control commands
SetSource(i) == [op |-> "SET_SOURCE", item |-> i]
Control(c) == [op |-> c, item |-> 0]
Command == [op : {"SET_SOURCE"}, item : Item] \cup [op : {"PLAY", "STOP", "PAUSE", "RESUME", "OFFSET"}, item : {0}]

\* DO_MEDIAPLAYER_REPORT_SOURCE_ID ("source"), _OFFSET ("offset") and the play statuses
Report == {"source", "offset", "play", "pause", "finish", "stop", "error"}

=============================================================================
