------------------------------ MODULE Playback ------------------------------
(***************************************************************************)
(* A player of the application on its MediaPlayer in the mediaplayer       *)
(* process: PlayerHandler and MediaProcess, with the commands and reports  *)
(* between them.  The router of the runtime                                *)
(* (jsruntime/src/modules/iotjs_module_iFLYOS.cpp) takes every report      *)
(* through its thread pool, so that two of them may change places.         *)
(***************************************************************************)
EXTENDS PlayerHandler, MediaProcess

playbackVars == <<cmds, reports, handlerVars, processVars>>

Init ==
  /\ cmds = <<>>
  /\ reports = <<>>
  /\ HandlerInit
  /\ ProcessInit

\* The report at place k, out of those the socket has, reaches the application.
Deliver(k) ==
  /\ k \in 1..Len(reports)
  /\ player.alive
  /\ Hear(reports[k], k # 1)
  /\ reports' = SubSeq(reports, 1, k - 1) \o SubSeq(reports, k + 1, Len(reports))
  /\ UNCHANGED processVars

Delivery == \E k \in 1..Len(reports) : Deliver(k)

Application ==
  \/ Directive /\ UNCHANGED processVars
  \/ (\E f \in Focus : FocusTo(f)) /\ UNCHANGED processVars
  \/ StopPlaying /\ UNCHANGED processVars
  \/ DelayedPlay /\ UNCHANGED processVars
  \/ GetContext /\ UNCHANGED processVars
  \/ Delivery

\* The process is killed with the application (prctl, mediaplayer/main.cpp:286).
Outlived == player.alive /\ UNCHANGED handlerVars

Process ==
  \/ Commanded /\ Outlived
  \/ Streaming /\ Outlived
  \/ (Tell \/ Settle) /\ Outlived

Next == Application \/ Process

Spec == Init /\ [][Next]_playbackVars

\* The application's event loop and each thread of the process keep running.
FairSpec ==
  /\ Spec
  /\ WF_playbackVars(Delivery)
  /\ WF_playbackVars(Commanded /\ Outlived)
  /\ WF_playbackVars((OpenStream \/ FailToOpen \/ FirstFrame \/ Complete) /\ Outlived)
  /\ WF_playbackVars(StopPlayThread /\ Outlived)
  /\ WF_playbackVars((Tell \/ Settle) /\ Outlived)

-------------------------------------------------------------------------------
TypeOK ==
  /\ cmds \in Seq(Command)
  /\ reports \in Seq(Report)
  /\ HandlerTypeOK
  /\ ProcessTypeOK

Sounding == stream.stage = "sounding" /\ ~stream.paused

Quiet == cmds = <<>> /\ reports = <<>> /\ notes = <<>> /\ stopTid # "running"

\* No item was asked to stop or ended before its source id was known, and no stream has failed.
Unhurried == ~player.hasty /\ broken = {}

\* The process and the router did everything in its order.
InOrder == ~player.crossed /\ ~slipped

\* No late answer has stopped an item that nobody asked to stop.
Calm == Unhurried /\ ~player.stale

(***************************************************************************)
(* Every item the player is done with was heard, unless it was stopped on  *)
(* request: nothing asked for is lost in between.                          *)
(***************************************************************************)
NoItemSkipped == Calm => player.over \subseteq heard \cup player.cut

(***************************************************************************)
(* stop() stops what played when it was called: with the true that PLAY    *)
(* IMMEDIATELY passes "the player can play on after it has become STOPPED" *)
(* (the comment at smartSpeakerApp/src/evsAudioPlayer.js:45), so that what *)
(* has been asked for next is heard, unless it is stopped itself.          *)
(***************************************************************************)
PlaysOnAfterStop == Unhurried /\ InOrder => player.over \subseteq heard \cup player.cut

(***************************************************************************)
(* What sounds is the item the application believes to be playing.         *)
(***************************************************************************)
RightItemSounds == Calm /\ Sounding => player.playing # "null" /\ player.item = stream.item

(***************************************************************************)
(* To whoever gives it items, a player with its process is what            *)
(* PlayedItems says: one item after another, nothing but the present one   *)
(* sounding, and none of them over before it was heard or stopped.         *)
(***************************************************************************)
Items == INSTANCE PlayedItems
  WITH asked    <- directives,
       current  <- IF player.playing = "null" THEN 0 ELSE player.item,
       sounding <- IF Sounding THEN stream.item ELSE 0,
       cut      <- player.cut,
       over     <- player.over,
       calm     <- Calm

ImplementsItems == Items!Spec

(***************************************************************************)
(* The channel is never held for nothing: a player with a focus has an     *)
(* item that plays, or one that waits for its turn.                        *)
(***************************************************************************)
HeldForSomething == player.focus # "NONE" => Active(player) \/ player.wait # <<>>

(***************************************************************************)
(* play() is never called on a busy EVSMediaPlayer: what has been asked of *)
(* it belongs to a player that says it is playing or paused.               *)
(***************************************************************************)
PlayingIsActive == player.playing # "null" => Active(player)

(***************************************************************************)
(* Nothing starts without the channel: an item asked of the process that   *)
(* is not to be cancelled belongs to a player that has a focus, delayed    *)
(* play, lists kept over a stop and all.                                   *)
(***************************************************************************)
NothingStartsUnheld == player.playing = "asked" /\ ~player.cancel => player.focus # "NONE"

(***************************************************************************)
(* The volume comes back: a player that lowers it in the background is low *)
(* in the foreground only while the timer runs that will raise it, or what *)
(* it plays has been asked to stop and the next item will be loud.         *)
(***************************************************************************)
LowIsTimed ==
  player.alive /\ player.focus = "FOREGROUND" /\ ~player.loud =>
    player.delayed \/ player.item \in player.cut

(***************************************************************************)
(* What the application says it is playing is played: once every message   *)
(* has arrived, a player that says so has its item open and not paused, or *)
(* the item is still being opened.  It is stated of the players that do    *)
(* not pause in the background, as long as everything comes in its order.  *)
(***************************************************************************)
PlayingIsPlayed ==
  Calm /\ InOrder /\ VolDown(player) /\ player.state = "PLAYING" /\ Quiet =>
    player.item = stream.item /\ (stream.paused => stream.stage = "opening")

(***************************************************************************)
(* The channel comes back: whatever is asked of a player that does not     *)
(* pause in the background, it ends with its items and releases the        *)
(* channel, unless something comes out of its order.                       *)
(***************************************************************************)
ChannelComesBack ==
  VolDown(player) /\ player.focus # "NONE" ~> player.focus = "NONE" \/ ~(Calm /\ InOrder)

=============================================================================
