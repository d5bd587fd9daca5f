---------------------------- MODULE PlayerHandler ----------------------------
(***************************************************************************)
(* A player of the application: EVSPlayerHandler                           *)
(* (smartSpeakerApp/src/evsPlayerHandler.js) with its wait list and its    *)
(* audio channel, on its EVSMediaPlayer (evsMediaPlayer.js), the           *)
(* application's end of the mediaplayer process; and the players built on  *)
(* it (evsTTSPlayer.js, evsAlertPlayer.js, evsSoundPlayer.js,              *)
(* evsAudioPlayer.js).                                                     *)
(*                                                                         *)
(* An action is one callback with every synchronous emit in it, written as *)
(* operators from a player's record to the next one.  The manager's answer *)
(* to releaseChannel (focus NONE, at once) is part of the callback.        *)
(* EVSMediaPlayer.activity and EVSPlayerHandler.playerState change one     *)
(* inside the other's emit and are one field.  pause() has no caller among *)
(* these players, so isActivePause and isPauseCalled stay false, resume()  *)
(* finds nothing paused, and all of them are left out.                     *)
(***************************************************************************)
EXTENDS PlayerIpc

CONSTANTS
  Kinds,      \* the players: "tts" (also the sound player, which lets nothing follow), "alert", "content"
  Demotes     \* may the manager put the channel in the background and back?

PlayerKind == {"tts", "alert", "content"}

ASSUME HandlerAssumption ==
  /\ Kinds \subseteq PlayerKind
  /\ Demotes \in BOOLEAN

VARIABLES
  player,     \* the player's fields
  directives  \* how many items have been asked for

handlerVars == <<player, directives>>

(***************************************************************************)
(* kind; focus: focusState; state: playerState and activity; wait:         *)
(* waitList; item: playItem, 0 before the first; playing:                  *)
(* EVSMediaPlayer.playing is null, asked (no source id yet) or known;      *)
(* cancel: playing.cancel; playAfterStop; loud: the last volume sent was   *)
(* the full one; delayed: delayedPlay runs; stops: the items that stop()   *)
(* was called for, whose offset has been asked for; alive: nothing has     *)
(* been thrown; out: the commands this callback sends.  Only properties    *)
(* read cut, the items somebody asked to stop; over, those done with;      *)
(* stale, an answer came for a stop of an item before the present one;     *)
(* hasty, an item was asked to stop, or ended, before its source id was    *)
(* known; and crossed, a report has overtaken another one.                 *)
(***************************************************************************)
Focus == {"NONE", "BACKGROUND", "FOREGROUND"}
Activity == {"IDLE", "PLAYING", "PAUSED", "STOPPED", "FINISHED"}

PlayerRecord == [
  kind : PlayerKind, focus : Focus, state : Activity, wait : Seq(Item), item : Item \cup {0},
  playing : {"null", "asked", "known"}, cancel : BOOLEAN,
  playAfterStop : BOOLEAN, loud : BOOLEAN, delayed : BOOLEAN, stops : SUBSET Item, alive : BOOLEAN,
  cut : SUBSET Item, over : SUBSET Item, stale : BOOLEAN, hasty : BOOLEAN, crossed : BOOLEAN, out : Seq(Command)]

HandlerInit ==
  /\ \E k \in Kinds :
       player = [kind |-> k, focus |-> "NONE", state |-> "IDLE", wait |-> <<>>, item |-> 0,
                 playing |-> "null", cancel |-> FALSE,
                 playAfterStop |-> TRUE, loud |-> TRUE, delayed |-> FALSE, stops |-> {}, alive |-> TRUE,
                 cut |-> {}, over |-> {}, stale |-> FALSE, hasty |-> FALSE, crossed |-> FALSE, out |-> <<>>]
  /\ directives = 0

Active(p) == p.state \in {"PLAYING", "PAUSED"}

\* bgMode VOL_DOWN: in the background the player plays on at a fifth of its volume; else it pauses.
VolDown(p) == p.kind \in {"alert", "content"}

-------------------------------------------------------------------------------
(***************************************************************************)
(* EVSMediaPlayer.                                                         *)
(***************************************************************************)
Send(p, c) == [p EXCEPT !.out = Append(@, c)]

\* _playControl: nothing is sent while the source id is not known
PlayControl(p, c) == IF p.playing = "known" THEN Send(p, Control(c)) ELSE p

\* play(), for the item _playNext has taken; busy, it throws
PlayItem(p) ==
  IF p.playing # "null" THEN p
  ELSE Send([p EXCEPT !.playing = "asked", !.cancel = FALSE, !.state = "PLAYING"], SetSource(p.item))

\* Fault: stop() takes the item for stopped before the process says so.
PlayerStopAtOnce(p) ==
  IF p.playing = "known"
  THEN [Send(p, Control("STOP")) EXCEPT !.playing = "null", !.state = "STOPPED"]
  ELSE p

PlayerStop(p) ==
  IF p.playing = "asked" THEN [p EXCEPT !.cancel = TRUE] ELSE PlayControl(p, "STOP")

PlayerPause(p) == IF p.state = "PLAYING" THEN PlayControl(p, "PAUSE") ELSE p
PlayerResume(p) == IF p.state = "PAUSED" THEN PlayControl(p, "RESUME") ELSE p

\* playing = null
Drop(p) ==
  [p EXCEPT !.playing = "null", !.cancel = FALSE,
            !.hasty = @ \/ (p.playing = "asked" /\ ~p.cancel),
            !.over = IF p.playing = "null" THEN @ ELSE @ \cup {p.item}]

\* An exception that nobody catches ends the application.
Throw(p) == [p EXCEPT !.alive = FALSE]

-------------------------------------------------------------------------------
(***************************************************************************)
(* EVSPlayerHandler.                                                       *)
(***************************************************************************)
\* Somebody asks to stop what plays.
Cut(p) ==
  IF p.playing = "null" THEN p
  ELSE [p EXCEPT !.cut = @ \cup {p.item}, !.hasty = @ \/ p.playing = "asked"]

\* Fault: the next item is played as loud as the one before.
PlayNextAsLoud(p) ==
  IF p.wait = <<>> THEN p
  ELSE PlayItem([p EXCEPT !.item = Head(p.wait), !.wait = Tail(p.wait)])

PlayNext(p) ==
  IF p.wait = <<>> THEN p
  ELSE PlayItem([p EXCEPT !.item = Head(p.wait), !.wait = Tail(p.wait),
                          !.loud = @ \/ p.focus = "FOREGROUND"])

PlayForeground(p) ==
  LET full == [p EXCEPT !.loud = TRUE]
  IN  CASE ~VolDown(p) /\ p.state = "PAUSED" -> PlayerResume(p)
        [] ~Active(p)                        -> PlayNext(full)
        [] OTHER                             -> full

PlayBackground(p) ==
  LET low == [p EXCEPT !.loud = FALSE]
  IN  CASE ~VolDown(p)              -> PlayerPause(p)
        [] VolDown(p) /\ ~Active(p) -> PlayNext(low)
        [] VolDown(p) /\ Active(p)  -> low

\* _onFocusState(NONE)
LoseFocus(p) == PlayerStop(Cut([p EXCEPT !.focus = "NONE", !.wait = <<>>]))

\* EVSPlayerHandler._onFocusState
OnHandlerFocus(p, f) ==
  CASE f = "NONE"       -> LoseFocus(p)
    [] f = "FOREGROUND" -> PlayForeground([p EXCEPT !.focus = f])
    [] f = "BACKGROUND" -> PlayBackground([p EXCEPT !.focus = f])

\* Fault: the content player keeps its list when it loses the channel.
OnContentFocusKeepingList(p, f, byAip) ==
  LET q == [p EXCEPT !.focus = f]
  IN  CASE ~p.playAfterStop                        -> [q EXCEPT !.focus = "NONE"]
        [] p.playAfterStop /\ f = "NONE"           -> PlayerStop(Cut(q))
        [] p.playAfterStop /\ f = "FOREGROUND" /\ byAip  -> [q EXCEPT !.delayed = TRUE]
        [] p.playAfterStop /\ f = "FOREGROUND" /\ ~byAip -> PlayForeground([q EXCEPT !.delayed = FALSE])
        [] p.playAfterStop /\ f = "BACKGROUND"     -> PlayBackground([q EXCEPT !.delayed = FALSE])

\* EVSAudioPlayer._onFocusState: after stop(false) the channel is released, whatever it became.
OnContentFocus(p, f, byAip) ==
  LET q == [p EXCEPT !.focus = f]
  IN  CASE ~p.playAfterStop                        -> [q EXCEPT !.focus = "NONE"]
        [] p.playAfterStop /\ f = "NONE"           -> LoseFocus(p)
        [] p.playAfterStop /\ f = "FOREGROUND" /\ byAip  -> [q EXCEPT !.delayed = TRUE]
        [] p.playAfterStop /\ f = "FOREGROUND" /\ ~byAip -> PlayForeground([q EXCEPT !.delayed = FALSE])
        [] p.playAfterStop /\ f = "BACKGROUND"     -> PlayBackground([q EXCEPT !.delayed = FALSE])

\* The manager tells a focus; byAip: because the channel AIP was released.
OnFocusState(p, f, byAip) ==
  CASE f = p.focus                         -> p
    [] f # p.focus /\ p.kind = "content"   -> OnContentFocus(p, f, byAip)
    [] f # p.focus /\ p.kind # "content"   -> OnHandlerFocus(p, f)

ReleaseChannel(p) == OnFocusState(p, "NONE", FALSE)

\* The manager puts the channel in f at once.
AcquireChannel(p, f) == OnFocusState([p EXCEPT !.playAfterStop = TRUE], f, FALSE)

\* Fault: the channel stays when the list is empty.
EndedKeeping(p) == IF p.playAfterStop THEN PlayNext(p) ELSE ReleaseChannel(p)

\* _onPlayerState(STOPPED or FINISHED)
Ended(p) == IF ~p.playAfterStop \/ p.wait = <<>> THEN ReleaseChannel(p) ELSE PlayNext(p)

\* _changeActivity and, inside its emit, _onPlayerState
ChangeActivity(p, a) ==
  LET q == [p EXCEPT !.state = a]
  IN  IF a = p.state THEN p
      ELSE IF a \in {"STOPPED", "FINISHED"} THEN Ended(q) ELSE q

\* stop(playAfterStop)
HandlerStop(p, after) ==
  IF Active(p) THEN PlayerStop(Cut([p EXCEPT !.playAfterStop = after])) ELSE p

-------------------------------------------------------------------------------
(***************************************************************************)
(* EVSAudioPlayer.                                                         *)
(***************************************************************************)
\* getOffset(), whose answer goes on with doing: at once while there is no source id.
\* It throws when a player that says it plays has nothing to play.
GetOffset(p, doing, atOnce) ==
  CASE p.playing = "null"  -> Throw(p)
    [] p.playing = "asked" -> atOnce
    [] p.playing = "known" -> Send(doing, Control("OFFSET"))

ContentStop(p, after) ==
  LET q == Cut([p EXCEPT !.delayed = FALSE, !.playAfterStop = after])
  IN  IF Active(p) THEN GetOffset(q, [q EXCEPT !.stops = @ \cup {q.item}], PlayerStop(q))
      ELSE [p EXCEPT !.delayed = FALSE]

Stop(p, after) == IF p.kind = "content" THEN ContentStop(p, after) ELSE HandlerStop(p, after)

\* The first offset reported is taken for the answer to every question asked so far.  The
\* process ignores a STOP that follows a STOP, so that several stops are one.
AnswerOffset(p) ==
  LET late == p.playing # "null" /\ p.stops \ {p.item} # {}
  IN  IF p.stops = {} THEN p ELSE PlayerStop([p EXCEPT !.stops = {}, !.stale = @ \/ late])

-------------------------------------------------------------------------------
(***************************************************************************)
(* The callbacks.                                                          *)
(***************************************************************************)
Becomes(p) ==
  /\ player' = [p EXCEPT !.out = <<>>]
  /\ cmds' = cmds \o p.out

\* The application acts on a player while its commands are being read, and on the content
\* player, whose questions are answered, while its reports are being handled.
Free ==
  /\ player.alive
  /\ Len(cmds) < MaxQueue
  /\ player.kind = "content" => Len(reports) < MaxQueue

Granted == IF Demotes THEN {"FOREGROUND", "BACKGROUND"} ELSE {"FOREGROUND"}

\* onDirective of an item that replaces what plays
Replace(i) == [Stop([player EXCEPT !.wait = <<>>], TRUE) EXCEPT !.wait = <<i>>]

\* onDirective of an item that follows: speech of one request, content not played IMMEDIATELY
Follow(i) == [player EXCEPT !.wait = IF player.kind = "content" THEN <<i>> ELSE Append(@, i)]

MayFollow == player.kind = "content" \/ (player.kind = "tts" /\ player.item # 0)

Directive ==
  /\ Free
  /\ directives < MaxItems
  /\ directives' = directives + 1
  /\ \E p \in {Replace(directives + 1)} \cup (IF MayFollow THEN {Follow(directives + 1)} ELSE {}) :
       IF player.focus = "NONE"
       THEN \E f \in Granted : Becomes(AcquireChannel(p, f))
       ELSE Becomes(p)
  /\ UNCHANGED reports

\* The manager changes the focus of a channel that has it.
FocusTo(f) ==
  /\ Free
  /\ player.focus \notin {"NONE", f}
  /\ f = "NONE" \/ f \in Granted
  /\ \E byAip \in BOOLEAN : Becomes(OnFocusState(player, f, byAip))
  /\ UNCHANGED <<directives, reports>>

\* The button, a directive that stops or a loss of the connection: stop(), after which
\* what waits is not played.
StopPlaying ==
  /\ Free
  /\ Active(player)
  /\ Becomes(Stop(player, FALSE))
  /\ UNCHANGED <<directives, reports>>

\* The timer of delayedPlay: _play()
DelayedPlay ==
  /\ player.alive
  /\ player.delayed
  /\ Becomes(PlayForeground([player EXCEPT !.delayed = FALSE]))
  /\ UNCHANGED <<directives, reports>>

\* _getContext of the content player, for a request
GetContext ==
  /\ Free
  /\ player.kind = "content"
  /\ player.state = "PLAYING"
  /\ Becomes(GetOffset(player, player, player))
  /\ UNCHANGED <<directives, reports>>

\* _onSourceId; it throws when nothing is playing.
KnowSource(p) ==
  CASE p.playing = "null" -> Throw(p)
    [] p.playing # "null" /\ p.cancel ->
         ChangeActivity(Drop(Send(p, Control("STOP"))), "STOPPED")
    [] p.playing # "null" /\ ~p.cancel ->
         Send([p EXCEPT !.playing = "known"], Control("PLAY"))

\* _onPlayStatus, whatever source the report is about
HearStatus(p, r) ==
  CASE r = "play"   -> ChangeActivity(p, "PLAYING")
    [] r = "pause"  -> ChangeActivity(p, "PAUSED")
    [] r = "finish" -> ChangeActivity(Drop(p), "FINISHED")
    [] r = "stop"   -> IF p.state = "FINISHED" THEN p ELSE ChangeActivity(Drop(p), "STOPPED")
    [] r = "error"  -> ChangeActivity(Drop(p), "STOPPED")

\* A report reaches the player; early, before one that was to come first.
Hear(r, early) ==
  LET p == [player EXCEPT !.crossed = @ \/ early]
  IN  /\ Becomes(CASE r = "source"                  -> KnowSource(p)
                    [] r = "offset"                  -> AnswerOffset(p)
                    [] r \notin {"source", "offset"} -> HearStatus(p, r))
      /\ UNCHANGED directives

HandlerTypeOK ==
  /\ player \in PlayerRecord
  /\ player.out = <<>>
  /\ directives \in 0..MaxItems

=============================================================================
