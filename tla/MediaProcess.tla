---------------------------- MODULE MediaProcess ----------------------------
(***************************************************************************)
(* One MediaPlayer of the mediaplayer process (mediaplayer/main.cpp,       *)
(* librplayer/src/MediaPlayer.cpp, librplayer/src/rk_ffplay.c).            *)
(*                                                                         *)
(* Four kinds of threads meet in it.  The receiver runs one command after  *)
(* another.  A read thread and the audio callback play the stream.  A stop *)
(* thread, one per stop, closes the stream and waits for the others.  They *)
(* tell of it by notes to the timer thread, which calls                    *)
(* MediaPlayer::notifyListener in order; that reports first and brings     *)
(* mPlaying and mSourceID up to date afterwards, without a lock.           *)
(***************************************************************************)
EXTENDS PlayerIpc

CONSTANT Offsets  \* the items that begin at an offset

ASSUME ProcessAssumption == Offsets \subseteq Item

VARIABLES
  sourceId,   \* mSourceID: 0, or the id of the last source set
  mPlaying,
  mFinished,
  offset,     \* mOffset: 0, or the item whose offset is kept until a stream is prepared
  status,     \* RPlayer.status
  stopTid,    \* RPlayer.stop_tid: none, running, or done and not waited for
  stream,     \* the stream that is open
  notes,      \* timers added by notify_from_thread
  telling,    \* the first note has been reported, and not yet settled
  heard,      \* items of which something sounded (history)
  broken,     \* items whose stream failed (history)
  slipped     \* a source was set while a note was told, or a start came to nothing (history)

processVars ==
  <<sourceId, mPlaying, mFinished, offset, status, stopTid, stream, notes, telling, heard, broken, slipped>>

Status == {"IDLE", "PREPARING", "PREPARED", "PLAYING", "PAUSED", "COMPLETE", "ERROR", "STOPPED"}
Note == {"PREPARED", "PLAYING", "COMPLETE", "ERROR", "STOPED"}

\* stage: what the read thread and the audio callback have come to; fed: the read thread goes on
NoStream == [item |-> 0, stage |-> "none", paused |-> TRUE, fed |-> FALSE]
Stream == {NoStream} \cup
  [item : Item, stage : {"opening", "ready", "sounding", "ended", "broken"}, paused : BOOLEAN, fed : BOOLEAN]

ProcessInit ==
  /\ sourceId = 0
  /\ mPlaying = FALSE
  /\ mFinished = FALSE
  /\ offset = 0
  /\ status = "IDLE"
  /\ stopTid = "none"
  /\ stream = NoStream
  /\ notes = <<>>
  /\ telling = FALSE
  /\ heard = {}
  /\ broken = {}
  /\ slipped = FALSE

-------------------------------------------------------------------------------
(***************************************************************************)
(* Commands.                                                               *)
(***************************************************************************)
NextCommand(c) ==
  /\ cmds # <<>>
  /\ Head(cmds).op = c
  /\ cmds' = Tail(cmds)

\* toggle_pause of the stream, if there is one
WithPaused(b) == IF stream = NoStream THEN stream ELSE [stream EXCEPT !.paused = b]

\* Is there a stream to seek in?  One that is opened, or could not be, may have no context yet.
MayBeOpen ==
  CASE stream.stage = "none"                                 -> {FALSE}
    [] stream.stage \in {"opening", "broken"}                -> BOOLEAN
    [] stream.stage \notin {"none", "opening", "broken"}     -> {TRUE}

\* seekTo(): with no stream open the offset is kept; in an earlier one that still is, the read
\* thread seeks, and lets it go on (step_to_next_frame).
KeptOffset(i, open) == IF i \notin Offsets THEN offset ELSE IF open THEN 0 ELSE i
Sought(i, open) == IF i \in Offsets /\ open /\ stream.fed THEN WithPaused(FALSE) ELSE stream

\* rplayer_prepare_async: refused unless the player is IDLE or STOPPED.
Prepare(i, sought) ==
  IF status \in {"IDLE", "STOPPED"}
  THEN /\ status' = "PREPARING"
       /\ stopTid' = "none"
       /\ stream' = [item |-> i, stage |-> "opening", paused |-> TRUE, fed |-> TRUE]
  ELSE stream' = sought /\ UNCHANGED <<status, stopTid>>

SeekAndPrepare(i) ==
  \E open \in MayBeOpen : offset' = KeptOffset(i, open) /\ Prepare(i, Sought(i, open))

\* rplayer_stop_async: ignored when stopped, or when a stop thread was not waited for
StopAsync ==
  IF status # "STOPPED" /\ stopTid = "none" THEN stopTid' = "running" ELSE UNCHANGED stopTid

\* The source id is reported, whatever prepareAsync returned.
OnSetSource ==
  /\ NextCommand("SET_SOURCE")
  /\ sourceId' = Head(cmds).item
  /\ SeekAndPrepare(Head(cmds).item)
  /\ reports' = Append(reports, "source")
  /\ slipped' = (slipped \/ telling)
  /\ UNCHANGED <<mPlaying, mFinished, notes, telling, heard, broken>>

\* rplayer_start and rplayer_resume; with no stream open the player is taken for playing.
Unpause ==
  /\ status' = "PLAYING"
  /\ stream' = WithPaused(FALSE)
  /\ slipped' = (slipped \/ stream = NoStream)

NoUnpause == UNCHANGED <<status, stream, slipped>>

\* Fault: PLAY counts only for a stream that is open.
OnPlayReady ==
  /\ NextCommand("PLAY")
  /\ IF ~mPlaying /\ stream.stage = "ready" THEN Unpause ELSE NoUnpause
  /\ UNCHANGED <<sourceId, mPlaying, mFinished, offset, stopTid, reports, notes, telling, heard, broken>>

\* onPlay and start(), which leaves it to the PREPARED note while an offset is kept
OnPlay ==
  /\ NextCommand("PLAY")
  /\ IF ~mPlaying /\ sourceId # 0 /\ offset = 0 THEN Unpause ELSE NoUnpause
  /\ UNCHANGED <<sourceId, mPlaying, mFinished, offset, stopTid, reports, notes, telling, heard, broken>>

OnReportOffset ==
  /\ NextCommand("OFFSET")
  /\ reports' = Append(reports, "offset")
  /\ UNCHANGED processVars

OnStop ==
  /\ NextCommand("STOP")
  /\ StopAsync
  /\ UNCHANGED <<sourceId, mPlaying, mFinished, offset, status, stream, reports, notes, telling, heard, broken, slipped>>

OnResume ==
  /\ NextCommand("RESUME")
  /\ IF ~mPlaying
     THEN Unpause /\ mPlaying' = TRUE /\ reports' = Append(reports, "play")
     ELSE NoUnpause /\ UNCHANGED <<mPlaying, reports>>
  /\ UNCHANGED <<sourceId, mFinished, offset, stopTid, notes, telling, heard, broken>>

OnPause ==
  /\ NextCommand("PAUSE")
  /\ IF mPlaying
     THEN /\ status' = "PAUSED"
          /\ stream' = WithPaused(TRUE)
          /\ mPlaying' = FALSE
          /\ reports' = Append(reports, "pause")
     ELSE UNCHANGED <<status, stream, mPlaying, reports>>
  /\ UNCHANGED <<sourceId, mFinished, offset, stopTid, notes, telling, heard, broken, slipped>>

-------------------------------------------------------------------------------
(***************************************************************************)
(* The stream, and the thread that stops it.                               *)
(***************************************************************************)
Notify(n) == notes' = Append(notes, n)

OpenStream ==
  /\ stream.stage = "opening"
  /\ stream' = [stream EXCEPT !.stage = "ready"]
  /\ IF status \in {"STOPPED", "PAUSED"} THEN UNCHANGED <<status, notes>>
     ELSE status' = "PREPARED" /\ Notify("PREPARED")
  /\ UNCHANGED <<cmds, reports, sourceId, mPlaying, mFinished, offset, stopTid, telling, heard, broken, slipped>>

\* Nothing to play in it: the error is noted there and at the thread's end.
FailToOpen ==
  /\ stream.stage = "opening"
  /\ stream' = [stream EXCEPT !.stage = "broken", !.fed = FALSE]
  /\ status' = "ERROR"
  /\ \E n \in {<<"ERROR">>, <<"ERROR", "ERROR">>} : notes' = notes \o n
  /\ broken' = broken \cup {stream.item}
  /\ UNCHANGED <<cmds, reports, sourceId, mPlaying, mFinished, offset, stopTid, telling, heard, slipped>>

FirstFrame ==
  /\ stream.stage = "ready"
  /\ ~stream.paused
  /\ stream' = [stream EXCEPT !.stage = "sounding"]
  /\ status' = "PLAYING"
  /\ Notify("PLAYING")
  /\ heard' = heard \cup {stream.item}
  /\ UNCHANGED <<cmds, reports, sourceId, mPlaying, mFinished, offset, stopTid, telling, broken, slipped>>

\* The read thread ends with an error; what it has read may still be heard.
FailInStream ==
  /\ stream.fed
  /\ stream.stage = "sounding" \/ (stream.stage = "ready" /\ ~stream.paused)
  /\ stream' = [stream EXCEPT !.fed = FALSE]
  /\ status' = "ERROR"
  /\ Notify("ERROR")
  /\ broken' = broken \cup {stream.item}
  /\ UNCHANGED <<cmds, reports, sourceId, mPlaying, mFinished, offset, stopTid, telling, heard, slipped>>

Complete ==
  /\ stream.stage = "sounding"
  /\ stream.fed
  /\ ~stream.paused
  /\ stream' = [stream EXCEPT !.stage = "ended"]
  /\ status' = "COMPLETE"
  /\ Notify("COMPLETE")
  /\ UNCHANGED <<cmds, reports, sourceId, mPlaying, mFinished, offset, stopTid, telling, heard, broken, slipped>>

\* stop_play_thread
StopPlayThread ==
  /\ stopTid = "running"
  /\ stopTid' = "done"
  /\ stream' = NoStream
  /\ status' = "STOPPED"
  /\ Notify("STOPED")
  /\ UNCHANGED <<cmds, reports, sourceId, mPlaying, mFinished, offset, telling, heard, broken, slipped>>

-------------------------------------------------------------------------------
(***************************************************************************)
(* The timer thread: notifyListener of the first note.                     *)
(***************************************************************************)
\* Fault: the end of an item is not kept until its stop.
TellForgetting ==
  /\ notes # <<>>
  /\ ~telling
  /\ telling' = TRUE
  /\ reports' = IF Head(notes) = "PREPARED" THEN reports
                ELSE Append(reports, CASE Head(notes) = "PLAYING" -> "play" [] Head(notes) = "ERROR" -> "error" [] OTHER -> "stop")
  /\ IF Head(notes) \in {"COMPLETE", "ERROR"} THEN StopAsync ELSE UNCHANGED stopTid
  /\ UNCHANGED <<cmds, sourceId, mPlaying, mFinished, offset, status, stream, notes, heard, broken, slipped>>

\* MediaPlayer::notify and MyMediaPlayerListener::notify
Tell ==
  /\ notes # <<>>
  /\ ~telling
  /\ telling' = TRUE
  /\ CASE Head(notes) = "PREPARED" -> UNCHANGED <<mFinished, stopTid, reports>>
       [] Head(notes) = "PLAYING"  -> reports' = Append(reports, "play") /\ UNCHANGED <<mFinished, stopTid>>
       [] Head(notes) = "COMPLETE" -> mFinished' = TRUE /\ StopAsync /\ UNCHANGED reports
       [] Head(notes) = "STOPED"   -> /\ reports' = Append(reports, IF mFinished THEN "finish" ELSE "stop")
                                      /\ mFinished' = FALSE
                                      /\ UNCHANGED stopTid
       [] Head(notes) = "ERROR"    -> reports' = Append(reports, "error") /\ StopAsync /\ UNCHANGED mFinished
  /\ UNCHANGED <<cmds, sourceId, mPlaying, offset, status, stream, notes, heard, broken, slipped>>

\* The offset that is kept is sought and the stream started, PLAY or not.  The read thread, which
\* lets a paused stream go on to seek, toggles the pause without a lock: both together may leave
\* it paused.
StartAtOffset ==
  /\ offset' = 0
  /\ \/ Unpause
     \/ /\ stream.fed /\ stream.paused
        /\ status' = "PLAYING"
        /\ UNCHANGED stream
        /\ slipped' = TRUE

StartIfKept ==
  IF Head(notes) = "PREPARED" /\ offset # 0 THEN StartAtOffset ELSE NoUnpause /\ UNCHANGED offset

\* Fault: the note is taken and never ended.
SettleStillTelling ==
  /\ telling
  /\ notes' = Tail(notes)
  /\ StartIfKept
  /\ mPlaying' = (Head(notes) = "PLAYING")
  /\ sourceId' = IF Head(notes) = "STOPED" THEN 0 ELSE sourceId
  /\ UNCHANGED <<cmds, reports, mFinished, stopTid, telling, heard, broken>>

\* The rest of notifyListener.
Settle ==
  /\ telling
  /\ telling' = FALSE
  /\ notes' = Tail(notes)
  /\ StartIfKept
  /\ mPlaying' = (Head(notes) = "PLAYING")
  /\ sourceId' = IF Head(notes) = "STOPED" THEN 0 ELSE sourceId
  /\ UNCHANGED <<cmds, reports, mFinished, stopTid, heard, broken>>

Commanded == OnSetSource \/ OnReportOffset \/ OnPlay \/ OnStop \/ OnResume \/ OnPause

Streaming == OpenStream \/ FailToOpen \/ FailInStream \/ FirstFrame \/ Complete \/ StopPlayThread

ProcessTypeOK ==
  /\ sourceId \in Item \cup {0}
  /\ mPlaying \in BOOLEAN
  /\ mFinished \in BOOLEAN
  /\ offset \in Offsets \cup {0}
  /\ status \in Status
  /\ stopTid \in {"none", "running", "done"}
  /\ stream \in Stream
  /\ notes \in Seq(Note)
  /\ telling \in BOOLEAN
  /\ telling => notes # <<>>
  /\ heard \subseteq Item
  /\ broken \subseteq Item
  /\ slipped \in BOOLEAN

=============================================================================
