------------------------------ MODULE Recognizer ------------------------------
(***************************************************************************)
(* A dialog with the server, as the application keeps it: EVSCapRecognizer *)
(* (smartSpeakerApp/src/evsCapRecognizer.js), EVSCapAudioPlayer            *)
(* (evsCapAudioPlayer.js), and of EVSClient what concerns request ids      *)
(* (evsClient.js).                                                         *)
(*                                                                         *)
(* As in PlayerHandler, operators take the record of the application to    *)
(* the next one, since the functions of one callback call each other: the  *)
(* channel manager, in particular, tells its listeners at once.  Of the    *)
(* manager there is what its channel table gives to these two: AIP takes   *)
(* the foreground from everybody, except that speech (TTS) and local       *)
(* sounds (LOCAL) push it into the background and give it back.            *)
(*                                                                         *)
(* voiceStreamTerminated is true from the constructor on (line 34), so the *)
(* cancelVoice of line 186 is never called and the field is left out.      *)
(***************************************************************************)
EXTENDS Naturals, FiniteSets

CONSTANTS
  MaxDialogs,   \* bound: request ids that are drawn
  MaxTimers     \* bound: thinking timers that run at once

ASSUME RecognizerAssumption ==
  /\ MaxDialogs \in Nat \ {0}
  /\ MaxTimers \in Nat \ {0}

\* Request ids in the order in which they are drawn; 0 is one that no answer has.
Id == 0..MaxDialogs
Timer == 1..MaxTimers

\* What waits for the context: a recognition, with or without the channel, or a text.
Listen(channel, i) == [op |-> "listen", channel |-> channel, id |-> i]
Text(i) == [op |-> "text", channel |-> FALSE, id |-> i]
Wait == [op : {"listen", "text"}, channel : BOOLEAN, id : Id]

(***************************************************************************)
(* Of EVSCapRecognizer: state; id: currentReqId; audio: the id in          *)
(* this.request; held: hasAudioFocus; puller: the voice interval of        *)
(* audio.js runs; timer: thinkingTimeout; timers: the timeouts that will   *)
(* fire; waits: the promises of a context, which nothing orders.  Of        *)
(* EVSCapAudioPlayer: dialog: curDialogId; kept: the playback list is not  *)
(* empty; expect: the id in expectItem.  Of EVSClient: online: connected;  *)
(* current: recogReqId.  Of EVSAudioMgr: aip, the focus of that channel,   *)
(* and front, which of TTS and LOCAL is in the foreground.  Of the server: *)
(* stream: the request whose voice it hears; asked: those it answers, of   *)
(* which voices have a voice.                                              *)
(***************************************************************************)
AppRecord == [
  state : {"idle", "record", "thinking"}, id : Id, audio : Id, held : BOOLEAN,
  puller : BOOLEAN, timer : Timer \cup {0}, timers : SUBSET Timer, waits : SUBSET Wait,
  dialog : Id, kept : BOOLEAN, expect : Id,
  online : BOOLEAN, current : Id,
  aip : {"NONE", "BACKGROUND", "FOREGROUND"}, front : {"none", "TTS", "LOCAL"},
  stream : Id, asked : SUBSET Id, voices : SUBSET Id]

AppStart ==
  [state |-> "idle", id |-> 0, audio |-> 0, held |-> FALSE,
   puller |-> FALSE, timer |-> 0, timers |-> {}, waits |-> {},
   dialog |-> 0, kept |-> FALSE, expect |-> 0,
   online |-> FALSE, current |-> 0, aip |-> "NONE", front |-> "none",
   stream |-> 0, asked |-> {}, voices |-> {}]

-------------------------------------------------------------------------------
(***************************************************************************)
(* To the server.  What is sent on a lost connection is lost.              *)
(***************************************************************************)
RequestAudio(a) ==
  IF a.online
  THEN [a EXCEPT !.stream = a.audio, !.asked = @ \cup {a.audio}, !.voices = @ \cup {a.audio}]
  ELSE a
RequestText(a, i) == IF a.online THEN [a EXCEPT !.asked = @ \cup {i}] ELSE a
CloseVoice(a) == [a EXCEPT !.stream = 0]    \* endVoice, cancelVoice

(***************************************************************************)
(* Timers.                                                                 *)
(***************************************************************************)
FreeTimer(a) == CHOOSE t \in Timer : t \notin a.timers
\* Fault: thinking is not timed.
StartTimerNever(a) == a
StartTimer(a) == [a EXCEPT !.timer = FreeTimer(a), !.timers = @ \cup {FreeTimer(a)}]
ClearTimer(a) == [a EXCEPT !.timer = 0, !.timers = @ \ {a.timer}]

(***************************************************************************)
(* Focus.                                                                  *)
(***************************************************************************)
\* Fault: the client is not told which request is the present one.
RecordUntold(a) ==
  RequestAudio([a EXCEPT !.held = TRUE, !.state = "record", !.puller = TRUE])

\* _onFocusChanged(FOREGROUND)
Record(a) ==
  RequestAudio([a EXCEPT !.held = TRUE, !.current = a.id, !.state = "record", !.puller = TRUE])

\* The voice of a recording is stopped.
StopPuller(a) == IF a.state = "record" THEN [a EXCEPT !.puller = FALSE] ELSE a

\* releaseChannel(AIP) and, if AIP had a focus, _onFocusChanged(NONE)
ReleaseAip(a) ==
  IF a.aip = "NONE" THEN a
  ELSE StopPuller([a EXCEPT !.aip = "NONE", !.held = FALSE])

PromoteAip(a) ==
  IF a.aip = "BACKGROUND" THEN Record([a EXCEPT !.aip = "FOREGROUND"]) ELSE a

\* Fault: the puller is left to the loss of the channel.
StopRecordPulling(a) == IF a.held THEN ReleaseAip(a) ELSE a

\* _stopRecord
StopRecord(a) ==
  IF a.held THEN ReleaseAip(StopPuller(a)) ELSE StopPuller(a)

\* _terminalDialog
Terminate(a) ==
  IF a.state = "idle" THEN a
  ELSE LET p == StopRecord(a)
       IN  [(IF p.state = "thinking" THEN ClearTimer(p) ELSE p) EXCEPT !.state = "idle"]

(***************************************************************************)
(* A new dialog.                                                           *)
(***************************************************************************)
\* Fault: the timer of a dialog that thinks is left running.
AbandonTimed(a) ==
  IF a.state = "record" THEN [CloseVoice(a) EXCEPT !.puller = FALSE] ELSE a

\* What recognize() and nlp() do to the dialog under way
Abandon(a) ==
  CASE a.state = "idle"     -> a
    [] a.state = "thinking" -> ClearTimer(a)
    [] a.state = "record"   -> ClearTimer([CloseVoice(a) EXCEPT !.puller = FALSE])

\* Fault: the state gets the name of the event.
RecognizeMisnamed(a, channel) ==
  [Abandon(a) EXCEPT !.state = "listening", !.id = @ + 1, !.audio = a.id + 1,
                     !.waits = @ \cup {Listen(channel, a.id + 1)}]

Recognize(a, channel) ==
  [Abandon(a) EXCEPT !.state = "idle", !.id = @ + 1, !.audio = a.id + 1,
                     !.waits = @ \cup {Listen(channel, a.id + 1)}]

Nlp(a) ==
  [StartTimer(Abandon(a)) EXCEPT !.state = "thinking", !.id = @ + 1, !.current = a.id + 1,
                                 !.waits = @ \cup {Text(a.id + 1)}]

\* expectReply of a response to request i; the server decides about the channel
ExpectReply(a, i, channel) == IF i = a.id THEN Recognize(a, channel) ELSE a

(***************************************************************************)
(* Speech.                                                                 *)
(***************************************************************************)
\* Fault: what was handed on stays in the list.
SpeechOverKeeping(a, channel) ==
  LET handed == IF a.kept THEN PromoteAip(a) ELSE a
      asked  == IF handed.expect = 0 THEN handed ELSE ExpectReply(handed, handed.expect, channel)
  IN  [asked EXCEPT !.expect = 0]

\* _onTTSFocusState(NONE): the playback kept back asks for CONTENT, for which
\* the manager first promotes a channel in the background
SpeechOver(a, channel) ==
  LET handed == [(IF a.kept THEN PromoteAip(a) ELSE a) EXCEPT !.kept = FALSE]
      asked  == IF handed.expect = 0 THEN handed ELSE ExpectReply(handed, handed.expect, channel)
  IN  [asked EXCEPT !.expect = 0]

\* acquireChannel(AIP): who is in the foreground, AIP included, is told first
AcquireAip(a, channel) ==
  LET quiet == IF a.front = "TTS" THEN SpeechOver([a EXCEPT !.front = "none"], channel)
               ELSE [a EXCEPT !.front = "none"]
  IN  Record([ReleaseAip(quiet) EXCEPT !.aip = "FOREGROUND"])

\* TTS or LOCAL comes to the front
ComeForward(a, who) ==
  [a EXCEPT !.front = who, !.aip = IF @ = "FOREGROUND" THEN "BACKGROUND" ELSE @]

\* The context that w has waited for is there.  A recognition reads currentReqId and
\* this.request, whoever's they are by now.
Resolve(a, w, channel) ==
  LET p == [a EXCEPT !.waits = @ \ {w}]
  IN  CASE w.op = "text"                -> RequestText(p, w.id)
        [] w.op = "listen" /\ w.channel  -> AcquireAip(p, channel)
        [] w.op = "listen" /\ ~w.channel -> Record(p)

(***************************************************************************)
(* Answers.                                                                *)
(***************************************************************************)
\* _willDrop
WillDrop(a, i) == i # 0 /\ i # a.current

StopCapture(a) ==
  LET p == [CloseVoice(a) EXCEPT !.puller = FALSE]
  IN  StartTimer([(IF p.held THEN ReleaseAip(p) ELSE p) EXCEPT !.state = "thinking"])

\* audio_out of a speech, which makes its request the present dialog unless it is
\* PARALLEL
Speak(a, i, parallel) ==
  ComeForward(IF parallel THEN a ELSE [a EXCEPT !.dialog = i], "TTS")

\* audio_out of a playback to be kept until the speech of its dialog is over
Keep(a) == [a EXCEPT !.kept = TRUE]

\* expect_reply
Expect(a, i, channel) ==
  IF i = a.dialog THEN [a EXCEPT !.expect = i] ELSE ExpectReply(a, i, channel)

\* response_proc_end
RspEnd(a, i) == IF i = a.id THEN Terminate(a) ELSE a

\* The two listeners of 'disconnected', in the order in which they came
Disconnect(a) ==
  [Terminate([a EXCEPT !.online = FALSE, !.current = 0, !.stream = 0, !.asked = {}, !.voices = {}])
     EXCEPT !.kept = FALSE]
=============================================================================
