-------------------------------- MODULE Dialog --------------------------------
(***************************************************************************)
(* Dialogs with the server: the application of Recognizer, whose callbacks *)
(* are called by the user, the server, the manager's other users, timers   *)
(* and contexts.                                                           *)
(*                                                                         *)
(* Of the server there is what it may send: any answer to a request it has *)
(* got and not yet answered to the end, however late.  A message has one   *)
(* directive; it may be the last one of its request.  Not here: a local    *)
(* sound that takes the channel of a speech, which is AudioFocus'.         *)
(***************************************************************************)
EXTENDS Recognizer

VARIABLES
  app,      \* the application's record
  calm      \* history: nothing has happened that the code is not made for (see Calmly)

vars == <<app, calm>>

Init == app = AppStart /\ calm = TRUE

Becomes(a) == app' = a

Rooms == app.id < MaxDialogs
TimerFree == app.timers # Timer

(***************************************************************************)
(* What the properties with calm in them exclude from then on: a dialog    *)
(* that starts while another still waits for a context; a speech or a      *)
(* local sound that pushes AIP aside, which begins the recording anew when *)
(* it is over; a recording that begins when the connection is gone;        *)
(* something to be done after a speech that arrives when it is over; and a *)
(* stop_capture that _willDrop lets pass although the voice of its request *)
(* is over.                                                                *)
(***************************************************************************)
Calmly(undisturbed) == calm' = (calm /\ undisturbed)

-------------------------------------------------------------------------------
\* _onWakeup, on a device that is set up
Wakeup ==
  /\ app.online
  /\ Rooms
  /\ Becomes(Recognize(app, TRUE))
  /\ Calmly(app.waits = {})

\* _onPlayPause with nothing to pause
PlayButton ==
  /\ Rooms
  /\ TimerFree
  /\ Becomes(Nlp(app))
  /\ Calmly(app.waits = {})

\* A context is there.  Taking the channel from a speech may start a dialog.
Context ==
  \E w \in app.waits :
    /\ app.expect # 0 => Rooms
    /\ \E channel \in BOOLEAN : Becomes(Resolve(app, w, channel))
    /\ Calmly(w.op = "listen" => app.online)

\* _onThinkingTimeout
ThinkingTimeout(t) ==
  /\ t \in app.timers
  /\ Becomes(Terminate([app EXCEPT !.timers = @ \ {t}]))
  /\ UNCHANGED calm

-------------------------------------------------------------------------------
(***************************************************************************)
(* The server's messages: handle is what the listeners of the directive    *)
(* do.  A message of another request than the present one is dropped.      *)
(***************************************************************************)
Answered(a, i) ==
  [a EXCEPT !.asked = @ \ {i}, !.voices = @ \ {i}, !.stream = IF @ = i THEN 0 ELSE @]

\* Fault: responses are handled whatever request they are for.
MessageUndropped(i, last, handled) ==
  LET end == IF last THEN RspEnd(handled, i) ELSE handled
  IN  Becomes(IF last THEN Answered(end, i) ELSE end)

\* _onWsMessage
Message(i, last, handled) ==
  LET end == CASE WillDrop(app, i)            -> app
               [] ~WillDrop(app, i) /\ last   -> RspEnd(handled, i)
               [] ~WillDrop(app, i) /\ ~last  -> handled
  IN  Becomes(IF last THEN Answered(end, i) ELSE end)

\* The server has heard enough of a request.  It may not know that the voice of it has
\* been cancelled, and may say so twice.
GetStopCapture(i, last) ==
  /\ i \in app.asked \cap app.voices
  /\ TimerFree
  /\ Message(i, last, StopCapture(app))
  /\ Calmly(WillDrop(app, i) \/ i = app.stream)

GetSpeech(i, last) ==
  /\ i \in app.asked \/ (i = 0 /\ app.online /\ ~last)
  /\ \E parallel \in BOOLEAN : Message(i, last, Speak(app, i, parallel))
  /\ Calmly(WillDrop(app, i) \/ app.aip # "FOREGROUND")

\* A playback of the present dialog; another one goes to the content player at once
GetPlayback(i, last) ==
  /\ i \in app.asked /\ i = app.dialog
  /\ Message(i, last, Keep(app))
  /\ Calmly(app.front = "TTS" \/ WillDrop(app, i))

GetExpectReply(i, last) ==
  /\ i \in app.asked
  /\ Rooms
  /\ \E channel \in BOOLEAN : Message(i, last, Expect(app, i, channel))
  /\ Calmly(WillDrop(app, i) \/ (i = app.dialog => app.front = "TTS"))

\* Nothing of interest here, or nothing more to say
GetOther(i, last) ==
  /\ i \in app.asked
  /\ last
  /\ Message(i, last, app)
  /\ UNCHANGED calm

-------------------------------------------------------------------------------
\* TTS loses its channel: it has ended, was stopped, or an alert has taken it.
SpeechEnds ==
  /\ app.front = "TTS"
  /\ app.expect # 0 => Rooms
  /\ \E channel \in BOOLEAN : Becomes(PromoteAip(SpeechOver([app EXCEPT !.front = "none"], channel)))
  /\ UNCHANGED calm

LocalSound ==
  /\ app.front = "none"
  /\ Becomes(ComeForward(app, "LOCAL"))
  /\ Calmly(app.aip # "FOREGROUND")

LocalSoundEnds ==
  /\ app.front = "LOCAL"
  /\ Becomes(PromoteAip([app EXCEPT !.front = "none"]))
  /\ UNCHANGED calm

\* An alert or content takes the foreground from AIP.
AipTaken ==
  /\ app.aip = "FOREGROUND"
  /\ Becomes(ReleaseAip(app))
  /\ UNCHANGED calm

Connected ==
  /\ ~app.online
  /\ Becomes([app EXCEPT !.online = TRUE])
  /\ UNCHANGED calm

Disconnected ==
  /\ app.online
  /\ Becomes(Disconnect(app))
  /\ UNCHANGED calm

-------------------------------------------------------------------------------
Server ==
  \E i \in Id, last \in BOOLEAN :
    \/ GetStopCapture(i, last)
    \/ GetSpeech(i, last)
    \/ GetPlayback(i, last)
    \/ GetExpectReply(i, last)
    \/ GetOther(i, last)

Next ==
  \/ Wakeup \/ PlayButton
  \/ Context \/ \E t \in Timer : ThinkingTimeout(t)
  \/ Server
  \/ SpeechEnds \/ LocalSound \/ LocalSoundEnds \/ AipTaken
  \/ Connected \/ Disconnected

Spec == Init /\ [][Next]_vars

\* Contexts come, timers fire, and the server says its last word on every request.
FairSpec ==
  /\ Spec
  /\ WF_vars(Context)
  /\ \A t \in Timer : WF_vars(ThinkingTimeout(t))
  /\ \A i \in Id : WF_vars(GetOther(i, TRUE))

-------------------------------------------------------------------------------
TypeOK == app \in AppRecord /\ calm \in BOOLEAN

(***************************************************************************)
(* The microphone is sent to the server only while a recording is on: each *)
(* way out of one (stop_capture, a new dialog, a text, a timeout, the last *)
(* response, a lost channel, a lost connection) stops the puller.          *)
(***************************************************************************)
VoiceOnlyWhenRecording == app.puller => app.state = "record" /\ app.held

(***************************************************************************)
(* A dialog that thinks has a timer that will end it, however many others  *)
(* were left running.                                                      *)
(***************************************************************************)
ThinkingIsTimed == app.state = "thinking" => app.timer \in app.timers

(***************************************************************************)
(* No timer of an earlier dialog is left to end a later one: those that    *)
(* run are the one that thinkingTimeout names, and only while it thinks.   *)
(***************************************************************************)
NoStrayTimer ==
  calm => app.timers \subseteq (IF app.state = "thinking" THEN {app.timer} ELSE {})

(***************************************************************************)
(* What is recorded is heard, and its answers are: the request the server  *)
(* listens to is the present one, and the one whose responses the client   *)
(* does not drop.                                                          *)
(***************************************************************************)
RecordingIsHeard ==
  calm /\ app.puller => app.online /\ app.stream = app.id /\ app.current = app.id

(***************************************************************************)
(* What is kept until a speech is over has a speech to wait for.           *)
(***************************************************************************)
KeptForSpeech == calm /\ (app.kept \/ app.expect # 0) => app.front = "TTS"

(***************************************************************************)
(* The dialogs are those of DialogPhases: each listens, thinks and ends    *)
(* once, in this order.                                                    *)
(***************************************************************************)
Pending(a) == \E w \in a.waits : w.op = "listen"

PhaseOf(a) ==
  CASE a.state = "record" /\ a.puller     -> "listening"
    [] a.state = "record" /\ ~a.puller    -> "deaf"
    [] a.state = "thinking"               -> "thinking"
    [] a.state = "idle" /\ Pending(a)     -> "starting"
    [] a.state = "idle" /\ ~Pending(a)    -> "ended"

Phases == INSTANCE DialogPhases WITH
            phase <- IF calm THEN PhaseOf(app) ELSE "disturbed",
            number <- IF calm THEN app.id ELSE 0
ImplementsPhases == Phases!Spec

(***************************************************************************)
(* "We drop non-ongoing response" (smartSpeakerApp/src/evsClient.js line   *)
(* 226): what the server still has to say of the voice of a dialog that    *)
(* another has replaced does nothing to that one.                          *)
(***************************************************************************)
LateStopsDropped ==
  [][\A i \in Id \ {app.id}, last \in BOOLEAN :
       GetStopCapture(i, last) => app'.state = app.state]_vars

(***************************************************************************)
(* Every dialog ends.                                                      *)
(***************************************************************************)
DialogEnds == app.state # "idle" ~> app.state = "idle" \/ ~calm

=============================================================================
