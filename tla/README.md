# Verification of SDK-EVS-Linux

TLA+ models of the iFLYOS smart speaker for Linux: the JavaScript application
(`smartSpeakerApp`), the runtime it runs on (`jsruntime`, a fork of IoT.js) and the
process that plays sound (`mediaplayer`). TLC checks the models on small instances,
TLAPS proves the theorems for every value of the constants.

Paths are relative to `src/`; application files are in `smartSpeakerApp/src/`.

1. [The system](#1-the-system)
2. [Plan](#2-plan)
3. [The models](#3-the-models)
4. [The runs](#4-the-runs)
5. [Where code and comments disagree](#5-where-code-and-comments-disagree)
6. [The proofs](#6-the-proofs)
7. [What is not modelled](#7-what-is-not-modelled)

## 1. The system

### How the parts work together

```
 microphone                        server (EVS, websocket)        Bluetooth app
    |                                 ^        |                       |
 ALSA thread                     requests   directives            EVSBleControl
    |  SharedStream                   |        v                       |
    +-----------> audio.js --voice--> EVSClient             EVSNetworkMgr, EVSAuthorizeMgr
                     ^                |   |   |                        |
                     |   +------------+   |   +------------+    EVSModuleConfig/Startup
                EVSCapRecognizer    EVSCapAudioPlayer   EVSCapSystem   |
                     |                |   (TTS, alert,     |           |
                     |                v    content, sound) +-- EVSModuleInteraction
                     +--------> EVSAudioMgr <--- EVSPlayerHandler ---> EVSMediaPlayer
                              (who may sound)                              |  ^
                                                           router, Unix socket, thread pool
                                                                           v  |
                                                          mediaplayer process (one MediaPlayer
                                                          per player, four kinds of threads)
```

The application is one thread: an event is handled to its end before the next one. Two
things make this harder than it sounds. `EventEmitter.emit` is synchronous, so a
listener runs in the middle of the function that emits and may call it again. And
almost every answer is asynchronous (a source id, an offset, a context, a handshake, a
curl request), so state read before it may be stale when it arrives. Around the
application are real threads: capture, the router's receiver and thread pool, and the
threads of the mediaplayer process.

### Components

| component | state | operations | hard | correct when |
|---|---|---|---|---|
| **Channel manager** `evsAudioMgr.js` | focus of each channel, `foregroundChannel`, `backgroundChannel` | `acquireChannel`, `releaseChannel`, `_setChannelFocus` | listeners re-enter in the middle | one channel per slot, nobody waits for nobody, priorities respected, no request lost |
| **EVS client** `evsClient.js`, `websocket.js`, `evsCapSystem.js` | `running`, `connected`, `ws`, the sockets, reconnect timers, ping timer | start, stop, reconnect, request, writeVoice, socket events | loss, retry, several sockets alive, `error` to nobody ends the process | what it says it has it has; it comes back; it does not come back when stopped |
| **Players** `evsPlayerHandler.js`, `evsMediaPlayer.js`, TTS/alert/sound players | wait list, item, focus, player state, `playing` and its source id | directive, focus change, stop, reports from the process | reports late, for another item, after a stop | every item is heard or was stopped; the channel comes back |
| **mediaplayer process** `main.cpp`, `MediaPlayer.cpp`, `rk_ffplay.c` | `mSourceID`, `mPlaying`, status, stream, `stop_tid`, notes to the timer thread | SET_SOURCE, PLAY, STOP, PAUSE, RESUME; read thread, audio callback, stop thread, timer thread | four kinds of threads, fields written without a lock | plays what it was told last, reports what happened |
| **Router** `iotjs_module_iFLYOS.cpp`, `iFLYOS_IPC.cpp` | sockets, registered names | send, register, receive | each report goes through the libuv pool on its own | reports arrive, in order |
| **Shared data stream** `SDS/*.h` | two writer cursors, a reader cursor, the words | write, read, seek, open, close | no lock between writer and reader | a read gives what was written there |
| **Audio input** `audio.js`, `iotjs_module_iFLYOS_audio.cpp` | capture thread, sinks, pull timer | start, stop, enableStreamPuller, fireAudio | mutex held while joining | stops when told; voice flows while recording |
| **Recognizer** `evsCapRecognizer.js` | `state`, `currentReqId`, `request`, `thinkingTimeout`, `hasAudioFocus`, `voiceStreamTerminated` | recognize, nlp, stop_capture, expectReply, focus change, timeout, disconnect | asynchronous context, timer, focus taken at any time | one dialog at a time, each ends in idle, none ended by another's timer |
| **Audio output** `evsCapAudioPlayer.js` | `curDialogId`, `playbackList`, `expectItem` | audio_out, expect_reply, TTS focus, disconnect | playback and questions kept back until speech ends | handed over once, in order, never after a disconnect |
| **Content player** `evsAudioPlayer.js` | as the players, and `delayedPlay`, the questions for an offset, the volume | play, stop, delayed play, question of a context | stop waits for an offset, and hits what plays then | what is asked for last is heard; nothing starts without the channel; the volume comes back |
| **Context manager** `evsContextMgr.js` | providers | getContext | a Promise.all, one provider asks the process | answers |
| **Authorization** `evsAuthorizeMgr.js` | code, tokens, `isReset`, `expireTimer` | auth, reset, query loops | retry each second, reset is only a flag | one loop; nothing after a reset |
| **Configuration** `evsModuleConfig.js`, `evsNetworkMgr.js`, `evsBleControl.js` | `isConfiging`, three timers, collected data | config, accept, data, Wi-Fi, auth | answers and timeouts of an earlier attempt | each attempt ends once |
| **Start-up** `evsModuleStartup.js` | `status`, a chain of promises | network, OTA, authorization | `once` listeners | ends, in every branch |
| **Interaction** `evsModuleInteraction.js` | a dozen flags | buttons, wake-up, network, device removed | flags follow events of six components | the flags are what they say |
| **Internet monitor** `internetMonitor.js` | `quit`, timers, failures | check, success, failure | timeout and error of one request | one loop; says ok or fail in the end |
| **Speaker, effects, lights, dolls, alarms, interceptor** | volumes, LEDs, downloads | small handlers | little | see `PROJECT.json` |
| **Runtime natives** (pool, curl, sqlite, wpa, BLE) | work items | post, cancel, answer | cancel against completion | answered once |

`PROJECT.json` lists all of them under `components` with what is modelled of each, and
under `hazards` the places where a test would hardly reach what can go wrong, with the
properties that cover it, or the module of the plan that will. Smaller ones met in the
survey, for maintainers: `evsModuleStartup.js:96` (the timeout leaves the listener for
`fail`), `evsBleControl.js:162` (what one connection sent is kept for the next, and for
the next configuration: any later write may complete a message that cannot be parsed), `evsEffectPlayer.js:59` (`setMute` drops
its argument), `batchDownloader.js:62` (a failure leaves the rest of the chain).

## 2. Plan

The order is that of what a user notices: who may sound, whether the speaker is
connected, whether what it plays is heard, whether what is said reaches the server; then
the dialog that ties them together; then set-up.

| # | modules | composition and abstract specification | state |
|---|---|---|---|
| 1 | `AudioMgr`, `AudioFocus`, `AudioChannels` | manager, then its users and listeners; implements `FocusSlots` | done, proved |
| 2 | `EvsClient` | client over its sockets | done, proved |
| 3 | `PlayerIpc`, `PlayerHandler`, `MediaProcess`, `Playback` | player of any kind and process over two queues; implements `PlayedItems` | done, proved |
| 4 | `SharedStream` | one writer, one reader, word by word | done, proved |
| 5 | `Recognizer`, `Dialog` | recognizer and audio output on the promise of `FocusSlots`; implements `DialogPhases` | done, proved |
| 6 | the content player | a kind of player of `PlayerHandler`: delayed play, ducked volume, asynchronous stop | done, proved |
| 7 | `Setup` | configuration, Wi-Fi, authorization and start-up; implements `ConfigAttempts` | done, proved |
| 8 | `NetMonitor` | check loop, timeout, late answer; with `EvsClient`, whose refused attempts it has to make again | |
| 9 | `AudioSource`, `Transfers` | capture thread and its stop; pool and curl, cancel against completion | |

Also left: a crash of the mediaplayer process in `Playback`; an abstract specification of
the client.

## 3. The models

An action is one callback of the event loop, run to its end, or one step of a thread.
Each module says at its head what it leaves out. Operators that stand for a fault in the
code come right before the one they would replace and are called what the code would
then do (`AcquireFromEqualLate`, `OnCloseOfWs`); they are used by no specification and are
there to show that each property can be broken by a plausible bug.

### Audio focus

`AudioMgr` is `EVSAudioMgr`. Because `_setChannelFocus` emits synchronously, what is left
of every call is kept on `stack`, one frame per statement: `Acquire(c)`, `Set(c, to, by)`,
`Demote`, `Promote`, `Notify`. The six `Acquire...` actions are the six branches of
`acquireChannel`; `Demote` reads `foregroundChannel` only when its turn comes, as the code
does. `AudioFocus` adds who calls (`AskFor`, `GiveUp`, when the stack is empty) and what
a listener does with a `Notify` frame: return, hand playback over to CONTENT
(`EVSCapAudioPlayer._onTTSFocusState`) or give its own channel up
(`EVSAudioPlayer._onFocusState`). What a listener does is done before the statements left of
the call that told it. That is harmless when those look at the pointers in their turn
(`Undecided`: an acquire, a release, the end of a release), and it is the fault of section 5
when they are changes `acquireChannel` has already chosen. `AudioChannels` is the table of
the constructor.
`FocusSlots` is the abstract promise: a channel enters a slot only when it is free.

### EVS client

`EvsClient` has one record per client field (`running`, `connected`, `ws`) and the life of
every `WebSocket` the client ever made (`sock`, `linked`, `attached`), because overwriting
`this.ws` does not end the socket it held. `Secured`, `Opens`, `OpensWithFrame`, `Fails`,
`Ends`, `Closes` are the socket's events, each with everything the client does in it.
`Lose` is `_onDisconnected`: the flag, the ping timer, the listeners taken off *this.ws*,
`close()` in its `try`, and the reconnect timer. An `error` with no listener is thrown; out
of an event or a timer it ends the process (`alive`), inside a promise it does not
(`Request`). `AppStart` and `AppStop` are what `evsModuleInteraction.js:157-205` calls, at any
time: neither looks whether an attempt, a reconnect or a closing socket is under way. Of the
recognizer the module has the recording (`Listen`, `StopRecord`) and what it writes with no
promise around it: `WriteVoice`, which as `_onVoice` looks at nothing but `state`, and
`EndVoice`. A recording hears of a loss with the flag (`HearOfLoss`), but may begin on a
connection that has been lost since its context was asked for.

### Playback

`PlayerHandler` is a player of the application as operators from its record to the next
(`OnFocusState`, `ChangeActivity`, `Stop`, ...), since they call each other inside
one callback; `Becomes` commits the last one and sends what was collected in `out`. Its
`kind` says which player it is: speech or a local sound (`tts`), which pause in the
background; an `alert`; or `content`. The last two play on there at a fifth of their volume
(`loud`). The content player overrides three callbacks (`OnContentFocus`, `ContentStop`,
`Follow`): after a dialog it comes back with a delay (`delayed`, `DelayedPlay`), and
`stop()` asks the process for the offset first (`stops`, `AnswerOffset`), as a context does
(`GetContext`). When nothing plays, the answer to such a question, or a source id, finds
`playing` null: an exception (`Throw`) that ends the application, and with it the process
(`Outlived`).
`MediaProcess` is one `MediaPlayer`: `OnSetSource`, `OnPlay`, ... are the commands on the
receiver thread, `OpenStream`, `FirstFrame`, `Complete` the read thread and the audio
callback, `FailToOpen` and `FailInStream` the read thread's two ways to end with an error
(what was read may sound on: `fed`), `StopPlayThread` the thread of one stop, `Tell` and
`Settle` the two halves of `notifyListener` on the timer thread, which reports before it
updates its fields. An item that begins at an offset (`Offsets`) is sought at once when a
stream is open, an earlier one it may be; otherwise the offset is kept (`KeptOffset`), a PLAY
waits (`OnPlay`), and the note that a stream is prepared seeks and starts it
(`StartAtOffset`).
`Playback` joins them over `cmds` and `reports`.
`PlayedItems` is what a player with its process promises whoever gives it items: it takes
them one at a time, in the order they were asked for (some are passed over, when a list is
replaced); nothing sounds but the one it has taken; and it is done with an item, which is
then silent and never taken again, only when it was heard or somebody asked to stop it.
Queues, source ids, focus and threads are gone. In the mapping the current item is the one
`playing` stands for, and what sounds is the open stream.

| constant | meaning |
|---|---|
| `Kinds` | which players a behaviour may be about: one of them, from the start |
| `Demotes` | the manager may move the channel to the background and back |
| `Offsets` | the items that come with an offset |

Nothing else is switched off: items are stopped before their source id is known, streams
fail, reports overtake each other and the timer thread lags behind in every run. What the
properties say of it is under *Calm* below.

### Shared data stream

`SharedStream` takes `Writer::write` and `Reader::read` apart into the steps another
thread can see: the end cursor is raised (`BeginWrite`), the words are copied one by one
in any order (`WriteWord`), the start cursor follows (`Publish`); a read checks for an
overrun, decides how much (`Tell`), copies (`ReadWord`), advances, checks again (`Check`).
Word `i` of the stream is written `i`, so that a copied word tells where it came from.
`Skip` is what the runtime does with an overrun.

### Dialog

`Recognizer` is `EVSCapRecognizer` and `EVSCapAudioPlayer` as operators from one record to
the next, as `PlayerHandler` is, because a directive, a change of focus or a loss calls
several of them in one callback. `Dialog` is the event loop around them: the channel
manager as `FocusSlots` promises it, the contexts, which are answered in any order
(`Context`), the client's connection and its answers, which may be for a request that has
been superseded (`Message`, `_willDrop`), and the timers. The server may say stop_capture for
any voice it was sent, late, or twice (`voices`); only `_willDrop` stands before the
handler. `DialogPhases` is what the rest
of the application and the server see of a dialog: it starts, listens, may lose the
microphone without the server hearing of it ("deaf"), thinks and ends, and a dialog that
is over stays over.

### Setup

`Setup` is what happens between the box and an access token. `Config` is
`EVSModuleConfig.config`; `Accept`, `Data`, `Disconnects` and the two timeouts are
`EVSNetworkMgr`'s handlers with what `EVSModuleConfig` does when they emit `fail`
(`NetworkFail`) or `ok` (`NetworkSuccess`); `ble` and `link` are `EVSBleControl` and the
one connection of the radio. `wifi` counts the calls of `configWifi` in the thread pool:
nothing cancels one, and its answer goes to whatever configuration is then under way.
`work` counts the steps of `EVSAuthorizeMgr` under way, of each kind: queries, their
one-second retries, the save of a refresh token. `reset()` is the flag `isReset`, which a
query looks at when its answer comes and a retry or a save does not look at. `authTimers`
are the timers that run, `authTimer` the one that the variable names. `ProcessDies` is the
exception of `evsAuthorizeMgr.js:174` that nobody catches, and the restart after it.
`ConfigAttempts` is the abstract attempt: begun, joined to the Wi-Fi, authorized, ended
once.

### Calm

Many properties hold until something happens that the code is not made for. The modules
keep history variables for that, which no guard reads and which change in the very step that
does it: `calm` in `AudioFocus`, `EvsClient`, `Dialog` and `Setup`; in `Playback` the player's
`hasty`, `stale` and `crossed` and the process's `broken` and `slipped`, from which
`Unhurried`, `Calm` and `InOrder` are made. The model goes on afterwards like the code, the
properties and theorems with the history in them say nothing any more, those without it hold
on. Dropping any one of the conditions makes TLC refute a property.

| module | what ends the calm | what goes wrong |
|---|---|---|
| `AudioFocus` | a listener that asks for a channel or gives one up while the call that told it still has a change to make that it chose before (`evsAudioMgr.js:87`, `:97`) | two channels in the foreground, one of them unknown to the manager; one that waits behind nobody |
| `EvsClient` | a start of the application while an attempt, a reconnect timer or a closing socket is under way (`evsModuleInteraction.js:157`, `:192`, `:199`) | two connections; `stop()` closes one; the listeners are taken off the wrong socket, whose `error` ends the process; the ping timer of the other reconnects a stopped client |
| | a recording that begins on a lost connection (`evsCapRecognizer.js:142-175`) | its first voice is written to a socket without listeners: the process ends |
| `Playback`, `Unhurried` | an item that is stopped or ends before its source id is known (`evsMediaPlayer.js:188`) | the report of it is taken for the next item, which is lost |
| | a stream that fails, at once or later (`rk_ffplay.c:3749`, `:3962`) | the report of the error is followed by one of the stop, which is taken for the next item; what failed to open is over unheard |
| `Playback`, `Calm` | besides, an answer with an offset that stops another item than the one it was asked for (`evsAudioPlayer.js:100`) | that item is never heard; section 5 |
| `Playback`, `InOrder` | a report that overtakes another in the pool (`crossed`) | reports are acted upon as they come |
| | a source that is set while the timer thread is telling a note (`slipped`) | `MediaPlayer.cpp:113` reports, `:125` zeroes `mSourceID`: `main.cpp:195` then refuses to play and nobody reads the refusal |
| | a start or resume that finds no stream (`slipped`) | the status is PLAYING and the next prepare is refused (`rk_ffplay.c:4968`): the player is dead until it is stopped |
| | read thread and timer thread letting a stream go on together (`slipped`) | both toggle the pause, and it stays paused |
| `Dialog` | a dialog that starts while another waits for its context | `currentReqId` and `request` are the second's when the first is to be sent (`evsCapRecognizer.js:142`) |
| | a stop_capture that `_willDrop` lets pass although the voice of its request is over (`evsCapRecognizer.js:43-53`) | the state is 'thinking' and a timer of five seconds runs, which nothing clears: it ends the recording that follows |
| | speech or a local sound that pushes a recording aside | it begins anew, with its old request id, when the channel comes back (`:154`) |
| | a recording that begins offline | nothing ends it but the loss it has not heard of (`evsCapAudioPlayer.js:84`), or its own voice (see `EvsClient`) |
| | playback or an expected reply that comes when the speech is over | kept until the end of the next speech (`:55`) |
| `Setup` | a configuration that begins while the Wi-Fi has not answered an earlier one | the old answer is taken for the new one's (`evsNetworkMgr.js:113`) |
| | an answer of the Wi-Fi for a configuration while another step of authorization is under way | its `isReset = false` revives what was reset (`evsAuthorizeMgr.js:67`) |
| | the refresh of a token, or the start-up's query, that begins during a configuration | its success is taken for the configuration's, and the radio stays on (`:195`) |
| | a refresh token that is saved for a configuration that is over, during the next | the same (`:131`) |

## 4. The runs

| run | constants | checks | states |
|---|---|---|---|
| `focus_calm` | the source's five channels, two that capture nobody, and both listeners | `NoWaitingForNobody`, `ForegroundOutranksBackground`, `ImplementsSlots` | 32 300 |
| `focus_reentrant` | the source's channels and both listeners | `TypeOK`, `PointersMatchStates`, `SingleBackground`, `RequestGranted`, `CallsReturn` | 4 727 |
| `client` | 3 sockets, 2 timers | `TypeOK`, `ConnectionBehindFlag`, `SendsReachServer`, `NothingAfterLoss`, `OneConnection`, `EveryErrorHeard`, `StopLasts`, `Recovers` | 322 267 |
| `client_stop` | the same | `StopDisconnects` is violated | |
| `playback_players` | the three kinds, 3 items, the second with an offset, 2 commands queued, `Demotes` | `PlayingIsPlayed`, `ChannelComesBack` | 691 336 |
| `playback_content` | the same, `content` only | `PlaysOnAfterStop` is violated | |
| `playback_any` | the three kinds, 2 items, the first with an offset, 1 command queued, 5 reports and notes, `Demotes` | `TypeOK`, `HeldForSomething`, `NothingStartsUnheld`, `LowIsTimed`, `ImplementsItems`, `RightItemSounds` | 4 576 318 |
| `stream_voice` | buffer of 3 words, blocks to 4, reads of 2, roll back 1, 9 words | `TypeOK`, `CursorBehindWriter`, `WordsNotStale`, `OverrunPasses` | 14 717 |
| `stream_torn` | the same | `ReadsAreWhole` is violated | |
| `dialog` | 3 dialogs, 3 timers | `TypeOK`, `VoiceOnlyWhenRecording`, `NoStrayTimer`, `RecordingIsHeard`, `KeptForSpeech`, `ImplementsPhases`, `DialogEnds` | 229 317 |
| `dialog_late` | 2 dialogs, 2 timers | `LateStopsDropped` is violated | |
| `setup` | 3 configurations, 2 Wi-Fi answers, 3 steps of authorization and 2 timers at once | `TypeOK`, `AttemptIsTimed`, `RadioOffAfterwards`, `ImplementsAttempts`, `SetupEnds` | 346 306 |

**Bounds.** *Focus*: none; the table is finite and the stack is bounded by the code. The
source's captures leave no way to have a channel waiting behind a more important one,
which `focus_calm` makes up for with two plain channels. *Client*: three sockets are one
in use, a second that an overlapping start has made or that lingers, and one new; when all
are taken no attempt is made until one is closed for good. (With four, taken as symmetric,
the safety properties hold as well, in 363 583 states.) Two timers are one more than a calm client
has. *Playback*:
three items are the one that plays, the one that replaces it and one that waits. `MaxQueue`
limits the commands a *new* directive may find in the queue; the commands of a callback are
always sent; for the content player the same bound holds of the reports, which its questions
add to. In `playback_any` two items, one command and the constraint `Few` on what is
under way keep the run at a size. Its view `Told` identifies states that differ in the history
only: `Present` is what a step depends on, and while `Calm` what the properties read is
kept too; afterwards none of them tells such states apart. `playback_players` and
`playback_content` do not look further (CONSTRAINT) where the history has become such that
their properties say nothing any more; the state in which it does is still checked. *Stream*: the buffer wraps three
times; a block may be longer than the buffer and a read shorter than a block. 9 words are
enough for a reader to be lapped before, within and after each of its steps. *Dialog*: three
dialogs are the one before whose answers are late, the one that is heard or waits for its
context, and one that follows; three timers are one for each of them.
*Setup*: three configurations are one that leaves something behind, one that it meets and
one after that; two Wi-Fi answers and two timers are one of an earlier attempt and one of
the present; three steps of authorization are the query of the attempt, one that a reset
did not reach and one of the start-up or of a refresh. An action that would go beyond a
bound waits (`Room`); no property depends on the bound, which the proofs do without.

**Deadlock** is checked in the runs of the focus, the stream and the
dialog. It is not in the runs of the set-up, where a configured speaker with no user rests
(the bound on configurations; without it there is always a next one), in those of the client,
where the process ends when a socket emits `error` to nobody, nor in the playback runs, which stop once every item has
been asked for and played, or with an exception.

**Fairness.** `CallsReturn`: a handler that has started runs to its end, no more.
`Recovers`: a timer that is set fires, a socket goes through its states (weak, libuv), and
strong fairness for the handshake that ends well: the server does not put its first frame
into the same read as every single answer. Without that last one the client fails and
retries for ever and the property is false. It is stated up to an attempt that is refused
(`Refused`), after which the client leaves it to others, and to the end of the calm. `ChannelComesBack`: the event loop
delivers reports and each thread of the process keeps running (weak, separately for the receiver, the stream
threads, the stop thread, the timer thread); nobody has to give a directive.
`OverrunPasses`: the interval timer of an open reader keeps firing; nobody has to write,
open or close. An unending writer that went round the whole buffer (ten seconds of sound)
between any two steps of the reader would defeat it in the code too; `MaxIndex` stands for
the pause the reader needs. `DialogEnds`: contexts are answered (no provider keeps
`Promise.all` waiting), the thinking timeout fires, and the server says its last word on
each request it has got, however late: nothing else ends a recording it leaves open. `SetupEnds`: the timers
fire, `configWifi` answers (it waits 30 s at most, `iotjs_module_iFLYOS_wpacontroller.cpp:59`)
and so does the database of the start-up; nothing is asked of the phone or the server.

Of what ends the calm in `Playback`, three items do not suffice to break `PlayingIsPlayed` and
`ChannelComesBack` by a late answer (`stale`), four of the content player do: it was the proof
that asked for the condition. The two properties are stated of the players that play on in
the background (`VolDown`): one that pauses may have its pause refused before the first frame
(`main.cpp:230`), the answer ignored (`evsMediaPlayer.js:175`). `HeldForSomething`,
`NothingStartsUnheld`, `LowIsTimed` and `PlayingIsActive` need none of the conditions, which is
what `playback_any` and the proofs show.

## 5. Where code and comments disagree

* **Two channels in the foreground** (`evsAudioMgr.js:87`). The comment says one channel
  replaces an equal one. Line 87 tells TTS before line 88 gives LOCAL the foreground; the
  playback kept back during the speech is handed over in that call, finds nobody in the
  foreground and takes it. Line 88 takes it too, and overwrites `foregroundChannel`:
  CONTENT stays in the foreground, unknown to the manager. Without `calm` TLC refutes
  `SingleForeground` with the source's table and listeners, and so `NoWaitingForNobody`;
  `ForegroundOutranksBackground` holds with that table even then.
* **A stop that leaves a connection** (`evsClient.js:242`, `client_stop`). The comment at line
  235 says `stop()` is to disconnect from the server. A new access token or the network
  monitor's `ok` starts the client while it is connecting (`evsModuleInteraction.js:192`,
  `:199`): `ws` is overwritten, both sockets open, and `stop()` closes one. The other stays
  attached, so that its directives are followed and its ping starts the ping timer, which five
  seconds after a missed ping connects the stopped client again. While both are there,
  requests go to the newer one, connected or not, and the loss of either takes the listeners
  off `this.ws`: when that one is still connecting it goes on, and its `error` finds nobody and
  ends the process.
* **Voice to a lost connection** (`evsCapRecognizer.js:171`). `recognize()` waits for its
  context. When the connection is lost meanwhile the recording begins all the same, on a
  `ws` whose listeners `evsClient.js:206-209` has taken off; the first block of voice
  (`evsClient.js:298`) is answered with an `error` (`websocket.js:346`) that leaves the callback
  of the recorder, and the process ends within the five seconds before the reconnect.
* **A stopped client connects** (`evsClient.js:240`). `stop()` returns when the connection
  is still being made, and never cancels the timer of line 252. `StopLasts` begins when
  both are out of the way.
* **A hasty alert is lost** (`evsMediaPlayer.js:188`). A new alert is said to interrupt the
  one playing. If that one has no source id yet its late `stop` is taken for the new one,
  which is never heard. `ImplementsItems` holds up to such a stop (`Unhurried`).
* **A stop hits the next item** (`evsAudioPlayer.js:100`, `playback_content`). The comment at
  line 45 says a player stopped with `true` plays on once it is STOPPED. The stop is only
  sent in the answer to the question for the offset; when the item ends meanwhile, the next
  one has been taken and is stopped, without having been heard, as nobody asked. After
  `stop(false)`, with nothing to follow, the same answer finds nothing to stop. When it hits
  an item without a source id, that item is dropped as soon as the id is known, and its STOP
  and the SET_SOURCE of the one after it reach the process together: it may be left with a
  stream the application does not know of, or with the status PLAYING and no stream, after
  which it refuses to prepare, and the player holds its channel for an item that never plays.
* **An offset is kept for another item** (`MediaPlayer.cpp:114`). The comment
  at `evsMediaPlayer.js:60` says the offset is that of the resource. `mOffset` is kept until
  some stream is prepared; an item stopped before it was leaves it to the next, which begins
  there, and begins without a PLAY. When that item is stopped in the same moment, the start
  of line 118 finds no stream: the status stays PLAYING, and the player refuses to prepare
  anything before the next stop.
* **An error hits the next item** (`rk_ffplay.c:3756`, `:3975`). A stream that fails is reported
  as an error and then, as the process stops it, once more. The first report ends the item at
  the application, the second the item after it.
* **A late stop_capture ends the next recording** (`evsCapRecognizer.js:50`, `dialog_late`). The
  comment at `evsClient.js:226` says responses that are not for the ongoing request are dropped.
  `_willDrop` learns of the new request only when it has the focus. A stop_capture for the old
  one that comes before puts the recognizer into 'thinking' and starts a timer that the
  recording which then begins does not clear; after five seconds it ends it. A second
  stop_capture for one request does the same.
* **A PLAY after a stop is lost** (`evsAudioPlayer.js:98`). `stop(false)` sets
  `playAfterStop`, which only acquiring the channel sets again. A PLAY that is not
  IMMEDIATELY and comes before the stop is reported finds the channel still held, and joins
  the list; the report releases the channel, and the item waits for a directive that
  replaces it. (`NothingStartsUnheld` says that at least it does not start.)
* **A refresh without a token** (`evsAuthorizeMgr.js:136`). The comment at
  line 192 says the access token is refreshed an hour before it expires. After an
  authorization with a code `this.refreshToken` is `info.refreshToken`, a field that the
  answer, whose `refresh_token` line 127 has stored, does not have: the refresh is asked for
  without a token, until the next start reads the database.
* **A reset that does not stop** (`evsAuthorizeMgr.js:86`). The comment says a query that is
  terminated from outside ends at once. The retry of line 97 and the save of line 131 do not
  look: a retry that comes after the next `authWithCode` asks again with its code, and a save
  announces its token. `Calm` in section 3 says what comes of it.
* **A read may be torn** (`SDS/Reader.h:337`, `stream_torn`). OVERRUN is said to be
  returned when the data has been overwritten. The final check looks at the cursor after
  it was advanced: up to `nWords` words may be of the next lap, with no error.

Met as well and recorded as hazards: a failed attempt is not retried although
`evsClient.js:217` speaks of it; a player that pauses in the background may sound there
(`evsPlayerHandler.js:28`); the process forgets a source (`MediaPlayer.cpp:111`).

## 6. The proofs

Every theorem is for all values of the constants, under the `ASSUME` of the module (types
of the constants, `Nobody` no channel, sizes not zero) and what its statement adds. A
property that is stated up to the end of the calm (section 3) is proved as it stands:
nothing is assumed of the application, the listeners, the server or the threads.

| module | theorem | property | statement adds |
|---|---|---|---|
| `AudioFocusProofs` | `TypeCorrect` | `TypeOK` | |
| | `PointersAreRight` | `PointersMatchStates` | |
| | `CallsAreContinuations` | (`CalmCalls`) | |
| | `ForegroundIsExclusive` | (`SingleForeground`) | |
| | `WaitingIsJustified` | `NoWaitingForNobody` | |
| | `ForegroundIsRanked` | `ForegroundOutranksBackground` | |
| | `MgrImplementsSlots` | `ImplementsSlots` | |
| `AudioCallbackProofs` | `HandersAreTold` | (`HandersInv`) | `HandersComeFirst` |
| | `BackgroundStaysExclusive` | `SingleBackground` | `HandersComeFirst` |
| | `RequestsAreGranted` | `RequestGranted` | `HandersComeFirst`, `CapturesMoreImportant` |
| | `SourceTableGrants` | both of the above | the table and the listeners of the source |
| `EvsClientProofs` | `TypeCorrect` | `TypeOK` | |
| | `FlagIsBacked` | `ConnectionBehindFlag` | |
| | `CalmHolds` | (`CalmInv`) | |
| | `SendsAreRight` | `SendsReachServer` | |
| | `LossesAreFinal` | `NothingAfterLoss` | |
| | `ConnectionsAreSingle` | `OneConnection` | |
| | `ErrorsAreHeard` | `EveryErrorHeard` | |
| | `StopsAreForGood` | `StopLasts` | |
| `PlaybackProofs` | `TypeCorrect` | `TypeOK` | |
| | `ChannelsAreUsed` | `HeldForSomething` | |
| | `PlayersAreNotBusy` | (`PlayingIsActive`) | |
| | `NothingPlaysUnheld` | `NothingStartsUnheld` | |
| | `VolumeComesBack` | `LowIsTimed` | |
| `PlaybackProtocolProofs` | `NoItemIsSkipped` | (`NoItemSkipped`) | |
| | `TheRightItemSounds` | `RightItemSounds` | |
| | `PlayerImplementsItems` | `ImplementsItems` | |
| | `WhatIsSaidToPlayPlays` | `PlayingIsPlayed` | |
| `SharedStreamProofs` | `TypeCorrect` | `TypeOK` | |
| | `StreamHolds` | (`StreamInv`) | |
| | `ReaderStaysBehind` | `CursorBehindWriter` | |
| | `WordsAreNotStale` | `WordsNotStale` | |
| `DialogProofs` | `TypeCorrect` | `TypeOK` | |
| | `MicrophoneOff` | `VoiceOnlyWhenRecording` | |
| | `TimersCleared` | `NoStrayTimer` | |
| | `ThinkingTimed` | (the state `thinking` has its timer) | |
| | `RecordingHeard` | `RecordingIsHeard` | |
| | `KeptHasSpeech` | `KeptForSpeech` | |
| | `DialogImplementsPhases` | `ImplementsPhases` | |
| `SetupProofs` | `SetupTypeCorrect` | `TypeOK` | |
| | `AttemptTimed` | `AttemptIsTimed` | |
| | `RadioOff` | `RadioOffAfterwards` | |
| | `SetupImplementsAttempts` | `ImplementsAttempts` | |

**Focus.** The properties of a state between calls say nothing of the middle of one.
`CallInv` does: the stack is always one of the continuations that `acquireChannel` and
`releaseChannel` can leave, each with the condition its branch left behind ("`Demote(n)`,
then `Set(n, FOREGROUND)`, and the foreground is less important than `n`"), possibly under
a `Notify` frame, and behind it frames that look at the pointers in their turn: what the
calls that are under way around it have left to do. A listener that calls back in front of
such frames starts a call of its own, which ends before they are looked at; that is all a
callback can do while `calm`. One lemma per action shows to which continuation it leads. The
refinement follows: under `CallInv` a `Set` frame only ever fills a free slot. Once a
listener has called back in front of a change already chosen, `CallInv` is false (section
5); `PointersMatchStates` is inductive by itself.

**Focus with callbacks.** What the listeners may do to a call in progress depends on the
table. `HandersComeFirst` says what saves the source's: a channel whose listener hands over
to another (TTS, to CONTENT) is outranked by none, captured by every less important one, and
hands over to a channel that does not. Then such a channel is never in the background, so
that it gets the foreground in the last statement of a call and loses it in the first:
`HandersInv` says so of every frame on the stack, and that the frames which follow its loss
are one of three short sequences. The acquiring that its listener does in between therefore
finds nothing half done, except the two statements of section 5, which fill the foreground
twice. `BackgroundInv` adds that whoever fills the background finds it emptied by the
statement before, whatever a listener does between the two; `GrantInv`, that the frame that
grants the latest request stays on the stack until it has, and that what a listener gives up
or asks for in the meantime is another channel. The last needs `CapturesMoreImportant`,
which rules out the one branch of `acquireChannel` that drops a request, behind a more
important foreground and a more important background channel. `SourceTableGrants` shows that the source's table and listeners
(`SourceTable`) meet both conditions, so that its two properties have no other assumption.

**Client.** `ConnectionBehindFlag` needs that a socket in `attached` whose end is still to
come is heard: inductive with the types, whatever overlaps. While `calm`, `OrderlyInv` says
that `this.ws` is the only socket that is not over, that a pending timer means that it is
over, that nothing is over unheard, and that a recording or a ping timer runs only while
connected: what `_onVoice` does not look at is so because every loss is heard. Its five
consequences are immediate.

**Playback.** The operators of a callback call each other, so the proof follows them. `Fit`
is what a player is after every callback: `Good` (busy only when playing or paused), `Busy`
(the channel is for something; a player that plays on in the background is *active* as long
as it has one, which is why the timer finds it playing or finds nothing), `Listed` (without
the channel nothing waits to be played on, and a delayed play has not been stopped),
`Claimed` (what was asked for and not cancelled has the channel) and `Loud`. The four
properties are parts of it, and none is inductive alone: that nothing starts without a
channel rests on the list being empty whenever the timer runs. Each piece has a lemma of its
own, several of which take a record that does not fit and make it fit: `Started` (an item
is taken), `Ready` and `Told` (a focus is told), `Idle` (an item has ended), `Stoppable` and
`Stopped`. `Alike` is what commands and marks leave alone. Nothing is assumed of the
reports, which is why errors, order and lateness do not matter.

**Playback, both ends.** That no item is skipped and the right one sounds relates the player to
everything on its way: commands, reports, notes and the stop thread. `ProtocolInv` says, up
to the end of the calm, what there is for each of the three values of `playing`. *null*: nothing of
an item is left anywhere (`Nothing`). *asked*: the last command is the SET_SOURCE of the
item, and what comes before it is of items that are over, which only a stop thread that is
still running may delay (`Requested`); or the process has opened it and the report of its
source id, the only one, is on its way (`Identified`). *known*: what the process has open is
the item, it ends at most once, in a stop or a completion that is on its way in one place,
and a stop or an end is of an item that was heard or asked to stop (`AtProcess`). Reports
carry no source id, so all of this is counting: `Has` and `One` say that something of a
kind, or at most one, is in a queue, and four lemmas what adding, taking and joining do to
that. The two ends are followed separately. `Tidy` is what a record may send, `Goes` what a
callback may do to an item, and each operator of `PlayerHandler` has a lemma that it keeps
the one and does the other; `CallbackKeeps`, `EndKeeps` and `SourceKeeps` then say what
becomes of the protocol. Nothing is assumed of the order of the reports.

The refinement is read off the same lemmas. A callback is a turn of `PlayedItems`, because
`Goes` says that it leaves the item alone that is taken, or takes one when there is none
(`CallbackTurns`); the report of an end may be taken only when the protocol says that the
process is silent and the item was heard or asked to stop (`EndTurns`); a step of the
process makes nothing sound but the item that is *known* (`ProcessSounds`). That items are
taken in order is the part of `Tidy` called `InLine`: what waits is ascending and comes
after all that is over. `NoItemSkipped` is what is left of it for a single state; it has
a theorem and no run of its own.

`SteadyInv` strengthens it for players that do not pause, with reports in order: an item
whose stream has not been started has nobody else's notes in its way (`Fresh`), and a PLAY on
its way or an offset that is kept will start it (`Awaited`); after its end the process is at rest before the next SET_SOURCE is
sent (`Rested`), which is where a source set while a note is told ends the calm; and the report of an end is the last
thing the process says of an item (`LastTold`), which is where a report that overtakes does. TLC checked
`ProtocolInv` and `SteadyInv` with the bounds of `playback_players` before they were proved.

**Stream.** `StreamInv` holds at each single step: a slot of a published index holds the word
of it or of an index that has lapped it, the words of the block under way that were copied
are in place, and whatever the reader aims at is published. The arithmetic is in one lemma,
`SameSlotLapApart`: two indices in one slot are at least a buffer apart.

**Dialog.** The operators are followed as in Playback. `DialogInv` has two halves: what
`Sound` says of the record (its type, the microphone on only while recording, a running
timer of one that thinks) holds whatever happens; `CalmApp` says, while `calm`, that a dialog
in a state has what will end it and no timer of an earlier one runs, that what is recorded is
heard, and that what is kept for a speech has one. Each
operator has a lemma that says which phase it leads to; `Goes` collects them, and the
refinement is read off it.

**Setup.** `AttemptIsTimed` is nearly inductive as it stands. For the rest `SetupInv` adds,
while `calm`: there is no timer but the one that is named; as long as an attempt has none,
`isReset` is set, so that no answer can end it; once it has one, something is under way that
the flag does not stop, which is why a second `ok` of the Wi-Fi is not calm; and outside the
first stages the radio is off. The counters in `work` are handled by four lemmas
(`MovesKeeps`, `FinishesKeeps`, `AddsKeeps`, `NotBusy`), the ends of an attempt by two
(`AuthFailEnds`, `TokenEnds`). `Goes` says what a step may do to an attempt, and
`SetupImplementsAttempts` translates it.

**Only model-checked**: the liveness properties (`CallsReturn`, `Recovers`,
`ChannelComesBack`, `OverrunPasses`, `DialogEnds`, `SetupEnds`), which the prover cannot do.
Every invariant and action property of a passing run is a theorem.

## 7. What is not modelled

Components without a module, and why, are in `PROJECT.json`; the modules of section 2 are to
come for those with a protocol to get wrong. Left out for good: decoding and audio/video
synchronisation in `rk_ffplay.c`, the JavaScript engine, libuv, mbedTLS, the Bluetooth
library, snowboy and wpa_ctrl (third party); lights, volumes and texts (values without an
order); framing of messages and frames (the models take a message as a whole).

Run everything with `tlc -config <name>.cfg <module>` and `tlapm <module>` in this
directory; `PROJECT.json` says which configuration belongs to which module.
