------------------------------ MODULE EvsClient ------------------------------
(***************************************************************************)
(* EVSClient (smartSpeakerApp/src/evsClient.js) over the runtime's         *)
(* websocket (jsruntime/src/js/websocket.js): the connection to the EVS    *)
(* server, its loss, and the five second timer after which it is made      *)
(* again.  Of the recognizer (evsCapRecognizer.js) there is what it writes *)
(* to the connection without a promise around it: a recording's voice and  *)
(* the word that ends it.                                                  *)
(*                                                                         *)
(* JavaScript is single threaded: an action is one callback of the event   *)
(* loop, run to its end with every synchronous emit in it.  A socket is    *)
(* not forgotten when this.ws is given another: it lives on with the       *)
(* listeners it has, so the sockets are a set and ws one of them.          *)
(***************************************************************************)
EXTENDS Naturals, FiniteSets

CONSTANTS
  Socket,     \* WebSocket objects; one is used again when it is closed for good
  None,       \* this.ws before the first connection
  MaxTimers   \* bound: reconnect timers pending together

ASSUME ClientAssumption ==
  /\ None \notin Socket
  /\ MaxTimers \in Nat \ {0}

VARIABLES
  running,    \* this.running
  connected,  \* this.connected
  ws,         \* this.ws
  sock,       \* what each socket still has to go through
  linked,     \* sockets whose handle.connected is true: close() can write to them
  attached,   \* sockets with this client's four listeners
  timers,     \* reconnect timers pending
  pingTimer,  \* EVSCapSystem.pingCheckTimer is set
  recording,  \* EVSCapRecognizer.state is 'record': voice is written
  alive,      \* no 'error' has been emitted that nobody listens to
  wanted,     \* the application's last call (history: only the properties read it)
  calm        \* no start has met an attempt under way, no recording a lost connection (history)

clientVars ==
  <<running, connected, ws, sock, linked, attached, timers, pingTimer, recording, alive, wanted, calm>>

\* connecting: until the handshake is answered; failed: an 'error' was emitted;
\* ended: the stream is over or destroyed, a 'close' is still to come; closed: no
\* event any more.
SocketState == {"connecting", "open", "failed", "ended", "closed"}

Live(s) == sock[s] \in {"connecting", "open"}

\* Nothing of s reaches the client any more.
Abandoned(s) == s \notin attached /\ sock[s] \in {"ended", "closed"}

\* Nothing of an earlier attempt is left that a new one could meet.
Settled == timers = 0 /\ \A s \in Socket : sock[s] = "closed" \/ Abandoned(s)

(***************************************************************************)
(* Pieces of the handlers.                                                 *)
(***************************************************************************)
\* Fault: the disconnection arms a reconnect besides the caller's.
ArmReconnectTwice ==
  /\ timers < MaxTimers
  /\ timers' = timers + 2

\* reconnect() once stop() has cleared running and found nothing connected.
ArmReconnect ==
  /\ timers < MaxTimers
  /\ timers' = timers + 1

\* ws.close() in its try: a socket whose handle is not connected throws before it
\* is destroyed, and goes on.
AfterClose(st, lk) == IF ws \in lk THEN [st EXCEPT ![ws] = "ended"] ELSE st

\* _onDisconnected of a connected client, once the sockets are st and lk.
\* The listeners leave this.ws, whichever socket the event came from.
Lose(st, lk, run) ==
  /\ connected' = FALSE
  /\ pingTimer' = FALSE
  /\ attached' = attached \ {ws}
  /\ sock' = AfterClose(st, lk)
  /\ linked' = lk
  /\ running' = FALSE
  /\ IF run THEN ArmReconnect ELSE UNCHANGED timers

Ignore(st, lk) ==
  /\ sock' = st
  /\ linked' = lk
  /\ UNCHANGED <<running, connected, attached, timers, pingTimer>>

\* _onDisconnected, called by whatever socket the client listens to.
OnDisconnected(st, lk) ==
  IF connected THEN Lose(st, lk, running) ELSE Ignore(st, lk)

\* Fault: only the close of this.ws counts.
OnCloseOfWs(s, st, lk) ==
  /\ IF s \in attached /\ s = ws THEN OnDisconnected(st, lk) ELSE Ignore(st, lk)
  /\ UNCHANGED alive

\* 'close' of s
OnClose(s, st, lk) ==
  /\ IF s \in attached THEN OnDisconnected(st, lk) ELSE Ignore(st, lk)
  /\ UNCHANGED alive

\* 'error' of s: emitted to nobody it is thrown, and ends the process.
OnError(s, st, lk) ==
  IF s \in attached
  THEN OnDisconnected(st, lk) /\ UNCHANGED alive
  ELSE Ignore(st, lk) /\ alive' = FALSE

\* Fault: startServerConnection does not look whether it is connected.
StartServerConnectionAnyhow ==
  /\ running' = TRUE
  /\ \E s \in Socket \ {ws} :
       /\ sock[s] = "closed"
       /\ ws' = s
       /\ sock' = [sock EXCEPT ![s] = "connecting"]
       /\ attached' = attached \cup {s}
  /\ UNCHANGED <<connected, linked, pingTimer, alive>>

\* startServerConnection: a new socket becomes this.ws, the old one is not looked at.
StartServerConnection ==
  /\ running' = TRUE
  /\ \/ /\ connected
        /\ UNCHANGED <<ws, sock, attached>>
     \/ /\ ~connected
        /\ \E s \in Socket \ {ws} :
             /\ sock[s] = "closed"
             /\ ws' = s
             /\ sock' = [sock EXCEPT ![s] = "connecting"]
             /\ attached' = attached \cup {s}
  /\ UNCHANGED <<connected, linked, pingTimer, alive>>

\* Fault: stop() says it is disconnected and leaves the socket alone.
StopFlagsOnly ==
  /\ running' = FALSE
  /\ connected' = FALSE
  /\ UNCHANGED <<ws, sock, linked, attached, alive>>

\* stop(): close() of a socket whose handle is connected destroys it; otherwise it
\* emits 'error', to _onDisconnected or, without listeners, out of stop().
Stop ==
  /\ running' = FALSE
  /\ \/ /\ ~connected
        /\ UNCHANGED <<connected, sock, attached, alive>>
     \/ /\ connected
        /\ ws \in linked \cup attached
        /\ connected' = FALSE
        /\ attached' = attached \ {ws}
        /\ sock' = [sock EXCEPT ![ws] = "ended"]
        /\ UNCHANGED alive
     \/ /\ connected
        /\ ws \notin linked \cup attached
        /\ alive' = FALSE
        /\ UNCHANGED <<connected, sock, attached>>
  /\ UNCHANGED <<ws, linked>>

\* Fault: the recognizer is not told.
HearNothing == UNCHANGED recording

\* EVSCapRecognizer._onDisconnected: a recording that hears of the loss is over.
HearOfLoss == recording' = (recording /\ (connected => connected'))

(***************************************************************************)
(* The application: the first start, a new access token, the network back, *)
(* none of which looks whether an attempt or a reconnect is pending; and   *)
(* the network lost, the device removed, a new configuration.              *)
(***************************************************************************)
AppStart ==
  /\ alive
  /\ StartServerConnection
  /\ wanted' = "start"
  /\ calm' = (calm /\ (connected \/ Settled))
  /\ UNCHANGED <<timers, recording>>

\* Fault: the loss is not told to EVSCapSystem, which keeps its ping timer.
AppStopUntold ==
  /\ alive
  /\ Stop
  /\ HearOfLoss
  /\ wanted' = "stop"
  /\ UNCHANGED <<pingTimer, timers, calm>>

AppStop ==
  /\ alive
  /\ Stop
  /\ HearOfLoss
  /\ pingTimer' = (pingTimer /\ connected' = connected)
  /\ wanted' = "stop"
  /\ UNCHANGED <<timers, calm>>

\* A request written to this.ws: a socket not connected yet or no more answers
\* with a synchronous 'error'; what it throws stays in the promise.
Request ==
  /\ alive
  /\ ws \in attached \ linked
  /\ OnDisconnected(sock, linked)
  /\ HearOfLoss
  /\ UNCHANGED <<ws, alive, wanted, calm>>

(***************************************************************************)
(* The recognizer.                                                         *)
(***************************************************************************)
\* _onFocusChanged: the context of a recognition is there, whatever has become of
\* the connection since it was asked for, or the channel has come back.
Listen ==
  /\ alive
  /\ ws # None
  /\ recording' = TRUE
  /\ calm' = (calm /\ connected)
  /\ UNCHANGED <<running, connected, ws, sock, linked, attached, timers, pingTimer, alive, wanted>>

\* The recording is over without a word to the server: the focus or the dialog is.
StopRecord ==
  /\ alive
  /\ recording
  /\ recording' = FALSE
  /\ UNCHANGED <<running, connected, ws, sock, linked, attached, timers, pingTimer, alive, wanted, calm>>

\* Written to this.ws from an event, with no promise to keep what it throws.
SendBare ==
  IF ws \in linked THEN Ignore(sock, linked) /\ UNCHANGED alive ELSE OnError(ws, sock, linked)

\* _onVoice: a block of voice, from the recorder's callback
WriteVoice ==
  /\ alive
  /\ recording
  /\ SendBare
  /\ HearOfLoss
  /\ UNCHANGED <<ws, wanted, calm>>

\* __CANCEL__ of a recording that another replaces; __END__ when the server says stop_capture,
\* recording or not
EndVoice ==
  /\ alive
  /\ ws # None
  /\ recording \/ \E s \in attached : sock[s] = "open"
  /\ SendBare
  /\ recording' = (recording /\ ~alive')
  /\ UNCHANGED <<ws, wanted, calm>>

(***************************************************************************)
(* Timers.                                                                 *)
(***************************************************************************)
\* Fault: the timer looks at running, which reconnect() has cleared.
TimerFiresIfRunning ==
  /\ alive
  /\ timers > 0
  /\ IF running THEN StartServerConnection
     ELSE UNCHANGED <<running, connected, ws, sock, linked, attached, pingTimer, alive>>
  /\ timers' = timers - 1
  /\ UNCHANGED <<recording, wanted, calm>>

TimerFires ==
  /\ alive
  /\ timers > 0
  /\ StartServerConnection
  /\ timers' = timers - 1
  /\ UNCHANGED <<recording, wanted, calm>>

\* EVSCapSystem._onPingCheckTimeout: reconnect(), whose timer is not reached if
\* stop() throws.
PingTimeout ==
  /\ alive
  /\ pingTimer
  /\ pingTimer' = FALSE
  /\ Stop
  /\ HearOfLoss
  /\ IF alive' THEN ArmReconnect ELSE UNCHANGED timers
  /\ UNCHANGED <<wanted, calm>>

(***************************************************************************)
(* Events of a socket.                                                     *)
(***************************************************************************)
\* Fault: connected as soon as the handshake request is sent.
SecuredConnected(s) ==
  /\ alive
  /\ sock[s] = "connecting"
  /\ s \notin linked
  /\ linked' = linked \cup {s}
  /\ connected' = (connected \/ s \in attached)
  /\ UNCHANGED <<running, ws, sock, attached, timers, pingTimer, recording, alive, wanted, calm>>

\* 'secureConnect': the handshake request is sent.
Secured(s) ==
  /\ alive
  /\ sock[s] = "connecting"
  /\ s \notin linked
  /\ linked' = linked \cup {s}
  /\ UNCHANGED <<running, connected, ws, sock, attached, timers, pingTimer, recording, alive, wanted, calm>>

\* 'open': _onWsOpen; EVSCapSystem._onConnected starts the ping timeout.
Opens(s) ==
  /\ alive
  /\ sock[s] = "connecting"
  /\ s \in linked
  /\ sock' = [sock EXCEPT ![s] = "open"]
  /\ connected' = (connected \/ s \in attached)
  /\ pingTimer' = (pingTimer \/ s \in attached)
  /\ UNCHANGED <<running, ws, linked, attached, timers, recording, alive, wanted, calm>>

\* The server's first frame came with the answer to the handshake: 'open', then the
\* frame is reported as an error.
OpensWithFrame(s) ==
  /\ alive
  /\ sock[s] = "connecting"
  /\ s \in linked
  /\ IF s \in attached
     THEN Lose([sock EXCEPT ![s] = "open"], linked, running) /\ UNCHANGED alive
     ELSE OnError(s, [sock EXCEPT ![s] = "open"], linked)
  /\ HearOfLoss
  /\ UNCHANGED <<ws, wanted, calm>>

\* 'error': name, connection or TLS failure, a wrong answer, a failed read.
Fails(s) ==
  /\ alive
  /\ Live(s)
  /\ OnError(s, [sock EXCEPT ![s] = "failed"], linked)
  /\ HearOfLoss
  /\ UNCHANGED <<ws, wanted, calm>>

\* 'end' of the stream: onclose(), a first 'close'.
Ends(s) ==
  /\ alive
  /\ sock[s] \in {"connecting", "open", "failed"}
  /\ OnClose(s, [sock EXCEPT ![s] = "ended"], linked \ {s})
  /\ HearOfLoss
  /\ UNCHANGED <<ws, wanted, calm>>

\* 'close' of the stream: onclose() again.
Closes(s) ==
  /\ alive
  /\ sock[s] \in {"failed", "ended"}
  /\ OnClose(s, [sock EXCEPT ![s] = "closed"], linked \ {s})
  /\ HearOfLoss
  /\ UNCHANGED <<ws, wanted, calm>>

\* A system.ping from a socket the client listens to.
Pinged(s) ==
  /\ alive
  /\ sock[s] = "open"
  /\ s \in attached
  /\ pingTimer' = TRUE
  /\ UNCHANGED <<running, connected, ws, sock, linked, attached, timers, recording, alive, wanted, calm>>

-------------------------------------------------------------------------------
Init ==
  /\ running = FALSE
  /\ connected = FALSE
  /\ ws = None
  /\ sock = [s \in Socket |-> "closed"]
  /\ linked = {}
  /\ attached = {}
  /\ timers = 0
  /\ pingTimer = FALSE
  /\ recording = FALSE
  /\ alive = TRUE
  /\ wanted = "stop"
  /\ calm = TRUE

SocketEvent(s) ==
  \/ Secured(s) \/ Opens(s) \/ OpensWithFrame(s)
  \/ Fails(s) \/ Ends(s) \/ Closes(s) \/ Pinged(s)

Next ==
  \/ AppStart
  \/ AppStop
  \/ Request
  \/ Listen
  \/ StopRecord
  \/ WriteVoice
  \/ EndVoice
  \/ TimerFires
  \/ PingTimeout
  \/ \E s \in Socket : SocketEvent(s)

Spec == Init /\ [][Next]_clientVars

\* Timers fire, a socket goes through its states, and a server that is asked again
\* and again does not put its first frame in every answer to a handshake.
FairSpec ==
  /\ Spec
  /\ WF_clientVars(TimerFires)
  /\ \A s \in Socket : WF_clientVars(Secured(s)) /\ WF_clientVars(Closes(s))
  /\ SF_clientVars(\E s \in Socket : Opens(s))

-------------------------------------------------------------------------------
TypeOK ==
  /\ running \in BOOLEAN
  /\ connected \in BOOLEAN
  /\ ws \in Socket \cup {None}
  /\ sock \in [Socket -> SocketState]
  /\ linked \subseteq Socket
  /\ attached \subseteq Socket
  /\ timers \in 0..MaxTimers
  /\ pingTimer \in BOOLEAN
  /\ recording \in BOOLEAN
  /\ alive \in BOOLEAN
  /\ wanted \in {"start", "stop"}
  /\ calm \in BOOLEAN

(***************************************************************************)
(* The client never reports a connection it does not have: while connected *)
(* is true some open socket still has its listeners, so its loss will be   *)
(* heard, however attempts, timers and stops overlap and although          *)
(* _onDisconnected takes the listeners off this.ws and not off the socket  *)
(* the event came from.                                                    *)
(***************************************************************************)
ConnectionBehindFlag ==
  connected => \E s \in attached : sock[s] = "open"

(***************************************************************************)
(* The socket requests and voice are written to (this.ws) is the one that  *)
(* is connected, until a start meets an attempt under way.                 *)
(***************************************************************************)
SendsReachServer == calm /\ connected => ws \in linked /\ sock[ws] = "open"

(***************************************************************************)
(* A connection announced as lost, or given up by stop(), delivers no      *)
(* directive any more: an open socket the client listens to is the         *)
(* connection the client has announced.                                    *)
(***************************************************************************)
NothingAfterLoss == calm => \A s \in attached : sock[s] = "open" => connected

(***************************************************************************)
(* The reconnect timer and the ping timer, losses and refused attempts in  *)
(* any order never make a second connection beside the one in use, nor a   *)
(* second attempt; only a start that the application puts between can.     *)
(***************************************************************************)
OneConnection == calm => \A s, t \in Socket : Live(s) /\ Live(t) => s = t

(***************************************************************************)
(* No socket emits 'error' to nobody (which would end the process): the    *)
(* listeners that _onDisconnected takes off are taken off a socket that is *)
(* through with its errors, and a recording hears of the loss before it    *)
(* writes again.  What ends the process is a recording that begins on a    *)
(* lost connection, or a start that overlaps another.                      *)
(***************************************************************************)
EveryErrorHeard == calm => alive

(***************************************************************************)
(* A client that the application wants connected gets connected, whatever  *)
(* was lost or timed out in between, unless an attempt is refused: what    *)
(* ends without an attempt that failed is made again, although running     *)
(* itself is false while a reconnect is pending.                           *)
(***************************************************************************)
Refused == running /\ ~connected /\ timers = 0 /\ \A s \in Socket : ~Live(s)

Recovers == wanted = "start" ~> connected \/ wanted = "stop" \/ Refused \/ ~calm

(***************************************************************************)
(* A stop is for good once what was under way is over: stop() leaves alone *)
(* a reconnect timer and an attempt, but when neither is there nothing     *)
(* else (a ping that is missed, a late event of a socket) makes the client *)
(* connect until the application starts it again.                          *)
(***************************************************************************)
StoppedForGood ==
  /\ calm
  /\ wanted = "stop"
  /\ ~connected
  /\ timers = 0
  /\ \A s \in Socket : sock[s] # "connecting"

StopLasts == [][StoppedForGood => StoppedForGood' \/ wanted' = "start" \/ ~calm']_clientVars

(***************************************************************************)
(* stop() is to "disconnect from server" (smartSpeakerApp/src/evsClient.js *)
(* line 235): afterwards no connection is left whose directives the client *)
(* would follow.                                                           *)
(***************************************************************************)
StopDisconnects ==
  [][AppStop /\ connected => \A s \in attached' : sock'[s] # "open"]_clientVars

-------------------------------------------------------------------------------
(***************************************************************************)
(* The invariant the calm properties rest on: this.ws is the only socket   *)
(* that is not over, a pending timer means it is over, the ping timer runs *)
(* during a connection only, and so does a recording.                      *)
(***************************************************************************)
OrderlyInv ==
  /\ alive
  /\ pingTimer \/ recording => connected
  /\ connected => ws \in attached /\ ws \in linked /\ sock[ws] = "open" /\ timers = 0
  /\ \A s \in Socket : s # ws => sock[s] = "closed" \/ Abandoned(s)
  /\ \A s \in Socket : sock[s] = "open" => connected
  /\ \A s \in Socket : sock[s] \in {"connecting", "failed"} => s \in attached
  /\ timers <= 1
  /\ timers > 0 => ws # None /\ Abandoned(ws)

CalmInv == calm => OrderlyInv

=============================================================================
