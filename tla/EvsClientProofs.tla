--------------------------- MODULE EvsClientProofs ---------------------------
(***************************************************************************)
(* What EvsClient guarantees for every number of sockets, timers, starts   *)
(* and stops: ConnectionBehindFlag whatever happens, and the other         *)
(* properties, as long as it is calm, from CalmInv.                        *)
(***************************************************************************)
EXTENDS EvsClient, TLAPS

(***************************************************************************)
(* Types.                                                                  *)
(***************************************************************************)
ReactionTyped ==
  /\ running' \in BOOLEAN
  /\ connected' \in BOOLEAN
  /\ sock' \in [Socket -> SocketState]
  /\ linked' \subseteq Socket
  /\ attached' \subseteq Socket
  /\ timers' \in 0..MaxTimers
  /\ pingTimer' \in BOOLEAN

LEMMA ArmType ==
  ASSUME TypeOK, ArmReconnect \/ UNCHANGED timers
  PROVE  timers' \in 0..MaxTimers
<1>1. timers \in Nat /\ MaxTimers \in Nat
  BY ClientAssumption DEF TypeOK
<1>2. CASE ArmReconnect
  BY <1>1, <1>2 DEF ArmReconnect
<1>3. CASE UNCHANGED timers
  BY <1>3 DEF TypeOK
<1> QED BY <1>2, <1>3

\* What a handler does, to whatever sockets it is given.
LEMMA ReactionType ==
  ASSUME TypeOK, NEW st \in [Socket -> SocketState], NEW lk \in SUBSET Socket,
         Lose(st, lk, running) \/ OnDisconnected(st, lk) \/ Ignore(st, lk)
  PROVE  ReactionTyped
<1>1. CASE Lose(st, lk, running)
  <2>1. sock' \in [Socket -> SocketState]
    BY <1>1 DEF Lose, AfterClose, SocketState
  <2>2. timers' \in 0..MaxTimers
    BY <1>1, ArmType DEF Lose
  <2> QED BY <1>1, <2>1, <2>2 DEF Lose, TypeOK, ReactionTyped
<1>2. CASE Ignore(st, lk)
  BY <1>2 DEF Ignore, TypeOK, ReactionTyped
<1> QED BY <1>1, <1>2 DEF OnDisconnected

LEMMA ErrorType ==
  ASSUME TypeOK, NEW s, NEW st \in [Socket -> SocketState], NEW lk \in SUBSET Socket,
         OnError(s, st, lk) \/ OnClose(s, st, lk)
  PROVE  ReactionTyped /\ alive' \in BOOLEAN
BY ReactionType DEF OnError, OnClose, TypeOK

LEMMA StartType ==
  ASSUME TypeOK, StartServerConnection
  PROVE  /\ running' \in BOOLEAN
         /\ connected' \in BOOLEAN
         /\ ws' \in Socket \cup {None}
         /\ sock' \in [Socket -> SocketState]
         /\ linked' \subseteq Socket
         /\ attached' \subseteq Socket
         /\ pingTimer' \in BOOLEAN
         /\ alive' \in BOOLEAN
BY DEF StartServerConnection, TypeOK, SocketState

LEMMA TypeStep == ASSUME TypeOK, [Next]_clientVars PROVE TypeOK'
<1>s. sock \in [Socket -> SocketState] /\ linked \in SUBSET Socket
  BY DEF TypeOK
<1>1. CASE AppStart
  BY <1>1, StartType DEF AppStart, TypeOK
<1>2. CASE AppStop
  BY <1>2 DEF AppStop, Stop, HearOfLoss, TypeOK, SocketState
<1>3. CASE Request
  BY <1>3, <1>s, ReactionType DEF Request, HearOfLoss, TypeOK, ReactionTyped
<1>4. CASE WriteVoice \/ EndVoice
  <2>1. ReactionTyped /\ alive' \in BOOLEAN
    BY <1>4, <1>s, ErrorType, ReactionType DEF WriteVoice, EndVoice, SendBare, TypeOK
  <2> QED BY <1>4, <2>1 DEF WriteVoice, EndVoice, TypeOK, ReactionTyped, HearOfLoss
<1>9. CASE Listen \/ StopRecord
  BY <1>9 DEF Listen, StopRecord, TypeOK
<1>5. CASE TimerFires
  <2>1. timers' \in 0..MaxTimers
    BY <1>5, ClientAssumption DEF TimerFires, TypeOK
  <2> QED BY <1>5, <2>1, StartType DEF TimerFires, TypeOK
<1>6. CASE PingTimeout
  <2>1. timers' \in 0..MaxTimers
    BY <1>6, ArmType DEF PingTimeout
  <2> QED BY <1>6, <2>1 DEF PingTimeout, Stop, HearOfLoss, TypeOK, SocketState
<1>7. ASSUME NEW s \in Socket, SocketEvent(s) PROVE TypeOK'
  <2> DEFINE At(state) == [sock EXCEPT ![s] = state]
  <2>s. /\ At("open") \in [Socket -> SocketState]
        /\ At("failed") \in [Socket -> SocketState]
        /\ At("ended") \in [Socket -> SocketState]
        /\ At("closed") \in [Socket -> SocketState]
        /\ linked \ {s} \in SUBSET Socket
    BY <1>s DEF SocketState
  <2> HIDE DEF At
  <2>1. CASE Secured(s)
    BY <2>1 DEF Secured, TypeOK
  <2>2. CASE Opens(s)
    BY <2>2, <2>s DEF Opens, TypeOK, At
  <2>3. CASE OpensWithFrame(s)
    <3>1. ReactionTyped /\ alive' \in BOOLEAN
      <4>1. CASE s \in attached
        BY <2>3, <4>1, <1>s, <2>s, ReactionType DEF OpensWithFrame, At, TypeOK
      <4>2. CASE s \notin attached
        BY <2>3, <4>2, <1>s, <2>s, ErrorType DEF OpensWithFrame, At
      <4> QED BY <4>1, <4>2
    <3> QED BY <2>3, <3>1 DEF OpensWithFrame, HearOfLoss, TypeOK, ReactionTyped
  <2>4. CASE Fails(s)
    <3>1. ReactionTyped /\ alive' \in BOOLEAN
      BY <2>4, <1>s, <2>s, ErrorType DEF Fails, At
    <3> QED BY <2>4, <3>1 DEF Fails, HearOfLoss, TypeOK, ReactionTyped
  <2>5. CASE Ends(s)
    <3>1. ReactionTyped /\ alive' \in BOOLEAN
      BY <2>5, <2>s, ErrorType DEF Ends, At
    <3> QED BY <2>5, <3>1 DEF Ends, HearOfLoss, TypeOK, ReactionTyped
  <2>6. CASE Closes(s)
    <3>1. ReactionTyped /\ alive' \in BOOLEAN
      BY <2>6, <2>s, ErrorType DEF Closes, At
    <3> QED BY <2>6, <3>1 DEF Closes, HearOfLoss, TypeOK, ReactionTyped
  <2>7. CASE Pinged(s)
    BY <2>7 DEF Pinged, TypeOK
  <2> QED BY <1>7, <2>1, <2>2, <2>3, <2>4, <2>5, <2>6, <2>7 DEF SocketEvent
<1>8. CASE UNCHANGED clientVars
  BY <1>8 DEF clientVars, TypeOK
<1> QED BY <1>1, <1>2, <1>3, <1>4, <1>5, <1>6, <1>7, <1>8, <1>9 DEF Next

(***************************************************************************)
(* The fields keep their types; in particular no more than MaxTimers       *)
(* reconnects are pending in the model.                                    *)
(***************************************************************************)
THEOREM TypeCorrect == Spec => []TypeOK
<1>1. Init => TypeOK
  <2>1. 0 \in 0..MaxTimers
    BY ClientAssumption
  <2> QED BY <2>1 DEF Init, TypeOK, SocketState
<1>2. TypeOK /\ [Next]_clientVars => TypeOK'
  BY TypeStep
<1> QED BY <1>1, <1>2, PTL DEF Spec

(***************************************************************************)
(* A handler of a lost socket either leaves the client unconnected or, not *)
(* listened to, changes nothing the flag depends on.                       *)
(***************************************************************************)
LEMMA FlagStep ==
  ASSUME TypeOK, ConnectionBehindFlag, [Next]_clientVars
  PROVE  ConnectionBehindFlag'
<1> USE DEF TypeOK, SocketState, ConnectionBehindFlag
<1>1. CASE AppStart
  BY <1>1 DEF AppStart, StartServerConnection
<1>2. CASE AppStop
  BY <1>2 DEF AppStop, Stop
<1>3. CASE Request
  BY <1>3 DEF Request, OnDisconnected, Lose, Ignore
<1>4. CASE WriteVoice \/ EndVoice \/ Listen \/ StopRecord
  BY <1>4 DEF WriteVoice, EndVoice, Listen, StopRecord, SendBare, OnError, OnDisconnected, Lose, Ignore
<1>5. CASE TimerFires
  BY <1>5 DEF TimerFires, StartServerConnection
<1>6. CASE PingTimeout
  BY <1>6 DEF PingTimeout, Stop
<1>7. ASSUME NEW s \in Socket, SocketEvent(s) PROVE ConnectionBehindFlag'
  <2>1. CASE Secured(s)
    BY <2>1 DEF Secured
  <2>2. CASE Opens(s)
    BY <2>2 DEF Opens
  <2>3. CASE OpensWithFrame(s)
    BY <2>3 DEF OpensWithFrame, OnError, OnDisconnected, Lose, Ignore
  <2>4. CASE Fails(s)
    BY <2>4 DEF Fails, OnError, OnDisconnected, Lose, Ignore, Live
  <2>5. CASE Ends(s)
    BY <2>5 DEF Ends, OnClose, OnDisconnected, Lose, Ignore
  <2>6. CASE Closes(s)
    BY <2>6 DEF Closes, OnClose, OnDisconnected, Lose, Ignore
  <2>7. CASE Pinged(s)
    BY <2>7 DEF Pinged
  <2> QED BY <1>7, <2>1, <2>2, <2>3, <2>4, <2>5, <2>6, <2>7 DEF SocketEvent
<1>8. CASE UNCHANGED clientVars
  BY <1>8 DEF clientVars
<1> QED BY <1>1, <1>2, <1>3, <1>4, <1>5, <1>6, <1>7, <1>8 DEF Next

(***************************************************************************)
(* However the application and the server behave, a client that reports a  *)
(* connection listens to an open socket.                                   *)
(***************************************************************************)
THEOREM FlagIsBacked == Spec => []ConnectionBehindFlag
<1>1. Init => ConnectionBehindFlag
  BY DEF Init, ConnectionBehindFlag
<1>2. TypeOK /\ ConnectionBehindFlag /\ [Next]_clientVars => ConnectionBehindFlag'
  BY FlagStep
<1> QED BY <1>1, <1>2, TypeCorrect, PTL DEF Spec

-------------------------------------------------------------------------------
(***************************************************************************)
(* As long as it is calm.                                                  *)
(***************************************************************************)
\* A start that meets nothing, or a timer's.
LEMMA OrderlyStart ==
  ASSUME TypeOK, OrderlyInv, StartServerConnection, recording' = recording,
         connected \/ Settled \/ timers = 1, ~connected => timers' = 0,
         timers' <= timers, timers' \in Nat
  PROVE  OrderlyInv'
<1>1. \A s \in Socket : connected \/ sock[s] = "closed" \/ Abandoned(s)
  BY DEF OrderlyInv, Settled, TypeOK
<1>2. timers' <= 1 /\ (connected => timers' = 0) /\ timers' = 0
  BY DEF OrderlyInv, TypeOK
<1> QED BY <1>1, <1>2, ClientAssumption DEF TypeOK, OrderlyInv, StartServerConnection, SocketState, Abandoned

\* The one socket that is not over is lost: it is over, and at most one timer waits.
LEMMA OrderlyLoss ==
  ASSUME TypeOK, OrderlyInv, NEW st \in [Socket -> SocketState], NEW lk \in SUBSET Socket,
         connected, Lose(st, lk, running), HearOfLoss, ws' = ws, alive' = alive, ws \in Socket, timers = 0,
         \A t \in Socket \ {ws} : st[t] = sock[t],
         ws \in lk \/ st[ws] \in {"ended", "closed"}
  PROVE  OrderlyInv'
<1>1. timers' \in {0, 1} /\ ws # None
  BY ClientAssumption DEF Lose, ArmReconnect
<1>2. sock'[ws] \in {"ended", "closed"} /\ \A t \in Socket \ {ws} : sock'[t] = sock[t]
  BY DEF Lose, AfterClose
<1>3. /\ connected' = FALSE
      /\ pingTimer' = FALSE
      /\ recording' = FALSE
      /\ attached' = attached \ {ws}
  BY DEF Lose, HearOfLoss
<1>4. \A t \in Socket \ {ws} : sock[t] \in {"closed", "ended"} /\ (sock[t] = "ended" => t \notin attached)
  BY DEF OrderlyInv, Abandoned
<1> QED BY <1>1, <1>2, <1>3, <1>4 DEF OrderlyInv, Abandoned, TypeOK

LEMMA OrderlyStep ==
  ASSUME TypeOK, OrderlyInv, [Next]_clientVars, calm'
  PROVE  OrderlyInv'
<1> USE ClientAssumption DEF TypeOK, SocketState, Abandoned
<1>1. CASE AppStart
  <2>1. connected \/ Settled
    BY <1>1 DEF AppStart
  <2>2. ~connected => timers = 0
    BY <2>1 DEF Settled
  <2> QED BY <1>1, <2>1, <2>2, OrderlyStart DEF AppStart
<1>2. CASE AppStop
  <2>1. ~(ws \notin linked \cup attached /\ connected)
    BY DEF OrderlyInv
  <2>2. alive' = alive /\ timers' = timers /\ ws' = ws /\ linked' = linked /\ (pingTimer' => pingTimer)
    BY <1>2, <2>1 DEF AppStop, Stop
  <2>3. CASE ~connected
    <3>1. UNCHANGED <<connected, sock, attached>> /\ ~pingTimer' /\ ~recording'
      BY <1>2, <2>2, <2>3 DEF AppStop, Stop, OrderlyInv, HearOfLoss
    <3> QED BY <2>2, <3>1, <2>3 DEF OrderlyInv
  <2>4. CASE connected
    <3>1. /\ connected' = FALSE
          /\ attached' = attached \ {ws}
          /\ sock' = [sock EXCEPT ![ws] = "ended"]
      BY <1>2, <2>1, <2>4 DEF AppStop, Stop
    <3>2. ~pingTimer' /\ ~recording'
      BY <1>2, <3>1, <2>4 DEF AppStop, HearOfLoss
    <3> QED BY <2>2, <2>4, <3>1, <3>2 DEF OrderlyInv
  <2> QED BY <2>3, <2>4
<1>3. CASE Request
  BY <1>3 DEF Request, OnDisconnected, Ignore, HearOfLoss, OrderlyInv
<1>4. CASE WriteVoice \/ EndVoice
  <2>1. connected /\ ws \in linked
    BY <1>4 DEF WriteVoice, EndVoice, OrderlyInv
  <2>2. UNCHANGED <<running, connected, ws, sock, linked, attached, timers, pingTimer, alive>>
    BY <1>4, <2>1 DEF WriteVoice, EndVoice, SendBare, Ignore
  <2> QED BY <2>1, <2>2 DEF OrderlyInv
<1>9. CASE Listen
  BY <1>9 DEF Listen, OrderlyInv
<1>10. CASE StopRecord
  BY <1>10 DEF StopRecord, OrderlyInv
<1>5. CASE TimerFires
  <2>1. timers = 1 /\ timers' = 0 /\ ~connected
    BY <1>5 DEF TimerFires, OrderlyInv
  <2> QED BY <1>5, <2>1, OrderlyStart DEF TimerFires
<1>6. CASE PingTimeout
  <2>1. connected /\ ws \in attached /\ ws \in Socket /\ ws # None /\ timers = 0
    BY <1>6 DEF PingTimeout, OrderlyInv
  <2>2. /\ connected' = FALSE
        /\ recording' = FALSE
        /\ attached' = attached \ {ws}
        /\ sock' = [sock EXCEPT ![ws] = "ended"]
        /\ alive' = alive
        /\ pingTimer' = FALSE
        /\ ws' = ws
    BY <1>6, <2>1 DEF PingTimeout, Stop, HearOfLoss
  <2>3. timers' = 1
    BY <1>6, <2>1, <2>2 DEF PingTimeout, ArmReconnect, OrderlyInv
  <2> QED BY <2>1, <2>2, <2>3 DEF OrderlyInv
<1>7. ASSUME NEW s \in Socket, SocketEvent(s) PROVE OrderlyInv'
  <2>1. CASE Secured(s)
    BY <2>1 DEF Secured, OrderlyInv
  <2>2. CASE Opens(s)
    <3>1. s \in attached /\ s = ws /\ timers = 0 /\ s \in linked
      BY <2>2 DEF Opens, OrderlyInv
    <3>2. connected' = TRUE
      BY <2>2, <3>1 DEF Opens
    <3> QED BY <2>2, <3>1, <3>2 DEF Opens, OrderlyInv
  <2>s. sock[s] # "closed" /\ s \in attached => s = ws /\ timers = 0
    BY DEF OrderlyInv
  <2>3. CASE OpensWithFrame(s)
    <3>1. s \in attached /\ s = ws /\ s \in linked /\ ~connected
      BY <2>3, <2>s DEF OpensWithFrame, OrderlyInv
    <3>2. [sock EXCEPT ![s] = "open"] \in [Socket -> SocketState]
      OBVIOUS
    <3>3. timers' \in {0, 1} /\ ws # None
      BY <2>3, <2>s, <3>1 DEF OpensWithFrame, Lose, ArmReconnect
    <3>4. /\ connected' = FALSE /\ pingTimer' = FALSE /\ recording' = FALSE
          /\ attached' = attached \ {ws}
          /\ sock' = [[sock EXCEPT ![s] = "open"] EXCEPT ![ws] = "ended"]
          /\ alive' = alive /\ ws' = ws
      BY <2>3, <3>1 DEF OpensWithFrame, Lose, AfterClose, HearOfLoss, OrderlyInv
    <3> QED BY <3>1, <3>2, <3>3, <3>4 DEF OrderlyInv
  <2>4. CASE Fails(s)
    <3>1. s \in attached /\ s = ws
      BY <2>4, <2>s DEF Fails, Live, OrderlyInv
    <3>2. [sock EXCEPT ![s] = "failed"] \in [Socket -> SocketState]
      OBVIOUS
    <3>3. CASE connected
      <4>1. s \in linked
        BY <3>1, <3>3 DEF OrderlyInv
      <4>2. Lose([sock EXCEPT ![s] = "failed"], linked, running) /\ alive' = alive /\ ws' = ws /\ HearOfLoss
        BY <2>4, <3>1, <3>3 DEF Fails, OnError, OnDisconnected
      <4>3. timers = 0
        BY <3>3 DEF OrderlyInv
      <4> QED BY <3>1, <3>2, <3>3, <4>1, <4>2, <4>3, OrderlyLoss
    <3>4. CASE ~connected
      BY <2>4, <3>1, <3>4 DEF Fails, OnError, OnDisconnected, Ignore, HearOfLoss, OrderlyInv
    <3> QED BY <3>3, <3>4
  <2>5. CASE Ends(s)
    <3>1. s \in attached /\ s = ws
      BY <2>5, <2>s DEF Ends, OrderlyInv
    <3>2. [sock EXCEPT ![s] = "ended"] \in [Socket -> SocketState]
      OBVIOUS
    <3>3. CASE connected
      <4>1. Lose([sock EXCEPT ![s] = "ended"], linked \ {s}, running) /\ alive' = alive /\ ws' = ws /\ HearOfLoss
        BY <2>5, <3>1, <3>3 DEF Ends, OnClose, OnDisconnected
      <4>2. timers = 0 /\ linked \ {s} \in SUBSET Socket
        BY <3>3 DEF OrderlyInv
      <4>3. [sock EXCEPT ![s] = "ended"][ws] = "ended"
        BY <3>1
      <4> QED BY <3>1, <3>2, <3>3, <4>1, <4>2, <4>3, OrderlyLoss
    <3>4. CASE ~connected
      BY <2>5, <3>1, <3>4 DEF Ends, OnClose, OnDisconnected, Ignore, HearOfLoss, OrderlyInv
    <3> QED BY <3>3, <3>4
  <2>6. CASE Closes(s)
    <3>1. ~(s \in attached /\ connected)
      BY <2>6, <2>s DEF Closes, OrderlyInv
    <3>2. Ignore([sock EXCEPT ![s] = "closed"], linked \ {s}) /\ alive' = alive /\ ws' = ws /\ recording' = recording
      BY <2>6, <3>1 DEF Closes, OnClose, OnDisconnected, Ignore, HearOfLoss
    <3>3. ~(s = ws /\ connected)
      BY <2>6 DEF Closes, OrderlyInv
    <3> QED BY <3>2, <3>3 DEF Ignore, OrderlyInv
  <2>7. CASE Pinged(s)
    BY <2>7 DEF Pinged, OrderlyInv
  <2> QED BY <1>7, <2>1, <2>2, <2>3, <2>4, <2>5, <2>6, <2>7 DEF SocketEvent
<1>8. CASE UNCHANGED clientVars
  BY <1>8 DEF clientVars, OrderlyInv
<1> QED BY <1>1, <1>2, <1>3, <1>4, <1>5, <1>6, <1>7, <1>8, <1>9, <1>10 DEF Next

\* calm never comes back.
LEMMA CalmStays ==
  ASSUME [Next]_clientVars, TypeOK, calm' PROVE calm
<1>1. CASE AppStart
  BY <1>1 DEF AppStart, TypeOK
<1>2. CASE Listen
  BY <1>2 DEF Listen, TypeOK
<1>3. CASE AppStop \/ Request \/ StopRecord \/ WriteVoice \/ EndVoice \/ TimerFires \/ PingTimeout
  BY <1>3 DEF AppStop, Request, StopRecord, WriteVoice, EndVoice, TimerFires, PingTimeout
<1>4. CASE \E s \in Socket : SocketEvent(s)
  BY <1>4 DEF SocketEvent, Secured, Opens, OpensWithFrame, Fails, Ends, Closes, Pinged
<1>5. CASE UNCHANGED clientVars
  BY <1>5 DEF clientVars
<1> QED BY <1>1, <1>2, <1>3, <1>4, <1>5 DEF Next

(***************************************************************************)
(* As long as it is calm the only socket that is not over is this.ws, a    *)
(* pending timer means that it is over too, and pings and recordings are   *)
(* of a connection.                                                        *)
(***************************************************************************)
THEOREM CalmHolds == Spec => []CalmInv
<1>1. Init => CalmInv
  BY DEF Init, OrderlyInv, CalmInv
<1>2. TypeOK /\ CalmInv /\ [Next]_clientVars => CalmInv'
  BY OrderlyStep, CalmStays DEF CalmInv
<1> QED BY <1>1, <1>2, TypeCorrect, PTL DEF Spec

\* What the invariant says of every socket that is not over
LEMMA OnlyWsLives ==
  ASSUME TypeOK, OrderlyInv, NEW s \in Socket, Live(s) PROVE s = ws
BY DEF OrderlyInv, Abandoned, Live

(***************************************************************************)
(* While the client is connected, and it is calm, nothing is written to a  *)
(* socket other than the open one.                                         *)
(***************************************************************************)
THEOREM SendsAreRight == Spec => []SendsReachServer
<1>1. TypeOK /\ CalmInv => SendsReachServer
  BY DEF CalmInv, OrderlyInv, TypeOK, SendsReachServer
<1> QED BY <1>1, CalmHolds, TypeCorrect, PTL

(***************************************************************************)
(* As long as it is calm a connection that is lost, or that stop() has     *)
(* closed, delivers nothing any more.                                      *)
(***************************************************************************)
THEOREM LossesAreFinal == Spec => []NothingAfterLoss
<1>1. TypeOK /\ CalmInv => NothingAfterLoss
  BY DEF CalmInv, OrderlyInv, TypeOK, NothingAfterLoss
<1> QED BY <1>1, CalmHolds, TypeCorrect, PTL

(***************************************************************************)
(* Reconnect timers, pings and refused attempts alone never make a         *)
(* connection beside another.                                              *)
(***************************************************************************)
THEOREM ConnectionsAreSingle == Spec => []OneConnection
<1>1. TypeOK /\ CalmInv => OneConnection
  BY OnlyWsLives DEF CalmInv, OneConnection
<1> QED BY <1>1, CalmHolds, TypeCorrect, PTL

(***************************************************************************)
(* As long as it is calm no socket emits 'error' to nobody, whatever is    *)
(* written to it, recordings that are under way at a loss included.        *)
(***************************************************************************)
THEOREM ErrorsAreHeard == Spec => []EveryErrorHeard
<1>1. TypeOK /\ CalmInv => EveryErrorHeard
  BY DEF CalmInv, OrderlyInv, EveryErrorHeard
<1> QED BY <1>1, CalmHolds, TypeCorrect, PTL

(***************************************************************************)
(* As long as it is calm a stop() during which nothing is under way is for *)
(* good: no ping timer and no late event arms a reconnect.                 *)
(***************************************************************************)
THEOREM StopsAreForGood == Spec => StopLasts
<1> DEFINE Lasts == StoppedForGood => StoppedForGood' \/ wanted' = "start" \/ ~calm'
<1>1. ASSUME TypeOK, CalmInv, [Next]_clientVars PROVE [Lasts]_clientVars
  <2> SUFFICES ASSUME Next, StoppedForGood, calm' PROVE StoppedForGood' \/ wanted' = "start"
    BY <1>1
  <2>1. /\ wanted = "stop" /\ ~connected /\ timers = 0 /\ ~pingTimer /\ ~recording
        /\ \A s \in Socket : sock[s] \in {"failed", "ended", "closed"}
    BY <1>1 DEF StoppedForGood, CalmInv, OrderlyInv, TypeOK, SocketState
  <2>2. CASE AppStart
    BY <2>2 DEF AppStart
  <2>3. CASE AppStop
    BY <2>1, <2>3 DEF AppStop, Stop, StoppedForGood
  <2>4. CASE Request
    BY <2>1, <2>4 DEF Request, OnDisconnected, Ignore, StoppedForGood
  <2>5. CASE Listen
    BY <2>1, <2>5 DEF Listen
  <2>6. ~StopRecord /\ ~WriteVoice /\ ~PingTimeout
    BY <2>1 DEF StopRecord, WriteVoice, PingTimeout
  <2>9. ~TimerFires
    <3> USE DEF TimerFires
    <3> HIDE DEF StartServerConnection
    <3> QED BY <2>1
  <2>7. CASE EndVoice
    BY <1>1, <2>1, <2>7 DEF EndVoice, TypeOK
  <2>8. ASSUME NEW s \in Socket, SocketEvent(s) PROVE StoppedForGood'
    <3>1. Ends(s) \/ Closes(s)
      BY <2>1, <2>8 DEF SocketEvent, Secured, Opens, OpensWithFrame, Fails, Pinged, Live
    <3>2. CASE Ends(s)
      <4>1. Ignore([sock EXCEPT ![s] = "ended"], linked \ {s}) /\ wanted' = wanted
        BY <2>1, <3>2 DEF Ends, OnClose, OnDisconnected
      <4> QED BY <1>1, <2>1, <4>1 DEF Ignore, StoppedForGood, TypeOK
    <3>3. CASE Closes(s)
      <4>1. Ignore([sock EXCEPT ![s] = "closed"], linked \ {s}) /\ wanted' = wanted
        BY <2>1, <3>3 DEF Closes, OnClose, OnDisconnected
      <4> QED BY <1>1, <2>1, <4>1 DEF Ignore, StoppedForGood, TypeOK
    <3> QED BY <3>1, <3>2, <3>3
  <2> QED BY <2>2, <2>3, <2>4, <2>5, <2>6, <2>7, <2>8, <2>9 DEF Next
<1> QED BY <1>1, CalmHolds, TypeCorrect, PTL DEF Spec, StopLasts

=============================================================================
