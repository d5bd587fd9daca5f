-------------------------------- MODULE Setup ---------------------------------
(***************************************************************************)
(* From the box to an access token: EVSModuleConfig, the EVSNetworkMgr and *)
(* EVSAuthorizeMgr it drives, and the authorization check of               *)
(* EVSModuleStartup, on one event loop.  An attempt to configure is three  *)
(* stages of other people's answers, each with a timer; what the stages    *)
(* leave behind (a Wi-Fi answer, a query, a retry, a timer) stays alive,   *)
(* and reset() is a flag that those may or may not look at in time.        *)
(*                                                                         *)
(* Left out: what is said to the user, the OTA check that precedes the     *)
(* start-up's, what the Bluetooth client writes (any write may complete a  *)
(* message: the buffer is never emptied), the code and the tokens but for  *)
(* whether there is one, a database that cannot be opened.  The radio has  *)
(* one connection at a time.                                               *)
(***************************************************************************)
EXTENDS Naturals

CONSTANTS
  MaxConfigs,   \* how often the user begins a configuration
  MaxWifi,      \* Wi-Fi attempts under way at once
  MaxWork,      \* steps of authorization under way at once
  MaxTimers     \* 30 s timers that run at once

ASSUME SetupAssumption ==
  /\ MaxConfigs \in Nat /\ MaxWifi \in Nat /\ MaxTimers \in Nat
  /\ MaxWork \in Nat \ {0}

VARIABLES
  configuring,  \* isConfiging
  authTimer,    \* the timer that the variable names; 0: null
  authTimers,   \* the authorization timers that run
  told,         \* history: the last of config_start and config_end
  configs,      \* history: how many configurations there were
  acceptTimer, dataTimer,
  wifi,         \* calls of configWifi in the thread pool
  ble,          \* "none" before the first, "waiting" for the radio's power, "on", "off"
  bleReady,
  link,         \* to the phone; "coming" until its event is handled, "closing" until gone
  isReset,
  refreshToken, \* is there one in memory
  saved,        \* is there one in the database
  expireTimer,
  work,         \* how many of each step of authorization are under way
  looking,      \* the start-up reads the database
  ready,        \* the start-up's promise is resolved
  calm          \* history: nothing has happened that the code is not made for (see Calmly)

module == <<configuring, authTimer, authTimers, told>>
stages == <<acceptTimer, dataTimer, wifi>>
radio == <<ble, bleReady, link>>
authorize == <<isReset, refreshToken, saved, expireTimer, work>>
startup == <<looking, ready>>
vars == <<module, configs, stages, radio, authorize, startup, calm>>

(***************************************************************************)
(* Steps of EVSAuthorizeMgr under way: the query with the code and its     *)
(* retry, the database's answer to a save, the query with the refresh      *)
(* token or without one, and its retry.  The start-up's look into the      *)
(* database is one more.                                                   *)
(***************************************************************************)
Work == {"askCode", "retryCode", "save", "askToken", "askBare", "retryToken"}

Looks == IF looking THEN 1 ELSE 0

Running ==
  work["askCode"] + work["retryCode"] + work["save"]
    + work["askToken"] + work["askBare"] + work["retryToken"]
    + Looks

Room == Running < MaxWork
Timer == 1 .. MaxTimers

Init ==
  /\ configuring = FALSE /\ authTimer = 0 /\ authTimers = {} /\ told = "none"
  /\ configs = 0
  /\ acceptTimer = FALSE /\ dataTimer = FALSE /\ wifi = 0
  /\ ble = "none" /\ bleReady = FALSE /\ link = "none"
  /\ isReset = FALSE /\ refreshToken = FALSE /\ saved \in BOOLEAN
  /\ expireTimer = FALSE /\ work = [k \in Work |-> 0]
  /\ looking = TRUE /\ ready = FALSE
  /\ calm = TRUE

(***************************************************************************)
(* What the properties with calm in them exclude from then on: a           *)
(* configuration that begins while the Wi-Fi has yet to answer an earlier  *)
(* one; an authorization that begins while another is under way; and a     *)
(* token for which no attempt is waiting (of a refresh, of the start-up,   *)
(* or saved after a reset) that may come during a configuration.           *)
(***************************************************************************)
Calmly(undisturbed) == calm' = (calm /\ undisturbed)

-------------------------------------------------------------------------------
(* What the listeners of an event, and the methods they call, do.          *)

\* Fault: the timer is left to run when its variable is cleared.
ClearTimerInNameOnly(fired) ==
  /\ authTimers' = authTimers \ fired
  /\ authTimer' = 0

\* _clearTimer, in a handler that runs because the timers in fired did
ClearTimer(fired) ==
  /\ authTimers' = authTimers \ (fired \cup {authTimer})
  /\ authTimer' = 0

\* EVSBleControl.stop, when the link has become l
BleStop(l) ==
  /\ ble' = IF ble = "none" THEN "none" ELSE "off"
  /\ link' = IF ble = "on" /\ l = "up" THEN "closing" ELSE l

\* EVSNetworkMgr.stop
NetworkStop(l) ==
  /\ acceptTimer' = FALSE
  /\ dataTimer' = FALSE
  /\ BleStop(l)

\* The event 'fail' of EVSNetworkMgr, whose own fields the emitter has made accept, data, l
NetworkFail(accept, data, l) ==
  IF configuring
  THEN /\ NetworkStop(l)
       /\ configuring' = FALSE
       /\ told' = "config_end with an error"
  ELSE /\ acceptTimer' = accept /\ dataTimer' = data /\ link' = l
       /\ UNCHANGED <<ble, configuring, told>>

\* _onAuthFail, for its timer (fired) or for the event
OnAuthFail(fired) ==
  IF configuring
  THEN /\ isReset' = TRUE
       /\ ClearTimer(fired)
       /\ configuring' = FALSE
       /\ told' = "config_end with an error"
  ELSE /\ authTimers' = authTimers \ fired
       /\ UNCHANGED <<isReset, authTimer, configuring, told>>

\* The event 'fail' of EVSAuthorizeMgr; the start-up hears it too.
AuthFail ==
  /\ OnAuthFail({})
  /\ ready' = TRUE
  /\ UNCHANGED <<refreshToken, saved, expireTimer, looking>>

\* Fault: a token is a success of the configuration whether or not there is one.
TokenEndsAlways ==
  /\ expireTimer' = TRUE
  /\ ready' = TRUE
  /\ ClearTimer({})
  /\ configuring' = FALSE
  /\ told' = "config_end"
  /\ UNCHANGED <<isReset, looking>>

\* _onAccessToken, with the event 'access_token'
OnAccessToken ==
  /\ expireTimer' = TRUE
  /\ ready' = TRUE
  /\ IF configuring
     THEN ClearTimer({}) /\ configuring' = FALSE /\ told' = "config_end"
     ELSE UNCHANGED <<authTimer, authTimers, configuring, told>>
  /\ UNCHANGED <<isReset, looking>>

-------------------------------------------------------------------------------
(* The user and the phone.                                                 *)

\* config(), by the button or by a wake-up
Config ==
  /\ configs < MaxConfigs
  /\ configs' = configs + 1
  /\ configuring' = TRUE
  /\ isReset' = TRUE
  /\ acceptTimer' = TRUE
  /\ ble' = IF bleReady \/ ble = "on" THEN "on" ELSE "waiting"
  /\ ClearTimer({})
  /\ told' = "config_start"
  /\ UNCHANGED <<dataTimer, wifi, bleReady, link, refreshToken, saved, expireTimer, work, startup>>
  /\ Calmly(wifi = 0)

\* _onStateChange to 'poweredOn', of a radio that has been asked for
PoweredOn ==
  /\ ble # "none" /\ ~bleReady
  /\ bleReady' = TRUE
  /\ ble' = IF ble = "waiting" THEN "on" ELSE ble
  /\ UNCHANGED <<module, configs, stages, link, authorize, startup, calm>>

\* A phone connects; the event is in the queue of the loop.
Connects ==
  /\ ble = "on" /\ link = "none"
  /\ link' = "coming"
  /\ UNCHANGED <<module, configs, stages, ble, bleReady, authorize, startup, calm>>

\* Fault: the phone that has connected is given all the time it wants.
AcceptUntimed ==
  /\ link = "coming"
  /\ link' = "up"
  /\ acceptTimer' = FALSE
  /\ UNCHANGED <<module, configs, dataTimer, wifi, ble, bleReady, authorize, startup, calm>>

\* _onAccept
Accept ==
  /\ link = "coming"
  /\ link' = "up"
  /\ acceptTimer' = FALSE
  /\ dataTimer' = TRUE
  /\ UNCHANGED <<module, configs, wifi, ble, bleReady, authorize, startup, calm>>

\* _onAcceptTimeout
AcceptTimeout ==
  /\ acceptTimer
  /\ NetworkFail(FALSE, dataTimer, link)
  /\ UNCHANGED <<authTimer, authTimers, configs, wifi, bleReady, authorize, startup, calm>>

\* A write completes a message.
Data(complete) ==
  /\ link \in {"up", "closing"}
  /\ IF complete
     THEN /\ wifi < MaxWifi
          /\ wifi' = wifi + 1
          /\ dataTimer' = FALSE
          /\ link' = "closing"
          /\ UNCHANGED <<acceptTimer, ble, configuring, told>>
     ELSE NetworkFail(acceptTimer, FALSE, "closing") /\ UNCHANGED wifi
  /\ UNCHANGED <<authTimer, authTimers, configs, bleReady, authorize, startup, calm>>

\* _onDataTimeout
DataTimeout ==
  /\ dataTimer
  /\ NetworkFail(acceptTimer, FALSE, IF link = "up" THEN "closing" ELSE link)
  /\ UNCHANGED <<authTimer, authTimers, configs, wifi, bleReady, authorize, startup, calm>>

\* _onDisconnect
Disconnects ==
  /\ link \in {"up", "closing"}
  /\ IF dataTimer
     THEN NetworkFail(acceptTimer, FALSE, "none")
     ELSE link' = "none" /\ UNCHANGED <<acceptTimer, dataTimer, ble, configuring, told>>
  /\ UNCHANGED <<authTimer, authTimers, configs, wifi, bleReady, authorize, startup, calm>>

-------------------------------------------------------------------------------
(* Wi-Fi and authorization.                                                *)

\* authWithCode, and the timer of _onNetworkSuccess
Authorize ==
  /\ Room
  /\ isReset' = FALSE
  /\ work' = [work EXCEPT !["askCode"] = @ + 1]
  /\ \E t \in Timer \ authTimers : authTimers' = authTimers \cup {t} /\ authTimer' = t

\* Fault: the server may take as long as it likes.
NetworkSuccessUntimed ==
  IF configuring
  THEN /\ NetworkStop(link)
       /\ Room
       /\ isReset' = FALSE
       /\ work' = [work EXCEPT !["askCode"] = @ + 1]
       /\ UNCHANGED <<authTimer, authTimers>>
  ELSE UNCHANGED <<acceptTimer, dataTimer, ble, link, isReset, work, authTimer, authTimers>>

\* _onNetworkSuccess
NetworkSuccess ==
  IF configuring
  THEN NetworkStop(link) /\ Authorize
  ELSE UNCHANGED <<acceptTimer, dataTimer, ble, link, isReset, work, authTimer, authTimers>>

\* The answer of configWifi
WifiAnswer(ok) ==
  /\ wifi > 0
  /\ wifi' = wifi - 1
  /\ IF ok
     THEN NetworkSuccess /\ UNCHANGED <<configuring, told>>
     ELSE /\ NetworkFail(acceptTimer, dataTimer, link)
          /\ UNCHANGED <<isReset, work, authTimer, authTimers>>
  /\ UNCHANGED <<configs, bleReady, refreshToken, saved, expireTimer, startup>>
  /\ Calmly(ok /\ configuring => Running = 0)

\* The timer of _onNetworkSuccess
AuthTimeout(t) ==
  /\ t \in authTimers
  /\ OnAuthFail({t})
  /\ UNCHANGED <<configs, stages, radio, refreshToken, saved, expireTimer, work, startup, calm>>

Moves(from, to) == work' = [work EXCEPT ![from] = @ - 1, ![to] = @ + 1]
Finishes(k) == work' = [work EXCEPT ![k] = @ - 1]
Unmoved == UNCHANGED <<module, isReset, refreshToken, saved, expireTimer, startup>>

\* The answer to _queryRefreshToken: none, one that refuses or is garbled, or a token
CodeAnswer(answer) ==
  /\ work["askCode"] > 0
  /\ CASE isReset -> Finishes("askCode") /\ Unmoved
       [] ~isReset /\ answer = "lost"    -> Moves("askCode", "retryCode") /\ Unmoved
       [] ~isReset /\ answer = "refused" -> Finishes("askCode") /\ AuthFail
       [] ~isReset /\ answer = "granted" -> Moves("askCode", "save") /\ Unmoved
  /\ UNCHANGED <<configs, stages, radio, calm>>

\* Fault: the retry repeats.
RetryCodeEverySecond ==
  /\ work["retryCode"] > 0
  /\ work' = [work EXCEPT !["askCode"] = @ + 1]
  /\ UNCHANGED <<module, configs, stages, radio, isReset, refreshToken, saved, expireTimer, startup, calm>>

\* A second after a query with the code was lost
RetryCode ==
  /\ work["retryCode"] > 0
  /\ Moves("retryCode", "askCode")
  /\ UNCHANGED <<module, configs, stages, radio, isReset, refreshToken, saved, expireTimer, startup, calm>>

\* The database has answered.  The token kept is a field that the answer does not have.
SaveRefreshToken(ok) ==
  /\ work["save"] > 0
  /\ Finishes("save")
  /\ IF ok
     THEN saved' = TRUE /\ refreshToken' = FALSE /\ OnAccessToken
     ELSE AuthFail
  /\ UNCHANGED <<configs, stages, radio>>
  /\ Calmly(configuring => authTimer \in authTimers)

\* The query that _queryAccessToken makes with the present token
Query == IF refreshToken THEN "askToken" ELSE "askBare"

\* The process ends at an exception nobody catches, and is started again.
ProcessDies ==
  /\ configuring' = FALSE /\ authTimer' = 0 /\ authTimers' = {} /\ told' = "none"
  /\ acceptTimer' = FALSE /\ dataTimer' = FALSE /\ wifi' = 0
  /\ ble' = "none" /\ bleReady' = FALSE /\ link' = "none"
  /\ isReset' = FALSE /\ refreshToken' = FALSE
  /\ expireTimer' = FALSE /\ work' = [k \in Work |-> 0]
  /\ looking' = TRUE /\ ready' = FALSE
  /\ UNCHANGED saved
  /\ UNCHANGED <<configs, calm>>

\* The answer to _queryAccessToken; one that is garbled is a failure and then an exception.
TokenAnswer(k, answer) ==
  /\ work[k] > 0
  /\ CASE isReset ->
            Finishes(k) /\ Unmoved /\ UNCHANGED <<configs, stages, radio, calm>>
       [] ~isReset /\ answer = "lost" ->
            Moves(k, "retryToken") /\ Unmoved /\ UNCHANGED <<configs, stages, radio, calm>>
       [] ~isReset /\ answer = "refused" ->
            Finishes(k) /\ AuthFail /\ UNCHANGED <<configs, stages, radio, calm>>
       [] ~isReset /\ answer = "granted" ->
            /\ Finishes(k) /\ OnAccessToken
            /\ UNCHANGED <<configs, stages, radio, refreshToken, saved, calm>>
       [] ~isReset /\ answer = "garbled" -> ProcessDies

RetryToken ==
  /\ work["retryToken"] > 0
  /\ Moves("retryToken", Query)
  /\ UNCHANGED <<module, configs, stages, radio, isReset, refreshToken, saved, expireTimer, startup, calm>>

\* An hour before the access token expires
Expires ==
  /\ expireTimer /\ Room
  /\ expireTimer' = FALSE
  /\ isReset' = FALSE
  /\ work' = [work EXCEPT ![Query] = @ + 1]
  /\ UNCHANGED <<module, configs, stages, radio, refreshToken, saved, startup>>
  /\ Calmly(~configuring)

-------------------------------------------------------------------------------
(* The authorization check of the start-up.                                *)

\* getRefreshToken has answered; it says there is no token when the database fails.
Looked(found) ==
  /\ looking
  /\ looking' = FALSE
  /\ found => saved
  /\ IF found
     THEN /\ isReset' = FALSE /\ refreshToken' = TRUE
          /\ work' = [work EXCEPT !["askToken"] = @ + 1]
          /\ UNCHANGED ready
     ELSE ready' = TRUE /\ UNCHANGED <<isReset, refreshToken, work>>
  /\ UNCHANGED <<module, configs, stages, radio, saved, expireTimer>>
  /\ Calmly(found => ~configuring)

\* The start-up's timer, which runs on unseen when the promise is resolved
StartupTimeout ==
  /\ ~looking /\ ~ready
  /\ ready' = TRUE
  /\ UNCHANGED <<module, configs, stages, radio, authorize, looking, calm>>

-------------------------------------------------------------------------------
Bluetooth ==
  \/ PoweredOn \/ Connects \/ Accept \/ Disconnects
  \/ \E complete \in BOOLEAN : Data(complete)
  \/ AcceptTimeout \/ DataTimeout

Authorization ==
  \/ \E answer \in {"lost", "refused", "granted"} : CodeAnswer(answer)
  \/ RetryCode
  \/ \E ok \in BOOLEAN : SaveRefreshToken(ok)
  \/ \E k \in {"askToken", "askBare"}, answer \in {"lost", "refused", "granted", "garbled"} :
       TokenAnswer(k, answer)
  \/ RetryToken \/ Expires

Next ==
  \/ Config
  \/ Bluetooth
  \/ \E ok \in BOOLEAN : WifiAnswer(ok)
  \/ \E t \in Timer : AuthTimeout(t)
  \/ Authorization
  \/ \E found \in BOOLEAN : Looked(found)
  \/ StartupTimeout

Spec == Init /\ [][Next]_vars

\* Timers run out, the thread pool answers; nothing is asked of phone and server.
FairSpec ==
  /\ Spec
  /\ WF_vars(AcceptTimeout) /\ WF_vars(DataTimeout)
  /\ WF_vars(\E ok \in BOOLEAN : WifiAnswer(ok))
  /\ \A t \in Timer : WF_vars(AuthTimeout(t))
  /\ WF_vars(\E found \in BOOLEAN : Looked(found)) /\ WF_vars(StartupTimeout)

-------------------------------------------------------------------------------
TypeOK ==
  /\ configuring \in BOOLEAN /\ authTimer \in 0 .. MaxTimers /\ authTimers \subseteq Timer
  /\ told \in {"none", "config_start", "config_end", "config_end with an error"}
  /\ configs \in 0 .. MaxConfigs
  /\ acceptTimer \in BOOLEAN /\ dataTimer \in BOOLEAN /\ wifi \in 0 .. MaxWifi
  /\ ble \in {"none", "waiting", "on", "off"} /\ bleReady \in BOOLEAN
  /\ link \in {"none", "coming", "up", "closing"}
  /\ isReset \in BOOLEAN /\ refreshToken \in BOOLEAN /\ saved \in BOOLEAN
  /\ expireTimer \in BOOLEAN
  /\ work \in [Work -> Nat] /\ Running <= MaxWork
  /\ looking \in BOOLEAN /\ ready \in BOOLEAN /\ calm \in BOOLEAN

(***************************************************************************)
(* Whatever an earlier attempt has left behind, a configuration always has *)
(* something that will end it or carry it on: one of its timers, or an     *)
(* answer of the Wi-Fi that must come.  It never waits only for the phone  *)
(* or for the server.                                                      *)
(***************************************************************************)
AttemptIsTimed ==
  configuring => acceptTimer \/ dataTimer \/ wifi > 0 \/ authTimer \in authTimers

(***************************************************************************)
(* When no configuration is under way the speaker is not to be seen by     *)
(* phones and waits for none.  A token that comes from elsewhere while the *)
(* phone is waited for would end the attempt and leave the radio on.       *)
(***************************************************************************)
RadioOffAfterwards == calm /\ ~configuring => ble \in {"none", "off"} /\ ~acceptTimer

(***************************************************************************)
(* Every configuration ends, and the start-up gets to its end, whatever    *)
(* the phone and the server do.                                            *)
(***************************************************************************)
SetupEnds ==
  /\ configuring ~> ~configuring
  /\ looking ~> ~looking
  /\ ~looking /\ ~ready ~> ready \/ looking

(***************************************************************************)
(* To its listeners a configuration is what ConfigAttempts says.           *)
(***************************************************************************)
Phase ==
  CASE ~calm -> "disturbed"
    [] calm /\ ~configuring -> "idle"
    [] calm /\ configuring /\ authTimer \in authTimers -> "authorizing"
    [] calm /\ configuring /\ authTimer \notin authTimers /\ wifi > 0 -> "joining"
    [] calm /\ configuring /\ authTimer \notin authTimers /\ wifi = 0 -> "network"

Attempts == INSTANCE ConfigAttempts
  WITH phase <- Phase, told <- IF calm THEN told ELSE "none"

\* Every step is a step of an attempt, as the other modules see it, or none.
ImplementsAttempts == Attempts!Spec
=============================================================================
