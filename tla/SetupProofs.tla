------------------------------ MODULE SetupProofs ------------------------------
(***************************************************************************)
(* Proofs about Setup, for every value of its constants.                   *)
(***************************************************************************)
EXTENDS Setup, TLAPS

USE SetupAssumption

Pending == authTimer \in authTimers
Busy == \E k \in Work : work[k] > 0

(***************************************************************************)
(* What holds while nothing has happened that the code is not made for: no *)
(* timer but the one that authTimer names; while the phone is waited for   *)
(* the authorization is reset, so that nothing comes of what is still under *)
(* way; once there is a timer, it is not, and has something to do; and but *)
(* for the first of these stages the radio is off.                         *)
(***************************************************************************)
CalmSetup ==
  /\ authTimers \subseteq {authTimer}
  /\ configuring /\ ~Pending => isReset
  /\ configuring /\ Pending => ~isReset /\ Busy
  /\ ~configuring \/ Pending => ble \in {"none", "off"} /\ ~acceptTimer

SetupInv == TypeOK /\ AttemptIsTimed /\ (calm => CalmSetup)

(***************************************************************************)
(* The type invariant in parts, one for each group of variables.           *)
(***************************************************************************)
ModuleOK ==
  /\ configuring \in BOOLEAN /\ authTimer \in 0 .. MaxTimers /\ authTimers \subseteq Timer
  /\ told \in {"none", "config_start", "config_end", "config_end with an error"}

StagesOK ==
  /\ configs \in 0 .. MaxConfigs
  /\ acceptTimer \in BOOLEAN /\ dataTimer \in BOOLEAN /\ wifi \in 0 .. MaxWifi

RadioOK ==
  /\ ble \in {"none", "waiting", "on", "off"} /\ bleReady \in BOOLEAN
  /\ link \in {"none", "coming", "up", "closing"}

AuthorizeOK ==
  /\ isReset \in BOOLEAN /\ refreshToken \in BOOLEAN /\ saved \in BOOLEAN
  /\ expireTimer \in BOOLEAN /\ work \in [Work -> Nat]
  /\ looking \in BOOLEAN /\ ready \in BOOLEAN /\ calm \in BOOLEAN

(***************************************************************************)
(* How many steps are under way is a number.                               *)
(***************************************************************************)
LEMMA RunningIsNat ==
  ASSUME TypeOK
  PROVE  /\ \A k \in Work : work[k] \in Nat
         /\ Looks \in {0, 1}
         /\ Running \in Nat
  <1>1. \A k \in Work : work[k] \in Nat
    BY DEF TypeOK
  <1>2. /\ work["askCode"] \in Nat /\ work["retryCode"] \in Nat /\ work["save"] \in Nat
        /\ work["askToken"] \in Nat /\ work["askBare"] \in Nat /\ work["retryToken"] \in Nat
    BY <1>1 DEF Work
  <1>3. Looks \in {0, 1}
    BY DEF Looks
  <1> QED BY <1>1, <1>2, <1>3 DEF Running

(***************************************************************************)
(* It is the same when neither the steps nor the start-up's look change.   *)
(***************************************************************************)
LEMMA RunningStays ==
  ASSUME UNCHANGED <<work, looking>>
  PROVE  Running' = Running
  BY DEF Running, Looks

(***************************************************************************)
(* One step of authorization that follows another leaves their number, and *)
(* something to do.                                                        *)
(***************************************************************************)
LEMMA MovesKeeps ==
  ASSUME TypeOK, NEW from \in Work, NEW to \in Work, from # to, work[from] > 0,
         Moves(from, to), UNCHANGED looking
  PROVE  work' \in [Work -> Nat] /\ Running' = Running /\ Busy'
  <1>1. \A k \in Work : work[k] \in Nat
    BY DEF TypeOK
  <1>2. work' \in [Work -> Nat]
    <2>1. work[from] - 1 \in Nat /\ work[to] + 1 \in Nat
      BY <1>1
    <2> QED BY <2>1 DEF TypeOK, Moves
  <1>3. \A k \in Work : work'[k] = IF k = from THEN work[k] - 1 ELSE IF k = to THEN work[k] + 1 ELSE work[k]
    BY DEF TypeOK, Moves
  <1>4. Looks' = Looks /\ Looks \in {0, 1}
    BY RunningIsNat DEF Looks
  <1>5. Running' = Running
    BY <1>1, <1>3, <1>4 DEF Running, Work
  <1>6. Busy'
    BY <1>1, <1>3 DEF Busy
  <1> QED BY <1>2, <1>5, <1>6

(***************************************************************************)
(* One that ends is one less.                                              *)
(***************************************************************************)
LEMMA FinishesKeeps ==
  ASSUME TypeOK, NEW k \in Work, work[k] > 0, Finishes(k), UNCHANGED looking
  PROVE  work' \in [Work -> Nat] /\ Running' = Running - 1
  <1>1. \A j \in Work : work[j] \in Nat
    BY DEF TypeOK
  <1>2. work' \in [Work -> Nat]
    <2>1. work[k] - 1 \in Nat
      BY <1>1
    <2> QED BY <2>1 DEF TypeOK, Finishes
  <1>3. \A j \in Work : work'[j] = IF j = k THEN work[j] - 1 ELSE work[j]
    BY DEF TypeOK, Finishes
  <1>4. Looks' = Looks /\ Looks \in {0, 1}
    BY RunningIsNat DEF Looks
  <1>5. Running' = Running - 1
    BY <1>1, <1>3, <1>4 DEF Running, Work
  <1> QED BY <1>2, <1>5

(***************************************************************************)
(* One that begins is one more.                                            *)
(***************************************************************************)
LEMMA AddsKeeps ==
  ASSUME TypeOK, NEW k \in Work, work' = [work EXCEPT ![k] = @ + 1]
  PROVE  work' \in [Work -> Nat] /\ Running' = Running + 1 - Looks + Looks' /\ Busy'
  <1>1. \A j \in Work : work[j] \in Nat
    BY DEF TypeOK
  <1>2. work' \in [Work -> Nat]
    <2>1. work[k] + 1 \in Nat
      BY <1>1
    <2> QED BY <2>1 DEF TypeOK
  <1>3. \A j \in Work : work'[j] = IF j = k THEN work[j] + 1 ELSE work[j]
    BY DEF TypeOK
  <1>4. Looks \in {0, 1} /\ Looks' \in {0, 1}
    BY RunningIsNat DEF Looks
  <1>5. Running' = Running + 1 - Looks + Looks'
    <2>1. /\ work["askCode"] \in Nat /\ work["retryCode"] \in Nat /\ work["save"] \in Nat
          /\ work["askToken"] \in Nat /\ work["askBare"] \in Nat /\ work["retryToken"] \in Nat
      BY <1>1 DEF Work
    <2>2. \/ k = "askCode" \/ k = "retryCode" \/ k = "save"
          \/ k = "askToken" \/ k = "askBare" \/ k = "retryToken"
      BY DEF Work
    <2> QED BY <1>3, <1>4, <2>1, <2>2 DEF Running, Work
  <1>6. Busy'
    BY <1>1, <1>3 DEF Busy
  <1> QED BY <1>2, <1>5, <1>6

(***************************************************************************)
(* Clearing the timer keeps the timers what they are.                      *)
(***************************************************************************)
LEMMA ClearTimerKeeps ==
  ASSUME TypeOK, NEW fired, ClearTimer(fired)
  PROVE  authTimer' \in 0 .. MaxTimers /\ authTimers' \subseteq Timer
  <1>1. authTimer' = 0 /\ authTimers' \subseteq authTimers
    BY DEF ClearTimer
  <1>2. 0 \in 0 .. MaxTimers
    BY SetupAssumption
  <1> QED BY <1>1, <1>2 DEF TypeOK

(***************************************************************************)
(* Numbers that add up to nothing are nothing.                             *)
(***************************************************************************)
LEMMA NothingAddsUp ==
  ASSUME NEW a \in Nat, NEW b \in Nat, NEW c \in Nat, NEW d \in Nat, NEW e \in Nat,
         NEW f \in Nat, NEW l \in Nat, a + b + c + d + e + f + l = 0
  PROVE  a = 0 /\ b = 0 /\ c = 0 /\ d = 0 /\ e = 0 /\ f = 0
  OBVIOUS

(***************************************************************************)
(* When no step is under way there is nothing to do.                       *)
(***************************************************************************)
LEMMA NotBusy ==
  ASSUME TypeOK, Running = 0
  PROVE  ~Busy
  <1> DEFINE a == work["askCode"]   b == work["retryCode"]  c == work["save"]
             d == work["askToken"]  e == work["askBare"]    f == work["retryToken"]
  <1>1. a \in Nat /\ b \in Nat /\ c \in Nat /\ d \in Nat /\ e \in Nat /\ f \in Nat /\ Looks \in Nat
    BY RunningIsNat DEF Work
  <1>2. a + b + c + d + e + f + Looks = 0
    BY DEF Running
  <1>3. \A k \in Work : work[k] \in {a, b, c, d, e, f}
    BY DEF Work
  <1> HIDE DEF a, b, c, d, e, f
  <1>4. a = 0 /\ b = 0 /\ c = 0 /\ d = 0 /\ e = 0 /\ f = 0
    BY <1>1, <1>2, NothingAddsUp
  <1> QED BY <1>3, <1>4 DEF Busy

-------------------------------------------------------------------------------
(* The step of each action.                                                *)

(***************************************************************************)
(* A configuration that begins keeps the invariant.                        *)
(***************************************************************************)
LEMMA ConfigKeeps ==
  ASSUME SetupInv, Config
  PROVE  SetupInv'
  <1> USE DEF SetupInv, TypeOK
  <1>1. ModuleOK'
    <2>1. authTimer' \in 0 .. MaxTimers /\ authTimers' \subseteq Timer
      BY ClearTimerKeeps DEF Config
    <2> QED BY <2>1 DEF ModuleOK, module, Config
  <1>2. StagesOK'
    <2>1. configs \in 0 .. MaxConfigs /\ configs < MaxConfigs /\ configs' = configs + 1
      BY DEF Config
    <2>2. acceptTimer' \in BOOLEAN /\ dataTimer' \in BOOLEAN /\ wifi' \in 0 .. MaxWifi
      BY DEF Config
    <2> HIDE DEF SetupInv, TypeOK
    <2> QED BY <2>1, <2>2, SetupAssumption DEF StagesOK
  <1>3. RadioOK'
    <2>1. ble' = "on" \/ ble' = "waiting"
      BY Zenon DEF Config
    <2> QED BY <2>1 DEF RadioOK, Config
  <1>4. AuthorizeOK'
    BY DEF AuthorizeOK, authorize, startup, Config, ClearTimer, Calmly
  <1>5. Running' <= MaxWork
    BY RunningStays DEF authorize, startup, Config, ClearTimer, Calmly
  <1>6. AttemptIsTimed'
    BY DEF AttemptIsTimed, module, stages, Config, ClearTimer, Calmly
  <1>7. calm' => CalmSetup'
    BY DEF CalmSetup, Pending, Busy, module, stages, radio, authorize, Config, ClearTimer, Calmly
  <1> QED BY <1>1, <1>2, <1>3, <1>4, <1>5, <1>6, <1>7 DEF ModuleOK, StagesOK, RadioOK, AuthorizeOK

(***************************************************************************)
(* So does the power of the radio.                                         *)
(***************************************************************************)
LEMMA PoweredOnKeeps ==
  ASSUME SetupInv, PoweredOn
  PROVE  SetupInv'
  <1> USE DEF SetupInv, TypeOK
  <1>1. ModuleOK'
    BY DEF ModuleOK, module, PoweredOn
  <1>2. StagesOK'
    BY DEF StagesOK, stages, PoweredOn
  <1>3. RadioOK'
    BY DEF RadioOK, radio, PoweredOn
  <1>4. AuthorizeOK'
    BY DEF AuthorizeOK, authorize, startup, PoweredOn
  <1>5. Running' <= MaxWork
    BY RunningStays DEF authorize, startup, PoweredOn
  <1>6. AttemptIsTimed'
    BY DEF AttemptIsTimed, module, stages, PoweredOn
  <1>7. calm' => CalmSetup'
    BY DEF CalmSetup, Pending, Busy, module, stages, radio, authorize, PoweredOn
  <1> QED BY <1>1, <1>2, <1>3, <1>4, <1>5, <1>6, <1>7 DEF ModuleOK, StagesOK, RadioOK, AuthorizeOK

(***************************************************************************)
(* So does a phone that connects.                                          *)
(***************************************************************************)
LEMMA ConnectsKeeps ==
  ASSUME SetupInv, Connects
  PROVE  SetupInv'
  <1> USE DEF SetupInv, TypeOK
  <1>1. ModuleOK'
    BY DEF ModuleOK, module, Connects
  <1>2. StagesOK'
    BY DEF StagesOK, stages, Connects
  <1>3. RadioOK'
    BY DEF RadioOK, radio, Connects
  <1>4. AuthorizeOK'
    BY DEF AuthorizeOK, authorize, startup, Connects
  <1>5. Running' <= MaxWork
    BY RunningStays DEF authorize, startup, Connects
  <1>6. AttemptIsTimed'
    BY DEF AttemptIsTimed, module, stages, Connects
  <1>7. calm' => CalmSetup'
    BY DEF CalmSetup, Pending, Busy, module, stages, radio, authorize, Connects
  <1> QED BY <1>1, <1>2, <1>3, <1>4, <1>5, <1>6, <1>7 DEF ModuleOK, StagesOK, RadioOK, AuthorizeOK

(***************************************************************************)
(* So does its acceptance, which changes one timer for the other.          *)
(***************************************************************************)
LEMMA AcceptKeeps ==
  ASSUME SetupInv, Accept
  PROVE  SetupInv'
  <1> USE DEF SetupInv, TypeOK
  <1>1. ModuleOK'
    BY DEF ModuleOK, module, Accept
  <1>2. StagesOK'
    BY DEF StagesOK, stages, Accept
  <1>3. RadioOK'
    BY DEF RadioOK, radio, Accept
  <1>4. AuthorizeOK'
    BY DEF AuthorizeOK, authorize, startup, Accept
  <1>5. Running' <= MaxWork
    BY RunningStays DEF authorize, startup, Accept
  <1>6. AttemptIsTimed'
    BY DEF AttemptIsTimed, module, stages, Accept
  <1>7. calm' => CalmSetup'
    BY DEF CalmSetup, Pending, Busy, module, stages, radio, authorize, Accept
  <1> QED BY <1>1, <1>2, <1>3, <1>4, <1>5, <1>6, <1>7 DEF ModuleOK, StagesOK, RadioOK, AuthorizeOK

(***************************************************************************)
(* So does the end of the first timer.                                     *)
(***************************************************************************)
LEMMA AcceptTimeoutKeeps ==
  ASSUME SetupInv, AcceptTimeout
  PROVE  SetupInv'
  <1> USE DEF SetupInv, TypeOK
  <1>1. ModuleOK'
    BY DEF ModuleOK, module, AcceptTimeout, NetworkFail, NetworkStop, BleStop
  <1>2. StagesOK'
    BY DEF StagesOK, stages, AcceptTimeout, NetworkFail, NetworkStop, BleStop
  <1>3. RadioOK'
    BY DEF RadioOK, radio, AcceptTimeout, NetworkFail, NetworkStop, BleStop
  <1>4. AuthorizeOK'
    BY DEF AuthorizeOK, authorize, startup, AcceptTimeout, NetworkFail, NetworkStop, BleStop
  <1>5. Running' <= MaxWork
    BY RunningStays DEF authorize, startup, AcceptTimeout, NetworkFail, NetworkStop, BleStop
  <1>6. AttemptIsTimed'
    BY DEF AttemptIsTimed, module, stages, AcceptTimeout, NetworkFail, NetworkStop, BleStop
  <1>7. calm' => CalmSetup'
    BY DEF CalmSetup, Pending, Busy, module, stages, radio, authorize, AcceptTimeout, NetworkFail, NetworkStop, BleStop
  <1> QED BY <1>1, <1>2, <1>3, <1>4, <1>5, <1>6, <1>7 DEF ModuleOK, StagesOK, RadioOK, AuthorizeOK

(***************************************************************************)
(* So does a message.                                                      *)
(***************************************************************************)
LEMMA DataKeeps ==
  ASSUME SetupInv, NEW complete \in BOOLEAN, Data(complete)
  PROVE  SetupInv'
  <1> USE DEF SetupInv, TypeOK
  <1>1. ModuleOK'
    BY DEF ModuleOK, module, Data, NetworkFail, NetworkStop, BleStop
  <1>2. StagesOK'
    <2>1. CASE complete
      <3>1. wifi < MaxWifi /\ wifi' = wifi + 1
        BY <2>1 DEF Data
      <3>2. configs' = configs /\ acceptTimer' = acceptTimer /\ dataTimer' = FALSE
        BY <2>1 DEF Data
      <3>3. wifi \in 0 .. MaxWifi /\ configs \in 0 .. MaxConfigs /\ acceptTimer \in BOOLEAN
        OBVIOUS
      <3> HIDE DEF SetupInv, TypeOK
      <3>4. wifi' \in 0 .. MaxWifi
        BY <3>1, <3>3, SetupAssumption
      <3> QED BY <3>2, <3>3, <3>4 DEF StagesOK
    <2>2. CASE ~complete
      BY <2>2 DEF StagesOK, Data, NetworkFail, NetworkStop
    <2> QED BY <2>1, <2>2
  <1>3. RadioOK'
    BY DEF RadioOK, radio, Data, NetworkFail, NetworkStop, BleStop
  <1>4. AuthorizeOK'
    BY DEF AuthorizeOK, authorize, startup, Data, NetworkFail, NetworkStop, BleStop
  <1>5. Running' <= MaxWork
    BY RunningStays DEF authorize, startup, Data, NetworkFail, NetworkStop, BleStop
  <1>6. AttemptIsTimed'
    <2>1. CASE complete
      <3>1. wifi' = wifi + 1 /\ wifi \in 0 .. MaxWifi
        BY <2>1 DEF Data
      <3> HIDE DEF SetupInv, TypeOK
      <3>2. wifi' > 0
        BY <3>1, SetupAssumption
      <3> QED BY <3>2 DEF AttemptIsTimed
    <2>2. CASE ~complete
      BY <2>2 DEF AttemptIsTimed, Data, NetworkFail, NetworkStop
    <2> QED BY <2>1, <2>2
  <1>7. calm' => CalmSetup'
    BY DEF CalmSetup, Pending, Busy, module, stages, radio, authorize, Data, NetworkFail, NetworkStop, BleStop
  <1> QED BY <1>1, <1>2, <1>3, <1>4, <1>5, <1>6, <1>7 DEF ModuleOK, StagesOK, RadioOK, AuthorizeOK

(***************************************************************************)
(* So does the end of the second timer.                                    *)
(***************************************************************************)
LEMMA DataTimeoutKeeps ==
  ASSUME SetupInv, DataTimeout
  PROVE  SetupInv'
  <1> USE DEF SetupInv, TypeOK
  <1>1. ModuleOK'
    BY DEF ModuleOK, module, DataTimeout, NetworkFail, NetworkStop, BleStop
  <1>2. StagesOK'
    BY DEF StagesOK, stages, DataTimeout, NetworkFail, NetworkStop, BleStop
  <1>3. RadioOK'
    BY DEF RadioOK, radio, DataTimeout, NetworkFail, NetworkStop, BleStop
  <1>4. AuthorizeOK'
    BY DEF AuthorizeOK, authorize, startup, DataTimeout, NetworkFail, NetworkStop, BleStop
  <1>5. Running' <= MaxWork
    BY RunningStays DEF authorize, startup, DataTimeout, NetworkFail, NetworkStop, BleStop
  <1>6. AttemptIsTimed'
    BY DEF AttemptIsTimed, module, stages, DataTimeout, NetworkFail, NetworkStop, BleStop
  <1>7. calm' => CalmSetup'
    BY DEF CalmSetup, Pending, Busy, module, stages, radio, authorize, DataTimeout, NetworkFail, NetworkStop, BleStop
  <1> QED BY <1>1, <1>2, <1>3, <1>4, <1>5, <1>6, <1>7 DEF ModuleOK, StagesOK, RadioOK, AuthorizeOK

(***************************************************************************)
(* So does the loss of the phone.                                          *)
(***************************************************************************)
LEMMA DisconnectsKeeps ==
  ASSUME SetupInv, Disconnects
  PROVE  SetupInv'
  <1> USE DEF SetupInv, TypeOK
  <1>1. ModuleOK'
    BY DEF ModuleOK, module, Disconnects, NetworkFail, NetworkStop, BleStop
  <1>2. StagesOK'
    BY DEF StagesOK, stages, Disconnects, NetworkFail, NetworkStop, BleStop
  <1>3. RadioOK'
    BY DEF RadioOK, radio, Disconnects, NetworkFail, NetworkStop, BleStop
  <1>4. AuthorizeOK'
    BY DEF AuthorizeOK, authorize, startup, Disconnects, NetworkFail, NetworkStop, BleStop
  <1>5. Running' <= MaxWork
    BY RunningStays DEF authorize, startup, Disconnects, NetworkFail, NetworkStop, BleStop
  <1>6. AttemptIsTimed'
    BY DEF AttemptIsTimed, module, stages, Disconnects, NetworkFail, NetworkStop, BleStop
  <1>7. calm' => CalmSetup'
    BY DEF CalmSetup, Pending, Busy, module, stages, radio, authorize, Disconnects, NetworkFail, NetworkStop, BleStop
  <1> QED BY <1>1, <1>2, <1>3, <1>4, <1>5, <1>6, <1>7 DEF ModuleOK, StagesOK, RadioOK, AuthorizeOK

(***************************************************************************)
(* So does the Wi-Fi's answer, which goes on to the authorization.         *)
(***************************************************************************)
LEMMA WifiAnswerKeeps ==
  ASSUME SetupInv, NEW ok \in BOOLEAN, WifiAnswer(ok)
  PROVE  SetupInv'
  <1> USE DEF SetupInv, TypeOK
  <1>0. wifi' \in 0 .. MaxWifi
    <2>1. wifi \in 0 .. MaxWifi /\ wifi > 0 /\ wifi' = wifi - 1
      BY DEF WifiAnswer
    <2> HIDE DEF SetupInv, TypeOK
    <2> QED BY <2>1, SetupAssumption
  <1>1. CASE ~ok
    <2>1. ModuleOK'
      BY <1>0, <1>1 DEF ModuleOK, module, WifiAnswer, Calmly, startup, NetworkFail, NetworkStop, BleStop
    <2>2. StagesOK'
      BY <1>0, <1>1 DEF StagesOK, stages, WifiAnswer, Calmly, startup, NetworkFail, NetworkStop, BleStop
    <2>3. RadioOK'
      BY <1>0, <1>1 DEF RadioOK, radio, WifiAnswer, Calmly, startup, NetworkFail, NetworkStop, BleStop
    <2>4. AuthorizeOK'
      BY <1>0, <1>1 DEF AuthorizeOK, authorize, startup, WifiAnswer, Calmly, startup, NetworkFail, NetworkStop, BleStop
    <2>5. Running' <= MaxWork
      BY <1>0, <1>1, RunningStays DEF authorize, startup, WifiAnswer, Calmly, startup, NetworkFail, NetworkStop, BleStop
    <2>6. AttemptIsTimed'
      BY <1>0, <1>1 DEF AttemptIsTimed, module, stages, WifiAnswer, Calmly, startup, NetworkFail, NetworkStop, BleStop
    <2>7. calm' => CalmSetup'
      BY <1>0, <1>1 DEF CalmSetup, Pending, Busy, module, stages, radio, authorize, WifiAnswer, Calmly, startup, NetworkFail, NetworkStop, BleStop
    <2> QED BY <2>1, <2>2, <2>3, <2>4, <2>5, <2>6, <2>7 DEF ModuleOK, StagesOK, RadioOK, AuthorizeOK
  <1>2. CASE ok /\ ~configuring
    <2>1. ModuleOK'
      BY <1>0, <1>2 DEF ModuleOK, module, WifiAnswer, NetworkSuccess, Calmly, startup
    <2>2. StagesOK'
      BY <1>0, <1>2 DEF StagesOK, stages, WifiAnswer, NetworkSuccess, Calmly, startup
    <2>3. RadioOK'
      BY <1>0, <1>2 DEF RadioOK, radio, WifiAnswer, NetworkSuccess, Calmly, startup
    <2>4. AuthorizeOK'
      BY <1>0, <1>2 DEF AuthorizeOK, authorize, startup, WifiAnswer, NetworkSuccess, Calmly, startup
    <2>5. Running' <= MaxWork
      BY <1>0, <1>2, RunningStays DEF authorize, startup, WifiAnswer, NetworkSuccess, Calmly, startup
    <2>6. AttemptIsTimed'
      BY <1>0, <1>2 DEF AttemptIsTimed, module, stages, WifiAnswer, NetworkSuccess, Calmly, startup
    <2>7. calm' => CalmSetup'
      BY <1>0, <1>2 DEF CalmSetup, Pending, Busy, module, stages, radio, authorize, WifiAnswer, NetworkSuccess, Calmly, startup
    <2> QED BY <2>1, <2>2, <2>3, <2>4, <2>5, <2>6, <2>7 DEF ModuleOK, StagesOK, RadioOK, AuthorizeOK
  <1>3. CASE ok /\ configuring
    <2>a. PICK t \in Timer \ authTimers : authTimers' = authTimers \cup {t} /\ authTimer' = t
      BY <1>3 DEF WifiAnswer, NetworkSuccess, Authorize
    <2>b. /\ NetworkStop(link) /\ Room /\ isReset' = FALSE
          /\ work' = [work EXCEPT !["askCode"] = @ + 1]
          /\ UNCHANGED <<configuring, told, configs, bleReady, refreshToken, saved, expireTimer, looking, ready>>
          /\ calm' => calm /\ Running = 0
          /\ calm' \in BOOLEAN
      BY <1>3 DEF WifiAnswer, NetworkSuccess, Authorize, Calmly, startup
    <2>c. work' \in [Work -> Nat] /\ Running' = Running + 1 - Looks + Looks' /\ Busy'
      BY <2>b, AddsKeeps DEF Work
    <2>d. calm' => authTimers = {}
      BY <1>3, <2>b, NotBusy DEF CalmSetup, Pending
    <2>1. ModuleOK'
      <3>1. \A i \in Timer : i \in 0 .. MaxTimers
        <4> HIDE DEF SetupInv, TypeOK
        <4> QED BY SetupAssumption DEF Timer
      <3>2. authTimers' \subseteq Timer /\ authTimer' \in 0 .. MaxTimers
        BY <2>a, <3>1
      <3> QED BY <2>b, <3>2 DEF ModuleOK
    <2>2. StagesOK'
      BY <1>0, <1>3, <2>a, <2>b, <2>c, <2>d DEF StagesOK, stages, NetworkStop, BleStop
    <2>3. RadioOK'
      BY <1>0, <1>3, <2>a, <2>b, <2>c, <2>d DEF RadioOK, radio, NetworkStop, BleStop
    <2>4. AuthorizeOK'
      BY <1>0, <1>3, <2>a, <2>b, <2>c, <2>d DEF AuthorizeOK, authorize, startup, NetworkStop, BleStop
    <2>5. Running' <= MaxWork
      <3>1. Looks \in {0, 1} /\ Looks' = Looks /\ Running \in Nat
        BY <2>b, RunningIsNat DEF Looks
      <3>2. Running < MaxWork /\ Running' = Running + 1 - Looks + Looks'
        BY <2>b, <2>c DEF Room
      <3> HIDE DEF SetupInv, TypeOK
      <3> QED BY <3>1, <3>2, SetupAssumption
    <2>6. AttemptIsTimed'
      BY <2>a DEF AttemptIsTimed
    <2>7. calm' => CalmSetup'
      <3>1. authTimers' = {authTimer'} \/ ~calm'
        BY <2>a, <2>d
      <3>2. ble' \in {"none", "off"} /\ ~acceptTimer'
        BY <2>b DEF NetworkStop, BleStop
      <3> QED BY <2>b, <2>c, <3>1, <3>2 DEF CalmSetup, Pending
    <2> QED BY <2>1, <2>2, <2>3, <2>4, <2>5, <2>6, <2>7 DEF ModuleOK, StagesOK, RadioOK, AuthorizeOK
  <1> QED BY <1>1, <1>2, <1>3

(***************************************************************************)
(* So does the end of an authorization timer.                              *)
(***************************************************************************)
LEMMA AuthTimeoutKeeps ==
  ASSUME SetupInv, NEW t \in Timer, AuthTimeout(t)
  PROVE  SetupInv'
  <1> USE DEF SetupInv, TypeOK
  <1>1. ModuleOK'
    <2>1. authTimer' \in 0 .. MaxTimers /\ authTimers' \subseteq Timer
      BY ClearTimerKeeps DEF AuthTimeout, OnAuthFail
    <2> QED BY <2>1 DEF ModuleOK, module, AuthTimeout, OnAuthFail
  <1>2. StagesOK'
    BY DEF StagesOK, stages, AuthTimeout, OnAuthFail, ClearTimer
  <1>3. RadioOK'
    BY DEF RadioOK, radio, AuthTimeout, OnAuthFail, ClearTimer
  <1>4. AuthorizeOK'
    BY DEF AuthorizeOK, authorize, startup, AuthTimeout, OnAuthFail, ClearTimer
  <1>5. Running' <= MaxWork
    BY RunningStays DEF authorize, startup, AuthTimeout, OnAuthFail, ClearTimer
  <1>6. AttemptIsTimed'
    BY DEF AttemptIsTimed, module, stages, AuthTimeout, OnAuthFail, ClearTimer
  <1>7. calm' => CalmSetup'
    BY DEF CalmSetup, Pending, Busy, module, stages, radio, authorize, AuthTimeout, OnAuthFail, ClearTimer
  <1> QED BY <1>1, <1>2, <1>3, <1>4, <1>5, <1>6, <1>7 DEF ModuleOK, StagesOK, RadioOK, AuthorizeOK

(***************************************************************************)
(* A step of authorization that ends no attempt keeps the invariant when there*)
(* is still something to do, or nothing will come of it.                   *)
(***************************************************************************)
LEMMA WorkingKeeps ==
  ASSUME SetupInv, Unmoved, UNCHANGED <<configs, stages, radio, calm>>,
         work' \in [Work -> Nat], Running' <= MaxWork, Busy' \/ isReset
  PROVE  SetupInv'
  <1> USE DEF Unmoved, module, stages, radio, startup
  <1>1. TypeOK'
    <2>1. ModuleOK'
      BY DEF SetupInv, TypeOK, ModuleOK
    <2>2. StagesOK'
      BY DEF SetupInv, TypeOK, StagesOK
    <2>3. RadioOK'
      BY DEF SetupInv, TypeOK, RadioOK
    <2>4. AuthorizeOK'
      BY DEF SetupInv, TypeOK, AuthorizeOK
    <2> QED BY <2>1, <2>2, <2>3, <2>4 DEF TypeOK, ModuleOK, StagesOK, RadioOK, AuthorizeOK
  <1>2. AttemptIsTimed'
    BY DEF SetupInv, AttemptIsTimed
  <1>3. calm' => CalmSetup'
    BY DEF SetupInv, CalmSetup, Pending
  <1> QED BY <1>1, <1>2, <1>3 DEF SetupInv

(***************************************************************************)
(* So does one that ends whatever attempt there is.                        *)
(***************************************************************************)
LEMMA EndingKeeps ==
  ASSUME SetupInv, UNCHANGED <<configs, stages, radio>>,
         ModuleOK', ~configuring', authTimers \subseteq {authTimer} => authTimers' \subseteq {authTimer'},
         AuthorizeOK', Running' <= MaxWork, calm' => calm /\ (configuring => Pending)
  PROVE  SetupInv'
  <1> USE DEF stages, radio
  <1>1. TypeOK'
    BY DEF SetupInv, TypeOK, ModuleOK, AuthorizeOK
  <1>2. AttemptIsTimed'
    BY DEF AttemptIsTimed
  <1>3. calm' => CalmSetup'
    BY DEF SetupInv, CalmSetup, Pending
  <1> QED BY <1>1, <1>2, <1>3 DEF SetupInv

(***************************************************************************)
(* A failure of the authorization ends whatever attempt there is.          *)
(***************************************************************************)
LEMMA AuthFailEnds ==
  ASSUME TypeOK, AuthFail
  PROVE  /\ ModuleOK' /\ ~configuring'
         /\ authTimers \subseteq {authTimer} => authTimers' \subseteq {authTimer'}
         /\ isReset' \in BOOLEAN /\ ready' = TRUE
         /\ UNCHANGED <<refreshToken, saved, expireTimer, looking>>
  <1>1. CASE configuring
    <2>1. /\ ClearTimer({}) /\ configuring' = FALSE /\ told' = "config_end with an error"
          /\ isReset' = TRUE
      BY <1>1 DEF AuthFail, OnAuthFail
    <2>2. authTimer' \in 0 .. MaxTimers /\ authTimers' \subseteq Timer
      BY <2>1, ClearTimerKeeps
    <2> QED BY <2>1, <2>2 DEF ModuleOK, AuthFail, ClearTimer
  <1>2. CASE ~configuring
    BY <1>2 DEF TypeOK, ModuleOK, AuthFail, OnAuthFail
  <1> QED BY <1>1, <1>2

(***************************************************************************)
(* So does a token.                                                        *)
(***************************************************************************)
LEMMA TokenEnds ==
  ASSUME TypeOK, OnAccessToken
  PROVE  /\ ModuleOK' /\ ~configuring'
         /\ authTimers \subseteq {authTimer} => authTimers' \subseteq {authTimer'}
         /\ isReset' = isReset /\ ready' = TRUE /\ expireTimer' = TRUE /\ looking' = looking
  <1>1. CASE configuring
    <2>1. ClearTimer({}) /\ configuring' = FALSE /\ told' = "config_end"
      BY <1>1 DEF OnAccessToken
    <2>2. authTimer' \in 0 .. MaxTimers /\ authTimers' \subseteq Timer
      BY <2>1, ClearTimerKeeps
    <2> QED BY <2>1, <2>2 DEF ModuleOK, OnAccessToken, ClearTimer
  <1>2. CASE ~configuring
    BY <1>2 DEF TypeOK, ModuleOK, OnAccessToken
  <1> QED BY <1>1, <1>2

(***************************************************************************)
(* The answer to the query with the code keeps the invariant.              *)
(***************************************************************************)
LEMMA CodeAnswerKeeps ==
  ASSUME SetupInv, NEW answer \in {"lost", "refused", "granted"}, CodeAnswer(answer)
  PROVE  SetupInv'
  <1>1. TypeOK /\ work["askCode"] > 0 /\ UNCHANGED <<configs, stages, radio, calm>>
    BY DEF SetupInv, CodeAnswer
  <1>2. Running <= MaxWork /\ Running \in Nat
    BY <1>1, RunningIsNat DEF TypeOK
  <1>3. CASE isReset
    <2>1. Finishes("askCode") /\ Unmoved /\ looking' = looking
      BY <1>3 DEF CodeAnswer, Unmoved, startup
    <2>2. work' \in [Work -> Nat] /\ Running' = Running - 1
      BY <1>1, <2>1, FinishesKeeps DEF Work
    <2>3. Running' <= MaxWork
      BY <1>2, <2>2, SetupAssumption
    <2> QED BY <1>1, <1>3, <2>1, <2>2, <2>3, WorkingKeeps
  <1>4. CASE ~isReset /\ answer # "refused"
    <2>1. PICK to \in {"retryCode", "save"} : Moves("askCode", to) /\ Unmoved /\ looking' = looking
      BY <1>4 DEF CodeAnswer, Unmoved, startup
    <2>2. work' \in [Work -> Nat] /\ Running' = Running /\ Busy'
      BY <1>1, <2>1, MovesKeeps DEF Work
    <2> QED BY <1>1, <1>2, <2>1, <2>2, WorkingKeeps
  <1>5. CASE ~isReset /\ answer = "refused"
    <2>1. Finishes("askCode") /\ AuthFail
      BY <1>5 DEF CodeAnswer
    <2>2. looking' = looking
      BY <2>1 DEF AuthFail
    <2>3. work' \in [Work -> Nat] /\ Running' = Running - 1
      BY <1>1, <2>1, <2>2, FinishesKeeps DEF Work
    <2>4. Running' <= MaxWork
      BY <1>2, <2>3, SetupAssumption
    <2>5. AuthorizeOK'
      BY <1>1, <2>1, <2>3, AuthFailEnds DEF TypeOK, AuthorizeOK
    <2>6. calm' => calm /\ (configuring => Pending)
      BY <1>1, <1>5 DEF SetupInv, CalmSetup
    <2> QED BY <1>1, <2>1, <2>4, <2>5, <2>6, AuthFailEnds, EndingKeeps
  <1> QED BY <1>3, <1>4, <1>5

(***************************************************************************)
(* So does the retry.                                                      *)
(***************************************************************************)
LEMMA RetryCodeKeeps ==
  ASSUME SetupInv, RetryCode
  PROVE  SetupInv'
  <1>1. /\ TypeOK /\ work["retryCode"] > 0 /\ UNCHANGED <<configs, stages, radio, calm>>
        /\ Moves("retryCode", "askCode") /\ Unmoved /\ looking' = looking
    BY DEF SetupInv, RetryCode, Unmoved, startup
  <1>2. work' \in [Work -> Nat] /\ Running' = Running /\ Busy'
    BY <1>1, MovesKeeps DEF Work
  <1>3. Running' <= MaxWork
    BY <1>1, <1>2 DEF TypeOK
  <1> QED BY <1>1, <1>2, <1>3, WorkingKeeps

(***************************************************************************)
(* So does the database's answer to a save.                                *)
(***************************************************************************)
LEMMA SaveRefreshTokenKeeps ==
  ASSUME SetupInv, NEW ok \in BOOLEAN, SaveRefreshToken(ok)
  PROVE  SetupInv'
  <1>1. /\ TypeOK /\ work["save"] > 0 /\ Finishes("save")
        /\ UNCHANGED <<configs, stages, radio>>
    BY DEF SetupInv, SaveRefreshToken
  <1>2. calm' \in BOOLEAN /\ (calm' => calm /\ (configuring => Pending))
    BY <1>1 DEF SaveRefreshToken, Calmly, Pending, TypeOK
  <1>3. Running <= MaxWork /\ Running \in Nat
    BY <1>1, RunningIsNat DEF TypeOK
  <1>4. looking' = looking
    BY DEF SaveRefreshToken, OnAccessToken, AuthFail
  <1>5. work' \in [Work -> Nat] /\ Running' = Running - 1
    BY <1>1, <1>4, FinishesKeeps DEF Work
  <1>6. Running' <= MaxWork
    BY <1>3, <1>5, SetupAssumption
  <1>7. CASE ok
    <2>1. OnAccessToken /\ saved' = TRUE /\ refreshToken' = FALSE
      BY <1>7 DEF SaveRefreshToken
    <2>2. AuthorizeOK'
      BY <1>1, <1>2, <1>5, <2>1, TokenEnds DEF TypeOK, AuthorizeOK
    <2> QED BY <1>1, <1>2, <1>6, <2>1, <2>2, TokenEnds, EndingKeeps
  <1>8. CASE ~ok
    <2>1. AuthFail
      BY <1>8 DEF SaveRefreshToken
    <2>2. AuthorizeOK'
      BY <1>1, <1>2, <1>5, <2>1, AuthFailEnds DEF TypeOK, AuthorizeOK
    <2> QED BY <1>1, <1>2, <1>6, <2>1, <2>2, AuthFailEnds, EndingKeeps
  <1> QED BY <1>7, <1>8

(***************************************************************************)
(* So does the death of the process, from which everything starts anew.    *)
(***************************************************************************)
LEMMA ProcessDiesKeeps ==
  ASSUME SetupInv, ProcessDies
  PROVE  SetupInv'
  <1>1. work' = [k \in Work |-> 0] /\ looking' = TRUE
    BY DEF ProcessDies
  <1>2. Running' <= MaxWork
    <2>1. \A k \in Work : work'[k] = 0
      BY <1>1
    <2>2. /\ work'["askCode"] = 0 /\ work'["retryCode"] = 0 /\ work'["save"] = 0
          /\ work'["askToken"] = 0 /\ work'["askBare"] = 0 /\ work'["retryToken"] = 0
      BY <2>1 DEF Work
    <2>3. Looks' = 1
      BY <1>1 DEF Looks
    <2>4. Running' = 1
      BY <2>2, <2>3 DEF Running
    <2> QED BY <2>4, SetupAssumption
  <1>3. ModuleOK'
    <2>1. 0 \in 0 .. MaxTimers
      BY SetupAssumption
    <2> QED BY <2>1 DEF ProcessDies, ModuleOK
  <1>4. StagesOK'
    <2>1. 0 \in 0 .. MaxWifi
      BY SetupAssumption
    <2> QED BY <2>1 DEF ProcessDies, StagesOK, SetupInv, TypeOK
  <1>5. RadioOK'
    BY DEF ProcessDies, RadioOK
  <1>6. AuthorizeOK'
    <2>1. work' \in [Work -> Nat]
      BY <1>1
    <2>2. saved' \in BOOLEAN /\ calm' \in BOOLEAN
      BY DEF ProcessDies, SetupInv, TypeOK
    <2>3. /\ isReset' = FALSE /\ refreshToken' = FALSE /\ expireTimer' = FALSE
          /\ looking' = TRUE /\ ready' = FALSE
      BY DEF ProcessDies
    <2> QED BY <2>1, <2>2, <2>3 DEF AuthorizeOK
  <1>7. TypeOK'
    BY <1>2, <1>3, <1>4, <1>5, <1>6 DEF TypeOK, ModuleOK, StagesOK, RadioOK, AuthorizeOK
  <1>8. AttemptIsTimed'
    BY DEF ProcessDies, AttemptIsTimed
  <1>9. CalmSetup'
    BY DEF ProcessDies, CalmSetup, Pending
  <1> QED BY <1>7, <1>8, <1>9 DEF SetupInv

(***************************************************************************)
(* So does the answer to the query with the refresh token.                 *)
(***************************************************************************)
LEMMA TokenAnswerKeeps ==
  ASSUME SetupInv, NEW k \in {"askToken", "askBare"},
         NEW answer \in {"lost", "refused", "granted", "garbled"}, TokenAnswer(k, answer)
  PROVE  SetupInv'
  <1>1. TypeOK /\ work[k] > 0 /\ k \in Work /\ k # "retryToken" /\ "retryToken" \in Work
    BY DEF SetupInv, TokenAnswer, Work
  <1>2. Running <= MaxWork /\ Running \in Nat
    BY <1>1, RunningIsNat DEF TypeOK
  <1>3. CASE isReset
    <2>1. /\ Finishes(k) /\ Unmoved /\ looking' = looking
          /\ UNCHANGED <<configs, stages, radio, calm>>
      BY <1>3 DEF TokenAnswer, Unmoved, startup
    <2>2. work' \in [Work -> Nat] /\ Running' = Running - 1
      BY <1>1, <2>1, FinishesKeeps
    <2>3. Running' <= MaxWork
      BY <1>2, <2>2, SetupAssumption
    <2> QED BY <1>1, <1>3, <2>1, <2>2, <2>3, WorkingKeeps
  <1>4. CASE ~isReset /\ answer = "lost"
    <2>1. /\ Moves(k, "retryToken") /\ Unmoved /\ looking' = looking
          /\ UNCHANGED <<configs, stages, radio, calm>>
      BY <1>4 DEF TokenAnswer, Unmoved, startup
    <2>2. work' \in [Work -> Nat] /\ Running' = Running /\ Busy'
      BY <1>1, <2>1, MovesKeeps
    <2> QED BY <1>1, <1>2, <2>1, <2>2, WorkingKeeps
  <1>5. CASE ~isReset /\ answer \in {"refused", "granted"}
    <2>1. Finishes(k) /\ UNCHANGED <<configs, stages, radio, calm>>
      BY <1>5 DEF TokenAnswer
    <2>2. \/ AuthFail
          \/ OnAccessToken /\ UNCHANGED <<refreshToken, saved>>
      BY <1>5 DEF TokenAnswer
    <2>3. looking' = looking
      BY <2>2 DEF AuthFail, OnAccessToken
    <2>4. work' \in [Work -> Nat] /\ Running' = Running - 1
      BY <1>1, <2>1, <2>3, FinishesKeeps
    <2>5. Running' <= MaxWork
      BY <1>2, <2>4, SetupAssumption
    <2>6. AuthorizeOK'
      BY <1>1, <2>1, <2>2, <2>3, <2>4, AuthFailEnds, TokenEnds DEF TypeOK, AuthorizeOK
    <2>7. calm' => calm /\ (configuring => Pending)
      BY <1>5, <2>1 DEF SetupInv, CalmSetup
    <2> QED BY <1>1, <2>1, <2>2, <2>5, <2>6, <2>7, AuthFailEnds, TokenEnds, EndingKeeps
  <1>6. CASE ~isReset /\ answer = "garbled"
    BY <1>6, ProcessDiesKeeps DEF TokenAnswer
  <1> QED BY <1>3, <1>4, <1>5, <1>6

(***************************************************************************)
(* So does the retry of that query.                                        *)
(***************************************************************************)
LEMMA RetryTokenKeeps ==
  ASSUME SetupInv, RetryToken
  PROVE  SetupInv'
  <1>1. /\ TypeOK /\ work["retryToken"] > 0 /\ UNCHANGED <<configs, stages, radio, calm>>
        /\ Moves("retryToken", Query) /\ Unmoved /\ looking' = looking
    BY DEF SetupInv, RetryToken, Unmoved, startup
  <1>2. Query \in Work /\ Query # "retryToken" /\ "retryToken" \in Work
    BY DEF Query, Work
  <1>3. work' \in [Work -> Nat] /\ Running' = Running /\ Busy'
    BY <1>1, <1>2, MovesKeeps
  <1>4. Running' <= MaxWork
    BY <1>1, <1>3 DEF TypeOK
  <1> QED BY <1>1, <1>3, <1>4, WorkingKeeps

(***************************************************************************)
(* So does a refresh that is due, unless a configuration is under way.     *)
(***************************************************************************)
LEMMA ExpiresKeeps ==
  ASSUME SetupInv, Expires
  PROVE  SetupInv'
  <1>1. /\ TypeOK /\ Room /\ work' = [work EXCEPT ![Query] = @ + 1] /\ Query \in Work
        /\ UNCHANGED <<configuring, authTimer, authTimers, told, configs, acceptTimer, dataTimer, wifi,
                      ble, bleReady, link, refreshToken, saved, looking, ready>>
        /\ expireTimer' = FALSE /\ isReset' = FALSE
    BY DEF SetupInv, Expires, Query, Work, module, stages, radio, startup
  <1>2. calm' \in BOOLEAN /\ (calm' => calm /\ ~configuring)
    BY DEF SetupInv, TypeOK, Expires, Calmly
  <1>3. work' \in [Work -> Nat] /\ Running' = Running + 1 - Looks + Looks'
    BY <1>1, AddsKeeps
  <1>4. Running' <= MaxWork
    <2>1. Looks \in {0, 1} /\ Looks' = Looks /\ Running \in Nat /\ Running < MaxWork
      BY <1>1, RunningIsNat DEF Looks, Room
    <2> QED BY <1>3, <2>1, SetupAssumption
  <1>5. ModuleOK'
    BY <1>1 DEF TypeOK, ModuleOK
  <1>6. StagesOK'
    BY <1>1 DEF TypeOK, StagesOK
  <1>7. RadioOK'
    BY <1>1 DEF TypeOK, RadioOK
  <1>8. AuthorizeOK'
    BY <1>1, <1>2, <1>3 DEF TypeOK, AuthorizeOK
  <1>9. TypeOK'
    BY <1>4, <1>5, <1>6, <1>7, <1>8 DEF TypeOK, ModuleOK, StagesOK, RadioOK, AuthorizeOK
  <1>10. AttemptIsTimed'
    BY <1>1 DEF SetupInv, AttemptIsTimed
  <1>11. calm' => CalmSetup'
    BY <1>1, <1>2 DEF SetupInv, CalmSetup, Pending
  <1> QED BY <1>9, <1>10, <1>11 DEF SetupInv

(***************************************************************************)
(* So does what the start-up finds in the database: a query takes the      *)
(* place of its look, or nothing does.                                     *)
(***************************************************************************)
LEMMA LookedKeeps ==
  ASSUME SetupInv, NEW found \in BOOLEAN, Looked(found)
  PROVE  SetupInv'
  <1>1. /\ TypeOK /\ looking = TRUE /\ looking' = FALSE
        /\ UNCHANGED <<configuring, authTimer, authTimers, told, configs, acceptTimer, dataTimer, wifi,
                      ble, bleReady, link, saved, expireTimer>>
    BY DEF SetupInv, TypeOK, Looked, module, stages, radio
  <1>2. calm' \in BOOLEAN /\ (calm' => calm /\ (found => ~configuring))
    BY DEF SetupInv, TypeOK, Looked, Calmly
  <1>3. Looks = 1 /\ Looks' = 0 /\ Running \in Nat /\ Running <= MaxWork
    BY <1>1, RunningIsNat DEF Looks, TypeOK
  <1>4. /\ isReset' \in BOOLEAN /\ refreshToken' \in BOOLEAN /\ ready' \in BOOLEAN
        /\ ~found => isReset' = isReset /\ work' = work
    BY <1>1 DEF Looked, TypeOK
  <1>5. work' \in [Work -> Nat] /\ Running' <= MaxWork
    <2>1. CASE found
      <3>1. work' = [work EXCEPT !["askToken"] = @ + 1]
        BY <2>1 DEF Looked
      <3>2. work' \in [Work -> Nat] /\ Running' = Running + 1 - Looks + Looks'
        BY <1>1, <3>1, AddsKeeps DEF Work
      <3> QED BY <1>3, <3>2, SetupAssumption
    <2>2. CASE ~found
      <3>1. work' = work
        BY <1>4, <2>2
      <3>2. Running' = Running - 1
        <4>1. /\ work["askCode"] \in Nat /\ work["retryCode"] \in Nat /\ work["save"] \in Nat
              /\ work["askToken"] \in Nat /\ work["askBare"] \in Nat /\ work["retryToken"] \in Nat
          BY <1>1, RunningIsNat DEF Work
        <4> QED BY <1>3, <3>1, <4>1 DEF Running
      <3>3. work' \in [Work -> Nat]
        BY <1>1, <3>1 DEF TypeOK
      <3> QED BY <1>3, <3>2, <3>3, SetupAssumption
    <2> QED BY <2>1, <2>2
  <1>6. ModuleOK'
    BY <1>1 DEF TypeOK, ModuleOK
  <1>7. StagesOK'
    BY <1>1 DEF TypeOK, StagesOK
  <1>8. RadioOK'
    BY <1>1 DEF TypeOK, RadioOK
  <1>9. AuthorizeOK'
    BY <1>1, <1>2, <1>4, <1>5 DEF TypeOK, AuthorizeOK
  <1>10. TypeOK'
    BY <1>5, <1>6, <1>7, <1>8, <1>9 DEF TypeOK, ModuleOK, StagesOK, RadioOK, AuthorizeOK
  <1>11. AttemptIsTimed'
    BY <1>1 DEF SetupInv, AttemptIsTimed
  <1>12. calm' => CalmSetup'
    <2>1. CASE found
      BY <1>1, <1>2, <2>1 DEF SetupInv, CalmSetup, Pending
    <2>2. CASE ~found
      BY <1>1, <1>2, <1>4, <2>2 DEF SetupInv, CalmSetup, Pending, Busy
    <2> QED BY <2>1, <2>2
  <1> QED BY <1>10, <1>11, <1>12 DEF SetupInv

(***************************************************************************)
(* So does the start-up's timer.                                           *)
(***************************************************************************)
LEMMA StartupTimeoutKeeps ==
  ASSUME SetupInv, StartupTimeout
  PROVE  SetupInv'
  <1>1. /\ TypeOK /\ ready' = TRUE
        /\ UNCHANGED <<module, configs, stages, radio, authorize, looking, calm>>
    BY DEF SetupInv, StartupTimeout
  <1>2. UNCHANGED <<configuring, authTimer, authTimers, told, acceptTimer, dataTimer, wifi, ble, bleReady,
                    link, isReset, refreshToken, saved, expireTimer, work>>
    BY <1>1 DEF module, stages, radio, authorize
  <1>3. Running' = Running
    BY <1>1, <1>2, RunningStays
  <1>4. /\ ModuleOK /\ StagesOK /\ RadioOK /\ AuthorizeOK /\ Running <= MaxWork
    BY <1>1 DEF TypeOK, ModuleOK, StagesOK, RadioOK, AuthorizeOK
  <1>5. TypeOK'
    <2>1. ModuleOK' /\ StagesOK'
      BY <1>1, <1>2, <1>4 DEF ModuleOK, StagesOK
    <2>2. RadioOK' /\ AuthorizeOK'
      BY <1>1, <1>2, <1>4 DEF RadioOK, AuthorizeOK
    <2> QED BY <1>3, <1>4, <2>1, <2>2 DEF TypeOK, ModuleOK, StagesOK, RadioOK, AuthorizeOK
  <1>6. AttemptIsTimed'
    BY <1>2 DEF SetupInv, AttemptIsTimed
  <1>7. calm' => CalmSetup'
    BY <1>1, <1>2 DEF SetupInv, CalmSetup, Pending, Busy
  <1> QED BY <1>5, <1>6, <1>7 DEF SetupInv

(***************************************************************************)
(* A step in which nothing happens keeps it.                               *)
(***************************************************************************)
LEMMA NothingKeeps ==
  ASSUME SetupInv, UNCHANGED vars
  PROVE  SetupInv'
  <1>1. UNCHANGED <<configuring, authTimer, authTimers, told, configs, acceptTimer, dataTimer, wifi, ble,
                    bleReady, link, isReset, refreshToken, saved, expireTimer, work, looking, ready, calm>>
    BY DEF vars, module, stages, radio, authorize, startup
  <1>2. Running' = Running
    BY <1>1, RunningStays
  <1>3. TypeOK'
    <2>1. /\ ModuleOK /\ StagesOK /\ RadioOK /\ AuthorizeOK /\ Running <= MaxWork
      BY DEF SetupInv, TypeOK, ModuleOK, StagesOK, RadioOK, AuthorizeOK
    <2>2. ModuleOK' /\ StagesOK'
      BY <1>1, <2>1 DEF ModuleOK, StagesOK
    <2>3. RadioOK' /\ AuthorizeOK'
      BY <1>1, <2>1 DEF RadioOK, AuthorizeOK
    <2> QED BY <1>2, <2>1, <2>2, <2>3 DEF TypeOK, ModuleOK, StagesOK, RadioOK, AuthorizeOK
  <1>4. AttemptIsTimed'
    BY <1>1 DEF SetupInv, AttemptIsTimed
  <1>5. calm' => CalmSetup'
    BY <1>1 DEF SetupInv, CalmSetup, Pending, Busy
  <1> QED BY <1>3, <1>4, <1>5 DEF SetupInv

(***************************************************************************)
(* The invariant holds when the process is started.                        *)
(***************************************************************************)
LEMMA InitGood == Init => SetupInv
  <1> SUFFICES ASSUME Init PROVE SetupInv
    OBVIOUS
  <1>1. Running <= MaxWork
    <2>1. \A k \in Work : work[k] = 0
      BY DEF Init
    <2>2. /\ work["askCode"] = 0 /\ work["retryCode"] = 0 /\ work["save"] = 0
          /\ work["askToken"] = 0 /\ work["askBare"] = 0 /\ work["retryToken"] = 0
      BY <2>1 DEF Work
    <2>3. Looks = 1
      BY DEF Looks, Init
    <2>4. Running = 1
      BY <2>2, <2>3 DEF Running
    <2> QED BY <2>4, SetupAssumption
  <1>2. 0 \in 0 .. MaxTimers /\ 0 \in 0 .. MaxConfigs /\ 0 \in 0 .. MaxWifi
    BY SetupAssumption
  <1>3. work \in [Work -> Nat]
    BY DEF Init
  <1>4. TypeOK
    BY <1>1, <1>2, <1>3 DEF Init, TypeOK
  <1>5. AttemptIsTimed /\ CalmSetup
    BY DEF Init, AttemptIsTimed, CalmSetup, Pending
  <1> QED BY <1>4, <1>5 DEF SetupInv

(***************************************************************************)
(* Every step keeps it.                                                    *)
(***************************************************************************)
LEMMA NextKeeps == SetupInv /\ [Next]_vars => SetupInv'
  <1> SUFFICES ASSUME SetupInv, [Next]_vars PROVE SetupInv'
    OBVIOUS
  <1>1. CASE Config
    BY <1>1, ConfigKeeps
  <1>2. CASE Bluetooth
    BY <1>2, PoweredOnKeeps, ConnectsKeeps, AcceptKeeps, AcceptTimeoutKeeps, DataKeeps, DataTimeoutKeeps,
       DisconnectsKeeps DEF Bluetooth
  <1>3. CASE \E ok \in BOOLEAN : WifiAnswer(ok)
    BY <1>3, WifiAnswerKeeps
  <1>4. CASE \E t \in Timer : AuthTimeout(t)
    BY <1>4, AuthTimeoutKeeps
  <1>5. CASE Authorization
    BY <1>5, CodeAnswerKeeps, RetryCodeKeeps, SaveRefreshTokenKeeps, TokenAnswerKeeps, RetryTokenKeeps,
       ExpiresKeeps DEF Authorization
  <1>6. CASE \E found \in BOOLEAN : Looked(found)
    BY <1>6, LookedKeeps
  <1>7. CASE StartupTimeout
    BY <1>7, StartupTimeoutKeeps
  <1>8. CASE UNCHANGED vars
    BY <1>8, NothingKeeps
  <1> QED BY <1>1, <1>2, <1>3, <1>4, <1>5, <1>6, <1>7, <1>8 DEF Next

(***************************************************************************)
(* The invariant of the set-up, for every bound.                           *)
(***************************************************************************)
THEOREM SetupInvHolds == Spec => []SetupInv
  BY InitGood, NextKeeps, PTL DEF Spec

(***************************************************************************)
(* Every variable has its type, and no more steps of authorization are     *)
(* ever under way than MaxWork.                                            *)
(***************************************************************************)
THEOREM SetupTypeCorrect == Spec => []TypeOK
  <1>1. SetupInv => TypeOK
    BY DEF SetupInv
  <1> QED BY <1>1, SetupInvHolds, PTL

(***************************************************************************)
(* A configuration always has a timer, or an answer of the Wi-Fi, that will *)
(* end it or carry it on (config, the listeners of EVSModuleConfig).       *)
(***************************************************************************)
THEOREM AttemptTimed == Spec => []AttemptIsTimed
  <1>1. SetupInv => AttemptIsTimed
    BY DEF SetupInv
  <1> QED BY <1>1, SetupInvHolds, PTL

(***************************************************************************)
(* When no configuration is under way the radio is off and no phone is     *)
(* waited for, as long as nothing has happened that calm excludes          *)
(* (EVSNetworkMgr.stop, called before or with every end of an attempt).    *)
(***************************************************************************)
THEOREM RadioOff == Spec => []RadioOffAfterwards
  <1>1. SetupInv => RadioOffAfterwards
    BY DEF SetupInv, CalmSetup, RadioOffAfterwards
  <1> QED BY <1>1, SetupInvHolds, PTL

-------------------------------------------------------------------------------
(* Setup implements ConfigAttempts.                                        *)

(***************************************************************************)
(* What a step may do to an attempt, in the variables of Setup: nothing,   *)
(* or begin, receive, join, succeed, fail, die.                            *)
(***************************************************************************)
Stays ==
  /\ told' = told /\ configuring' = configuring
  /\ configuring => Pending' = Pending
  /\ configuring /\ ~Pending => (wifi' > 0 <=> wifi > 0)

Goes ==
  \/ Stays
  \/ told' = "config_start" /\ configuring' /\ ~Pending' /\ wifi' = 0
  \/ told' = told /\ configuring /\ ~Pending /\ wifi = 0 /\ configuring' /\ ~Pending' /\ wifi' > 0
  \/ told' = told /\ configuring /\ ~Pending /\ wifi > 0 /\ configuring' /\ Pending'
  \/ told' = "config_end" /\ configuring /\ Pending /\ ~configuring'
  \/ told' = "config_end with an error" /\ configuring /\ ~configuring'
  \/ told' = "none" /\ ~configuring'

(***************************************************************************)
(* The end of an authorization is the end of the attempt, if there is one. *)
(***************************************************************************)
LEMMA EndGoes ==
  ASSUME configuring \in BOOLEAN, configuring => Pending, AuthFail \/ OnAccessToken
  PROVE  Goes
  BY DEF AuthFail, OnAuthFail, OnAccessToken, Goes, Stays

(***************************************************************************)
(* Another step of the authorization does nothing to it.                   *)
(***************************************************************************)
LEMMA UnmovedGoes ==
  ASSUME UNCHANGED module, UNCHANGED wifi
  PROVE  Goes
  BY DEF module, Goes, Stays, Pending

(***************************************************************************)
(* What comes by Bluetooth may fail the attempt, or hand it to the Wi-Fi.  *)
(***************************************************************************)
LEMMA BluetoothGoes ==
  ASSUME SetupInv, Bluetooth
  PROVE  Goes
  <1>0. configuring \in BOOLEAN /\ wifi \in Nat
    <2>1. configuring \in BOOLEAN /\ wifi \in 0 .. MaxWifi
      BY DEF SetupInv, TypeOK
    <2> QED BY <2>1, SetupAssumption
  <1>1. CASE PoweredOn \/ Connects \/ Accept
    BY <1>1, UnmovedGoes DEF PoweredOn, Connects, Accept, stages
  <1>2. CASE Disconnects \/ AcceptTimeout \/ DataTimeout \/ Data(FALSE)
    BY <1>0, <1>2 DEF Disconnects, AcceptTimeout, DataTimeout, Data, NetworkFail, NetworkStop, Goes, Stays, Pending
  <1>3. CASE Data(TRUE)
    <2>1. /\ wifi' = wifi + 1
          /\ UNCHANGED <<configuring, told, authTimer, authTimers>>
      BY <1>3 DEF Data
    <2>2. wifi' > 0 /\ (wifi = 0 \/ wifi > 0)
      BY <1>0, <2>1
    <2> QED BY <1>0, <2>1, <2>2 DEF Goes, Stays, Pending
  <1> QED BY <1>1, <1>2, <1>3 DEF Bluetooth

(***************************************************************************)
(* The Wi-Fi's answer fails it, or makes it wait for the authorization.    *)
(***************************************************************************)
LEMMA WifiGoes ==
  ASSUME SetupInv, NEW ok \in BOOLEAN, WifiAnswer(ok), calm'
  PROVE  Goes
  <1>0. configuring \in BOOLEAN /\ wifi > 0 /\ calm
    BY DEF SetupInv, TypeOK, WifiAnswer, Calmly
  <1>1. CASE ~configuring \/ ~ok
    BY <1>0, <1>1 DEF WifiAnswer, NetworkSuccess, NetworkFail, NetworkStop, Goes, Stays
  <1>2. CASE configuring /\ ok
    <2>1. Running = 0
      BY <1>2 DEF WifiAnswer, Calmly
    <2>2. ~Busy
      BY <2>1, NotBusy DEF SetupInv
    <2>3. ~Pending
      BY <1>0, <1>2, <2>2 DEF SetupInv, CalmSetup
    <2>4. Pending' /\ told' = told /\ configuring' = configuring
      BY <1>2 DEF WifiAnswer, NetworkSuccess, Authorize, Pending
    <2> QED BY <1>0, <1>2, <2>3, <2>4 DEF Goes
  <1> QED BY <1>1, <1>2

(***************************************************************************)
(* The authorization ends it only when it waits for that.                  *)
(***************************************************************************)
LEMMA AuthorizationGoes ==
  ASSUME SetupInv, Authorization, calm'
  PROVE  Goes
  <1>0. configuring \in BOOLEAN
    BY DEF SetupInv, TypeOK
  <1>1. ASSUME NEW answer \in {"lost", "refused", "granted"}, CodeAnswer(answer)
        PROVE  Goes
    <2>1. calm
      BY <1>1 DEF CodeAnswer
    <2>2. CASE isReset \/ answer # "refused"
      <3>1. UNCHANGED module /\ UNCHANGED wifi
        BY <1>1, <2>2 DEF CodeAnswer, Unmoved, stages
      <3> QED BY <3>1, UnmovedGoes
    <2>3. CASE ~isReset /\ answer = "refused"
      <3>1. AuthFail
        BY <1>1, <2>3 DEF CodeAnswer
      <3> QED BY <1>0, <2>1, <2>3, <3>1, EndGoes DEF SetupInv, CalmSetup
    <2> QED BY <2>2, <2>3
  <1>2. CASE RetryCode \/ RetryToken \/ Expires
    BY <1>2, UnmovedGoes DEF RetryCode, RetryToken, Expires, stages
  <1>3. ASSUME NEW ok \in BOOLEAN, SaveRefreshToken(ok)
        PROVE  Goes
    <2>1. configuring => Pending
      BY <1>3 DEF SaveRefreshToken, Calmly, Pending
    <2>2. AuthFail \/ OnAccessToken
      BY <1>3 DEF SaveRefreshToken
    <2> QED BY <1>0, <2>1, <2>2, EndGoes
  <1>4. ASSUME NEW k \in {"askToken", "askBare"},
               NEW answer \in {"lost", "refused", "granted", "garbled"}, TokenAnswer(k, answer)
        PROVE  Goes
    <2>1. CASE ~isReset /\ answer = "garbled"
      BY <1>4, <2>1 DEF TokenAnswer, ProcessDies, Goes
    <2>2. CASE isReset \/ answer = "lost"
      <3>1. UNCHANGED module /\ UNCHANGED wifi
        BY <1>4, <2>2 DEF TokenAnswer, Unmoved, stages
      <3> QED BY <3>1, UnmovedGoes
    <2>3. CASE ~isReset /\ answer \in {"refused", "granted"}
      <3>1. calm /\ (AuthFail \/ OnAccessToken)
        BY <1>4, <2>3 DEF TokenAnswer
      <3> QED BY <1>0, <2>3, <3>1, EndGoes DEF SetupInv, CalmSetup
    <2> QED BY <2>1, <2>2, <2>3
  <1> QED BY <1>1, <1>2, <1>3, <1>4 DEF Authorization

(***************************************************************************)
(* Every step of Setup that leaves it calm is one of these.                *)
(***************************************************************************)
LEMMA StepGoes ==
  ASSUME SetupInv, Next, calm'
  PROVE  Goes /\ calm
  <1>0. configuring \in BOOLEAN
    BY DEF SetupInv, TypeOK
  <1>1. CASE Config
    <2>1. wifi = 0 /\ calm
      BY <1>1 DEF Config, Calmly
    <2>2. 0 \notin authTimers'
      <3>1. 0 \notin Timer
        BY SetupAssumption DEF Timer
      <3> QED BY <1>1, <3>1 DEF Config, ClearTimer, SetupInv, TypeOK
    <2> QED BY <1>1, <2>1, <2>2 DEF Config, ClearTimer, Goes, Pending
  <1>2. CASE Bluetooth
    BY <1>2, BluetoothGoes DEF Bluetooth, PoweredOn, Connects, Accept, Disconnects, Data, AcceptTimeout, DataTimeout
  <1>3. CASE \E ok \in BOOLEAN : WifiAnswer(ok)
    BY <1>3, WifiGoes DEF WifiAnswer, Calmly
  <1>4. CASE \E t \in Timer : AuthTimeout(t)
    <2>1. PICK t \in Timer : AuthTimeout(t)
      BY <1>4
    <2>2. calm /\ wifi' = wifi
      BY <2>1 DEF AuthTimeout, stages
    <2>3. CASE configuring
      BY <1>0, <2>1, <2>2, <2>3 DEF AuthTimeout, OnAuthFail, Goes
    <2>4. CASE ~configuring
      BY <1>0, <2>1, <2>2, <2>4 DEF AuthTimeout, OnAuthFail, Goes, Stays
    <2> QED BY <2>2, <2>3, <2>4
  <1>5. CASE Authorization
    BY <1>5, AuthorizationGoes
       DEF Authorization, CodeAnswer, RetryCode, SaveRefreshToken, TokenAnswer, ProcessDies, RetryToken, Expires, Calmly
  <1>6. CASE \E found \in BOOLEAN : Looked(found)
    BY <1>6, UnmovedGoes DEF Looked, stages, Calmly
  <1>7. CASE StartupTimeout
    BY <1>7, UnmovedGoes DEF StartupTimeout, stages
  <1> QED BY <1>1, <1>2, <1>3, <1>4, <1>5, <1>6, <1>7 DEF Next

(***************************************************************************)
(* Setup implements ConfigAttempts: to those who listen to EVSModuleConfig *)
(* each configuration is one attempt that is announced once and ended      *)
(* once, without an error only after phone, Wi-Fi and server in this order, *)
(* until something happens that calm excludes.                             *)
(***************************************************************************)
THEOREM SetupImplementsAttempts == Spec => ImplementsAttempts
<1> DEFINE phase == Phase
           heard == IF calm THEN told ELSE "none"
<1>1. Init => Attempts!Init
  BY Zenon DEF Init, Attempts!Init, Phase
<1>2. SetupInv /\ [Next]_vars => [Attempts!Next]_<<phase, heard>>
  <2> SUFFICES ASSUME SetupInv, [Next]_vars PROVE [Attempts!Next]_<<phase, heard>>
    OBVIOUS
  <2>1. CASE UNCHANGED vars
    BY <2>1 DEF vars, module, stages, Phase
  <2>2. CASE Next /\ calm'
    <3>1. calm /\ Goes
      BY <2>2, StepGoes
    <3>2. heard = told /\ heard' = told'
      BY <2>2, <3>1
    <3>a. wifi \in Nat /\ wifi' \in Nat
      <4>1. wifi \in 0 .. MaxWifi
        BY DEF SetupInv, TypeOK
      <4>2. wifi' \in 0 .. MaxWifi
        BY NextKeeps DEF SetupInv, TypeOK
      <4> QED BY <4>1, <4>2, SetupAssumption
    <3>3. /\ ~configuring => phase = "idle"
          /\ configuring /\ Pending => phase = "authorizing"
          /\ configuring /\ ~Pending /\ wifi > 0 => phase = "joining"
          /\ configuring /\ ~Pending /\ ~(wifi > 0) => phase = "network"
      BY <3>1, <3>a DEF Phase, Pending
    <3>4. /\ ~configuring' => phase' = "idle"
          /\ configuring' /\ Pending' => phase' = "authorizing"
          /\ configuring' /\ ~Pending' /\ wifi' > 0 => phase' = "joining"
          /\ configuring' /\ ~Pending' /\ ~(wifi' > 0) => phase' = "network"
      BY <2>2, <3>a DEF Phase, Pending
    <3> HIDE DEF phase, heard
    <3>5. phase # "disturbed"
      BY <3>3
    <3>6. wifi > 0 \/ ~(wifi > 0)
      OBVIOUS
    <3>7. CASE Stays
      BY <3>2, <3>3, <3>4, <3>7 DEF Stays
    <3>8. CASE told' = "config_start" /\ configuring' /\ ~Pending' /\ wifi' = 0
      <4>1. phase' = "network" /\ heard' = "config_start"
        BY <3>2, <3>4, <3>8, <3>a
      <4> QED BY <3>5, <4>1 DEF Attempts!Next, Attempts!Begins, phase, heard
    <3>9. CASE told' = told /\ configuring /\ ~Pending /\ wifi = 0 /\ configuring' /\ ~Pending' /\ wifi' > 0
      <4>1. phase = "network" /\ phase' = "joining" /\ heard' = heard
        BY <3>2, <3>3, <3>4, <3>9, <3>a
      <4> QED BY <4>1 DEF Attempts!Next, Attempts!Receives, phase, heard
    <3>10. CASE told' = told /\ configuring /\ ~Pending /\ wifi > 0 /\ configuring' /\ Pending'
      <4>1. phase = "joining" /\ phase' = "authorizing" /\ heard' = heard
        BY <3>2, <3>3, <3>4, <3>10
      <4> QED BY <4>1 DEF Attempts!Next, Attempts!Joins, phase, heard
    <3>11. CASE told' = "config_end" /\ configuring /\ Pending /\ ~configuring'
      <4>1. phase = "authorizing" /\ phase' = "idle" /\ heard' = "config_end"
        BY <3>2, <3>3, <3>4, <3>11
      <4> QED BY <4>1 DEF Attempts!Next, Attempts!Succeeds, phase, heard
    <3>12. CASE told' = "config_end with an error" /\ configuring /\ ~configuring'
      <4>1. phase # "idle" /\ phase' = "idle" /\ heard' = "config_end with an error"
        BY <3>2, <3>3, <3>4, <3>6, <3>12
      <4> QED BY <3>5, <4>1 DEF Attempts!Next, Attempts!Fails, phase, heard
    <3>13. CASE told' = "none" /\ ~configuring'
      <4>1. phase' = "idle" /\ heard' = "none"
        BY <3>2, <3>4, <3>13
      <4> QED BY <3>5, <4>1 DEF Attempts!Next, Attempts!ProcessDies, phase, heard
    <3> QED BY <3>1, <3>7, <3>8, <3>9, <3>10, <3>11, <3>12, <3>13 DEF Goes
  <2>3. CASE Next /\ ~calm'
    <3>1. phase' = "disturbed" /\ heard' = "none"
      BY <2>3 DEF Phase
    <3> QED BY <3>1 DEF Attempts!Next, Attempts!Disturbed
  <2> QED BY <2>1, <2>2, <2>3
<1> QED BY SetupInvHolds, <1>1, <1>2, PTL DEF Spec, ImplementsAttempts, Attempts!Spec
=============================================================================
