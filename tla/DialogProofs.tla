----------------------------- MODULE DialogProofs -----------------------------
(***************************************************************************)
(* Proofs about Dialog, for every number of dialogs and of timers: the     *)
(* type invariant, the safety properties, and that Dialog implements       *)
(* DialogPhases.                                                           *)
(*                                                                         *)
(* What the properties say with calm rests on one fact about what waits    *)
(* for a context: there is at most one, it is of the present dialog, of    *)
(* which the server has not heard, so that no answer can interfere until   *)
(* it is there; and the server hears no voice but that of a recording.     *)
(***************************************************************************)
EXTENDS Dialog, TLAPS

\* What waits for a context is the present dialog.
Waiting(a) ==
  /\ a.id # 0 /\ a.id \notin a.asked /\ a.expect # a.id
  /\ \A v, w \in a.waits : v = w
  /\ \A w \in a.waits : /\ w.op = "listen" => a.state = "idle" /\ a.audio = a.id
                        /\ w.op = "text" => w.id = a.id

Timed(a) == a.timers \subseteq (IF a.state = "thinking" THEN {a.timer} ELSE {})
Numbered(a) == a.asked \subseteq 1..a.id /\ a.expect <= a.id
Heard(a) == a.puller => a.online /\ a.stream = a.id /\ a.current = a.id
Silent(a) == a.stream # 0 => a.state = "record" /\ a.stream = a.id
Kept(a) == a.kept \/ a.expect # 0 => a.front = "TTS"

\* Settled: also in the middle of a callback, when what is said of the server's
\* voice and of the speech may not hold.
Settled(a) ==
  /\ a.aip # "BACKGROUND"
  /\ Timed(a) /\ Numbered(a) /\ Heard(a)
  /\ a.waits # {} => Waiting(a)

CalmApp(a) == Settled(a) /\ Silent(a) /\ Kept(a)

\* Of every state, calm or not
Voiced(a) == a.puller => a.state = "record" /\ a.held
Sound(a) ==
  /\ a \in AppRecord
  /\ Voiced(a)
  /\ a.state = "thinking" => a.timer \in a.timers

DialogInv == Sound(app) /\ calm \in BOOLEAN /\ (calm => CalmApp(app))

\* A step of the dialogs of DialogPhases
Goes(a, b) ==
  \/ b.id = a.id /\ PhaseOf(b) = PhaseOf(a)
  \/ b.id = a.id + 1 /\ PhaseOf(b) \in {"starting", "thinking"}
  \/ b.id = a.id /\ PhaseOf(a) = "starting" /\ PhaseOf(b) = "listening"
  \/ b.id = a.id /\ PhaseOf(a) = "listening" /\ PhaseOf(b) = "deaf"
  \/ b.id = a.id /\ PhaseOf(a) \in {"listening", "deaf"} /\ PhaseOf(b) = "thinking"
  \/ b.id = a.id /\ PhaseOf(a) \in {"listening", "deaf", "thinking"} /\ PhaseOf(b) = "ended"

-------------------------------------------------------------------------------
(***************************************************************************)
(* The pieces of the callbacks: what each leaves of the record.            *)
(***************************************************************************)
\* What b and a have in common when only the microphone is concerned
SameDialog(a, b) ==
  /\ b.id = a.id /\ b.audio = a.audio /\ b.waits = a.waits
  /\ b.dialog = a.dialog /\ b.kept = a.kept /\ b.expect = a.expect
  /\ b.online = a.online /\ b.current = a.current /\ b.front = a.front
  /\ b.stream = a.stream /\ b.asked = a.asked

SameTimers(a, b) == b.timer = a.timer /\ b.timers = a.timers

\* Zero is an id, though of no request.
LEMMA ZeroIsId == 0 \in Id
BY RecognizerAssumption DEF Id

\* There is a timer to start.
LEMMA FreeTimerIsFree ==
  ASSUME NEW a \in AppRecord, a.timers # Timer
  PROVE  FreeTimer(a) \in Timer \ a.timers
BY DEF FreeTimer, AppRecord

\* The puller is switched off.
LEMMA PullerOff ==
  ASSUME NEW a \in AppRecord
  PROVE  LET b == [a EXCEPT !.puller = FALSE]
         IN  /\ b \in AppRecord /\ SameDialog(a, b) /\ SameTimers(a, b)
             /\ ~b.puller /\ b.state = a.state /\ b.aip = a.aip /\ b.held = a.held
BY DEF AppRecord, SameDialog, SameTimers

\* A stopped puller, at the end of a recording
LEMMA StopPullerStops ==
  ASSUME NEW a \in AppRecord
  PROVE  LET b == StopPuller(a)
         IN  /\ b \in AppRecord /\ SameDialog(a, b) /\ SameTimers(a, b)
             /\ b.puller => a.puller /\ a.state # "record"
             /\ b.state = a.state /\ b.aip = a.aip /\ b.held = a.held
<1>1. CASE a.state = "record"
  BY <1>1, PullerOff DEF StopPuller
<1>2. CASE a.state # "record"
  BY <1>2 DEF StopPuller, SameDialog, SameTimers
<1> QED BY <1>1, <1>2

\* releaseChannel
LEMMA ReleaseReleases ==
  ASSUME NEW a \in AppRecord
  PROVE  LET b == ReleaseAip(a)
         IN  /\ b \in AppRecord /\ SameDialog(a, b) /\ SameTimers(a, b)
             /\ b.puller => a.puller /\ (a.state # "record" \/ (a.aip = "NONE" /\ b.held = a.held))
             /\ b.state = a.state /\ b.aip = "NONE"
<1>1. CASE a.aip = "NONE"
  BY <1>1 DEF ReleaseAip, SameDialog, SameTimers
<1>2. CASE a.aip # "NONE"
  <2> DEFINE b == [a EXCEPT !.aip = "NONE", !.held = FALSE]
  <2>1. b \in AppRecord /\ SameDialog(a, b) /\ SameTimers(a, b)
    BY DEF AppRecord, SameDialog, SameTimers
  <2>2. b.state = a.state /\ b.puller = a.puller /\ b.aip = "NONE"
    BY DEF AppRecord
  <2>3. ReleaseAip(a) = StopPuller(b)
    BY <1>2 DEF ReleaseAip
  <2> HIDE DEF b
  <2> QED BY <2>1, <2>2, <2>3, StopPullerStops DEF SameDialog, SameTimers
<1> QED BY <1>1, <1>2

\* _stopRecord
LEMMA StopRecordStops ==
  ASSUME NEW a \in AppRecord
  PROVE  LET b == StopRecord(a)
         IN  /\ b \in AppRecord /\ SameDialog(a, b) /\ SameTimers(a, b)
             /\ b.puller => a.puller /\ a.state # "record"
             /\ b.state = a.state /\ b.aip \in {a.aip, "NONE"}
<1> DEFINE b == StopPuller(a)
<1>1. /\ b \in AppRecord /\ SameDialog(a, b) /\ SameTimers(a, b)
      /\ b.puller => a.puller /\ a.state # "record"
      /\ b.state = a.state /\ b.aip = a.aip /\ b.held = a.held
  BY StopPullerStops
<1>2. StopRecord(a) = IF a.held THEN ReleaseAip(b) ELSE b
  BY DEF StopRecord
<1> HIDE DEF b
<1>3. CASE a.held
  BY <1>1, <1>2, <1>3, ReleaseReleases DEF SameDialog, SameTimers
<1>4. CASE ~a.held
  BY <1>1, <1>2, <1>4
<1> QED BY <1>3, <1>4

\* _terminalDialog
LEMMA TerminateEnds ==
  ASSUME NEW a \in AppRecord
  PROVE  LET b == Terminate(a)
         IN  /\ b \in AppRecord /\ SameDialog(a, b)
             /\ b.timers = IF a.state = "thinking" THEN a.timers \ {a.timer} ELSE a.timers
             /\ b.puller => a.puller /\ a.state # "record"
             /\ b.state = "idle" /\ b.aip \in {a.aip, "NONE"}
<1>1. CASE a.state = "idle"
  BY <1>1 DEF Terminate, SameDialog
<1>2. CASE a.state # "idle"
  <2> DEFINE p == StopRecord(a)
             c == IF p.state = "thinking" THEN ClearTimer(p) ELSE p
  <2>1. /\ p \in AppRecord /\ SameDialog(a, p) /\ SameTimers(a, p)
        /\ p.puller => a.puller /\ a.state # "record"
        /\ p.state = a.state /\ p.aip \in {a.aip, "NONE"}
    BY StopRecordStops
  <2>2. Terminate(a) = [c EXCEPT !.state = "idle"]
    BY <1>2 DEF Terminate
  <2> HIDE DEF p
  <2>3. /\ c \in AppRecord /\ SameDialog(p, c) /\ c.puller = p.puller /\ c.aip = p.aip
        /\ c.timers = IF p.state = "thinking" THEN p.timers \ {p.timer} ELSE p.timers
    <3>1. CASE p.state = "thinking"
      BY <2>1, <3>1 DEF ClearTimer, AppRecord, SameDialog
    <3>2. CASE p.state # "thinking"
      BY <2>1, <3>2 DEF SameDialog
    <3> QED BY <3>1, <3>2
  <2> HIDE DEF c
  <2> DEFINE d == [c EXCEPT !.state = "idle"]
  <2>4. /\ d \in AppRecord /\ SameDialog(c, d) /\ d.puller = c.puller /\ d.aip = c.aip
        /\ d.timers = c.timers /\ d.state = "idle"
    BY <2>3 DEF AppRecord, SameDialog
  <2>5. Terminate(a) = d
    BY <2>2
  <2> HIDE DEF d
  <2> QED BY <2>1, <2>3, <2>4, <2>5 DEF SameDialog, SameTimers
<1> QED BY <1>1, <1>2

-------------------------------------------------------------------------------
(***************************************************************************)
(* Recordings and new dialogs.                                             *)
(***************************************************************************)
\* _onFocusChanged(FOREGROUND)
LEMMA RecordRecords ==
  ASSUME NEW a \in AppRecord
  PROVE  LET b == Record(a)
         IN  /\ b \in AppRecord /\ SameTimers(a, b)
             /\ b.state = "record" /\ b.held /\ b.puller /\ b.current = a.id
             /\ b.id = a.id /\ b.audio = a.audio /\ b.waits = a.waits /\ b.aip = a.aip
             /\ b.kept = a.kept /\ b.expect = a.expect /\ b.front = a.front /\ b.online = a.online
             /\ a.online => b.stream = a.audio /\ b.asked = a.asked \cup {a.audio}
             /\ ~a.online => b.stream = a.stream /\ b.asked = a.asked
<1> DEFINE c == [a EXCEPT !.held = TRUE, !.current = a.id, !.state = "record", !.puller = TRUE]
           d == [c EXCEPT !.stream = c.audio, !.asked = c.asked \cup {c.audio},
                          !.voices = c.voices \cup {c.audio}]
<1>1. /\ c \in AppRecord /\ SameTimers(a, c)
      /\ c.state = "record" /\ c.held /\ c.puller /\ c.current = a.id
      /\ c.id = a.id /\ c.audio = a.audio /\ c.waits = a.waits /\ c.aip = a.aip
      /\ c.kept = a.kept /\ c.expect = a.expect /\ c.front = a.front /\ c.online = a.online
      /\ c.stream = a.stream /\ c.asked = a.asked
  BY DEF AppRecord, SameTimers
<1>2. Record(a) = IF c.online THEN d ELSE c
  BY DEF Record, RequestAudio
<1> HIDE DEF c
<1>3. /\ d \in AppRecord /\ SameTimers(c, d)
      /\ d.state = c.state /\ d.held = c.held /\ d.puller = c.puller /\ d.current = c.current
      /\ d.id = c.id /\ d.audio = c.audio /\ d.waits = c.waits /\ d.aip = c.aip
      /\ d.kept = c.kept /\ d.expect = c.expect /\ d.front = c.front /\ d.online = c.online
      /\ d.stream = c.audio /\ d.asked = c.asked \cup {c.audio}
  BY <1>1 DEF AppRecord, SameTimers
<1> HIDE DEF d
<1> QED BY <1>1, <1>2, <1>3 DEF SameTimers

\* AIP gets the foreground back.
LEMMA PromotePromotes ==
  ASSUME NEW a, Sound(a)
  PROVE  /\ Sound(PromoteAip(a)) /\ PromoteAip(a).id = a.id /\ PromoteAip(a).front = a.front
         /\ PromoteAip(a).expect = a.expect
         /\ a.aip # "BACKGROUND" => PromoteAip(a) = a
<1>1. a \in AppRecord
  BY DEF Sound
<1>2. CASE a.aip = "BACKGROUND"
  <2> DEFINE b == [a EXCEPT !.aip = "FOREGROUND"]
  <2>1. b \in AppRecord /\ b.id = a.id /\ b.front = a.front /\ b.expect = a.expect
    BY <1>1 DEF AppRecord
  <2>2. PromoteAip(a) = Record(b)
    BY <1>2 DEF PromoteAip
  <2> HIDE DEF b
  <2> QED BY <1>2, <2>1, <2>2, RecordRecords DEF Sound, Voiced
<1>3. CASE a.aip # "BACKGROUND"
  BY <1>3 DEF PromoteAip
<1> QED BY <1>2, <1>3

\* What a new dialog does to the one under way: its timer is cleared, and
\* its voice stopped at both ends.
LEMMA AbandonEnds ==
  ASSUME NEW a, Sound(a)
  PROVE  LET b == Abandon(a)
         IN  /\ b \in AppRecord /\ ~b.puller
             /\ b.id = a.id /\ b.audio = a.audio /\ b.waits = a.waits /\ b.aip = a.aip
             /\ b.kept = a.kept /\ b.expect = a.expect /\ b.front = a.front
             /\ b.online = a.online /\ b.asked = a.asked /\ b.current = a.current
             /\ b.timers = IF a.state = "idle" THEN a.timers ELSE a.timers \ {a.timer}
             /\ b.stream = IF a.state = "record" THEN 0 ELSE a.stream
<1>1. a \in AppRecord
  BY DEF Sound
<1>2. CASE a.state = "idle"
  BY <1>2 DEF Abandon, Sound, Voiced
<1>3. CASE a.state = "thinking"
  BY <1>1, <1>3 DEF Abandon, ClearTimer, AppRecord, Sound, Voiced
<1>4. CASE a.state = "record"
  <2> DEFINE c == [[a EXCEPT !.stream = 0] EXCEPT !.puller = FALSE]
  <2>1. /\ c \in AppRecord /\ ~c.puller
        /\ c.id = a.id /\ c.audio = a.audio /\ c.waits = a.waits /\ c.aip = a.aip
        /\ c.kept = a.kept /\ c.expect = a.expect /\ c.front = a.front
        /\ c.online = a.online /\ c.asked = a.asked /\ c.current = a.current
        /\ SameTimers(a, c) /\ c.stream = 0
    BY <1>1, ZeroIsId DEF AppRecord, SameTimers
  <2>2. Abandon(a) = ClearTimer(c)
    BY <1>4 DEF Abandon, CloseVoice
  <2> HIDE DEF c
  <2>3. /\ ClearTimer(c) \in AppRecord /\ ~ClearTimer(c).puller
        /\ ClearTimer(c).id = c.id /\ ClearTimer(c).audio = c.audio
        /\ ClearTimer(c).waits = c.waits /\ ClearTimer(c).aip = c.aip
        /\ ClearTimer(c).kept = c.kept /\ ClearTimer(c).expect = c.expect
        /\ ClearTimer(c).front = c.front /\ ClearTimer(c).online = c.online
        /\ ClearTimer(c).asked = c.asked /\ ClearTimer(c).current = c.current
        /\ ClearTimer(c).timers = c.timers \ {c.timer} /\ ClearTimer(c).stream = c.stream
    BY <2>1 DEF AppRecord, ClearTimer
  <2> QED BY <1>4, <2>1, <2>2, <2>3 DEF SameTimers
<1> QED BY <1>1, <1>2, <1>3, <1>4 DEF AppRecord

\* recognize()
LEMMA RecognizeBegins ==
  ASSUME NEW a, Sound(a), a.id < MaxDialogs, NEW c \in BOOLEAN
  PROVE  LET b == Recognize(a, c)
         IN  /\ Sound(b) /\ ~b.puller /\ b.state = "idle"
             /\ b.id = a.id + 1 /\ b.audio = b.id /\ b.waits = a.waits \cup {Listen(c, b.id)}
             /\ b.aip = a.aip /\ b.kept = a.kept /\ b.expect = a.expect /\ b.front = a.front
             /\ b.online = a.online /\ b.asked = a.asked
             /\ b.timers = IF a.state = "idle" THEN a.timers ELSE a.timers \ {a.timer}
             /\ b.stream = IF a.state = "record" THEN 0 ELSE a.stream
<1> DEFINE p == Abandon(a)
           w == p.waits \cup {Listen(c, a.id + 1)}
           b == [p EXCEPT !.state = "idle", !.id = p.id + 1, !.audio = a.id + 1, !.waits = w]
<1>1. /\ p \in AppRecord /\ ~p.puller
      /\ p.id = a.id /\ p.waits = a.waits /\ p.aip = a.aip
      /\ p.kept = a.kept /\ p.expect = a.expect /\ p.front = a.front
      /\ p.online = a.online /\ p.asked = a.asked
      /\ p.timers = IF a.state = "idle" THEN a.timers ELSE a.timers \ {a.timer}
      /\ p.stream = IF a.state = "record" THEN 0 ELSE a.stream
  BY AbandonEnds
<1>2. w \in SUBSET Wait /\ a.id + 1 \in Id
  <2>1. p.waits \in SUBSET Wait /\ a.id \in 0..MaxDialogs
    BY <1>1 DEF AppRecord, Sound, Id
  <2>2. a.id + 1 \in Id
    BY <2>1, RecognizerAssumption DEF Id
  <2>3. Listen(c, a.id + 1) \in Wait
    BY <2>2 DEF Listen, Wait
  <2> QED BY <2>1, <2>2, <2>3
<1>3. Recognize(a, c) = b
  BY DEF Recognize
<1> HIDE DEF p, w
<1>4. /\ b \in AppRecord /\ ~b.puller /\ b.state = "idle"
      /\ b.id = p.id + 1 /\ b.audio = a.id + 1 /\ b.waits = w
      /\ b.aip = p.aip /\ b.kept = p.kept /\ b.expect = p.expect /\ b.front = p.front
      /\ b.online = p.online /\ b.asked = p.asked /\ b.timers = p.timers /\ b.stream = p.stream
  BY <1>1, <1>2 DEF AppRecord
<1> HIDE DEF b
<1> QED BY <1>1, <1>3, <1>4 DEF Sound, Voiced, w

\* A timer is started.
LEMMA StartTimerStarts ==
  ASSUME NEW a \in AppRecord, a.timers # Timer
  PROVE  LET b == StartTimer(a)
         IN  /\ b \in AppRecord /\ SameDialog(a, b)
             /\ b.state = a.state /\ b.aip = a.aip /\ b.puller = a.puller /\ b.held = a.held
             /\ b.timer \in b.timers /\ b.timers = a.timers \cup {b.timer}
<1> DEFINE t == FreeTimer(a)
<1>1. t \in Timer
  BY FreeTimerIsFree
<1>2. StartTimer(a) = [a EXCEPT !.timer = t, !.timers = a.timers \cup {t}]
  BY DEF StartTimer
<1> HIDE DEF t
<1> DEFINE b == [a EXCEPT !.timer = t, !.timers = a.timers \cup {t}]
<1>3. a.timers \cup {t} \in SUBSET Timer
  BY <1>1 DEF AppRecord
<1>4. /\ b \in AppRecord /\ b.timer = t /\ b.timers = a.timers \cup {t}
      /\ b.state = a.state /\ b.aip = a.aip /\ b.puller = a.puller /\ b.held = a.held
  BY <1>1, <1>3 DEF AppRecord
<1>5. SameDialog(a, b)
  BY DEF AppRecord, SameDialog
<1> HIDE DEF b
<1> QED BY <1>2, <1>4, <1>5 DEF b

\* nlp()
LEMMA NlpBegins ==
  ASSUME NEW a, Sound(a), a.id < MaxDialogs, a.timers # Timer
  PROVE  LET b == Nlp(a)
         IN  /\ Sound(b) /\ ~b.puller /\ b.state = "thinking"
             /\ b.id = a.id + 1 /\ b.current = b.id /\ b.waits = a.waits \cup {Text(b.id)}
             /\ b.aip = a.aip /\ b.kept = a.kept /\ b.expect = a.expect /\ b.front = a.front
             /\ b.online = a.online /\ b.asked = a.asked
             /\ b.timers = (IF a.state = "idle" THEN a.timers ELSE a.timers \ {a.timer}) \cup {b.timer}
             /\ b.stream = IF a.state = "record" THEN 0 ELSE a.stream
<1> DEFINE p == Abandon(a)
           q == StartTimer(p)
           w == q.waits \cup {Text(a.id + 1)}
           b == [q EXCEPT !.state = "thinking", !.id = q.id + 1, !.current = a.id + 1, !.waits = w]
<1>1. /\ p \in AppRecord /\ ~p.puller
      /\ p.id = a.id /\ p.waits = a.waits /\ p.aip = a.aip
      /\ p.kept = a.kept /\ p.expect = a.expect /\ p.front = a.front
      /\ p.online = a.online /\ p.asked = a.asked
      /\ p.timers = IF a.state = "idle" THEN a.timers ELSE a.timers \ {a.timer}
      /\ p.stream = IF a.state = "record" THEN 0 ELSE a.stream
  BY AbandonEnds
<1>2. p.timers # Timer
  BY <1>1 DEF Sound, AppRecord
<1>3. Nlp(a) = b
  BY DEF Nlp
<1> HIDE DEF p
<1>4. /\ q \in AppRecord /\ SameDialog(p, q) /\ q.puller = p.puller /\ q.aip = p.aip
      /\ q.timer \in q.timers /\ q.timers = p.timers \cup {q.timer}
  BY <1>1, <1>2, StartTimerStarts
<1> HIDE DEF q
<1>5. w \in SUBSET Wait /\ a.id + 1 \in Id
  <2>1. a.id \in 0..MaxDialogs
    BY DEF AppRecord, Sound, Id
  <2>2. a.id + 1 \in Id
    BY <2>1, RecognizerAssumption DEF Id
  <2>3. Text(a.id + 1) \in Wait
    BY <2>2 DEF Text, Wait
  <2>4. q.waits \in SUBSET Wait
    BY <1>4 DEF AppRecord
  <2> QED BY <2>2, <2>3, <2>4
<1> HIDE DEF w
<1>6. /\ b \in AppRecord /\ b.puller = q.puller /\ b.state = "thinking"
      /\ b.id = q.id + 1 /\ b.current = a.id + 1 /\ b.waits = w
      /\ b.aip = q.aip /\ b.kept = q.kept /\ b.expect = q.expect /\ b.front = q.front
      /\ b.online = q.online /\ b.asked = q.asked /\ SameTimers(q, b) /\ b.stream = q.stream
  <2>1. q.id + 1 = a.id + 1
    BY <1>1, <1>4 DEF SameDialog
  <2> QED BY <1>4, <1>5, <2>1 DEF AppRecord, SameTimers
<1> HIDE DEF b
<1>7. w = a.waits \cup {Text(a.id + 1)}
  BY <1>1, <1>4 DEF w, SameDialog
<1> QED BY <1>1, <1>3, <1>4, <1>6, <1>7 DEF Sound, Voiced, SameDialog, SameTimers

-------------------------------------------------------------------------------
(***************************************************************************)
(* What the pieces keep of a calm dialog.                                  *)
(***************************************************************************)
\* recognize(), when nothing waits
LEMMA RecognizeCalm ==
  ASSUME NEW a, Sound(a), a.id < MaxDialogs, NEW c \in BOOLEAN,
         Settled(a), Silent(a), a.waits = {}
  PROVE  LET b == Recognize(a, c)
         IN  Settled(b) /\ Silent(b) /\ (Kept(a) => Kept(b)) /\ PhaseOf(b) = "starting"
<1> DEFINE b == Recognize(a, c)
<1>1. /\ Sound(b) /\ ~b.puller /\ b.state = "idle"
      /\ b.id = a.id + 1 /\ b.audio = b.id /\ b.waits = a.waits \cup {Listen(c, b.id)}
      /\ b.aip = a.aip /\ b.kept = a.kept /\ b.expect = a.expect /\ b.front = a.front
      /\ b.online = a.online /\ b.asked = a.asked
      /\ b.timers = IF a.state = "idle" THEN a.timers ELSE a.timers \ {a.timer}
      /\ b.stream = IF a.state = "record" THEN 0 ELSE a.stream
  BY RecognizeBegins
<1> HIDE DEF b
<1>2. Listen(c, b.id).op = "listen"
  BY DEF Listen
<1>3. b.waits = {Listen(c, b.id)}
  BY <1>1
<1>4. a.id \in Nat /\ a.expect \in Nat
  BY RecognizerAssumption DEF Sound, AppRecord, Id
<1>5. Numbered(b) /\ b.id \notin b.asked /\ b.expect # b.id
  BY <1>1, <1>4 DEF Settled, Numbered
<1>6. Timed(b)
  BY <1>1 DEF Settled, Timed, Sound, AppRecord
<1>7. Waiting(b)
  BY <1>1, <1>2, <1>3, <1>4, <1>5 DEF Waiting
<1>8. Settled(b)
  BY <1>1, <1>5, <1>6, <1>7 DEF Settled, Heard
<1>9. Silent(b) /\ (Kept(a) => Kept(b))
  BY <1>1 DEF Silent, Kept
<1>10. PhaseOf(b) = "starting"
  BY <1>1, <1>2, <1>3 DEF PhaseOf, Pending
<1> QED BY <1>8, <1>9, <1>10 DEF b

\* nlp(), when nothing waits
LEMMA NlpCalm ==
  ASSUME NEW a, Sound(a), a.id < MaxDialogs, a.timers # Timer, CalmApp(a), a.waits = {}
  PROVE  LET b == Nlp(a) IN CalmApp(b) /\ PhaseOf(b) = "thinking"
<1> DEFINE b == Nlp(a)
<1>1. /\ Sound(b) /\ ~b.puller /\ b.state = "thinking"
      /\ b.id = a.id + 1 /\ b.current = b.id /\ b.waits = a.waits \cup {Text(b.id)}
      /\ b.aip = a.aip /\ b.kept = a.kept /\ b.expect = a.expect /\ b.front = a.front
      /\ b.online = a.online /\ b.asked = a.asked
      /\ b.timers = (IF a.state = "idle" THEN a.timers ELSE a.timers \ {a.timer}) \cup {b.timer}
      /\ b.stream = IF a.state = "record" THEN 0 ELSE a.stream
  BY NlpBegins
<1> HIDE DEF b
<1>2. Text(b.id).op = "text" /\ Text(b.id).id = b.id
  BY DEF Text
<1>3. b.waits = {Text(b.id)}
  BY <1>1
<1>4. a.id \in Nat /\ a.expect \in Nat
  BY RecognizerAssumption DEF Sound, AppRecord, Id
<1>5. Numbered(b) /\ b.id \notin b.asked /\ b.expect # b.id
  BY <1>1, <1>4 DEF CalmApp, Settled, Numbered
<1>6. Timed(b)
  BY <1>1 DEF CalmApp, Settled, Timed
<1>7. Waiting(b)
  BY <1>1, <1>2, <1>3, <1>4, <1>5 DEF Waiting
<1>8. Settled(b)
  BY <1>1, <1>5, <1>6, <1>7 DEF CalmApp, Settled, Heard
<1>9. Silent(b) /\ Kept(b)
  BY <1>1 DEF CalmApp, Silent, Kept
<1> QED BY <1>1, <1>8, <1>9 DEF CalmApp, PhaseOf, b

\* _terminalDialog.  Its own timer may have fired.
LEMMA TerminateCalm ==
  ASSUME NEW a \in AppRecord, Voiced(a)
  PROVE  LET b == Terminate(a)
         IN  /\ Sound(b) /\ ~b.puller /\ b.state = "idle" /\ SameDialog(a, b)
             /\ Settled(a) => Settled(b)
<1> DEFINE b == Terminate(a)
<1>1. /\ b \in AppRecord /\ SameDialog(a, b)
      /\ b.timers = IF a.state = "thinking" THEN a.timers \ {a.timer} ELSE a.timers
      /\ b.puller => a.puller /\ a.state # "record"
      /\ b.state = "idle" /\ b.aip \in {a.aip, "NONE"}
  BY TerminateEnds
<1> HIDE DEF b
<1>2. ~b.puller
  BY <1>1 DEF Voiced
<1>3. ASSUME Settled(a) PROVE Settled(b)
  <2>1. Timed(b) /\ Numbered(b) /\ Heard(b) /\ b.aip # "BACKGROUND"
    BY <1>1, <1>2, <1>3 DEF Settled, Timed, Numbered, Heard, SameDialog
  <2>2. b.waits # {} => Waiting(b)
    BY <1>1, <1>3 DEF Settled, Waiting, SameDialog
  <2> QED BY <2>1, <2>2 DEF Settled
<1> QED BY <1>1, <1>2, <1>3 DEF Sound, Voiced, b

\* releaseChannel
LEMMA ReleaseCalm ==
  ASSUME NEW a, Sound(a)
  PROVE  LET b == ReleaseAip(a)
         IN  /\ Sound(b) /\ b.aip = "NONE" /\ b.state = a.state /\ SameDialog(a, b)
             /\ SameTimers(a, b) /\ (b.puller => a.puller)
             /\ CalmApp(a) => CalmApp(b)
<1> DEFINE b == ReleaseAip(a)
<1>1. /\ b \in AppRecord /\ SameDialog(a, b) /\ SameTimers(a, b)
      /\ b.puller => a.puller /\ (a.state # "record" \/ (a.aip = "NONE" /\ b.held = a.held))
      /\ b.state = a.state /\ b.aip = "NONE"
  BY ReleaseReleases DEF Sound
<1> HIDE DEF b
<1>2. Sound(b)
  BY <1>1 DEF Sound, Voiced, SameTimers
<1>3. ASSUME CalmApp(a) PROVE CalmApp(b)
  <2>1. Timed(b) /\ Numbered(b) /\ Heard(b) /\ b.aip # "BACKGROUND"
    BY <1>1, <1>3 DEF CalmApp, Settled, Timed, Numbered, Heard, SameDialog, SameTimers
  <2>2. b.waits # {} => Waiting(b)
    BY <1>1, <1>3 DEF CalmApp, Settled, Waiting, SameDialog
  <2>3. Silent(b) /\ Kept(b)
    BY <1>1, <1>3 DEF CalmApp, Silent, Kept, SameDialog
  <2> QED BY <2>1, <2>2, <2>3 DEF CalmApp, Settled
<1> QED BY <1>1, <1>2, <1>3 DEF b

\* A recording begins, of the dialog that has waited, on a connection.
LEMMA RecordCalm ==
  ASSUME NEW a \in AppRecord, Settled(a), Kept(a), a.waits = {},
         a.online, a.audio = a.id, a.id # 0, a.state = "idle"
  PROVE  LET b == Record(a) IN CalmApp(b) /\ PhaseOf(b) = "listening" /\ b.id = a.id
<1> DEFINE b == Record(a)
<1>1. /\ b \in AppRecord /\ SameTimers(a, b)
      /\ b.state = "record" /\ b.held /\ b.puller /\ b.current = a.id
      /\ b.id = a.id /\ b.audio = a.audio /\ b.waits = a.waits /\ b.aip = a.aip
      /\ b.kept = a.kept /\ b.expect = a.expect /\ b.front = a.front /\ b.online = a.online
      /\ b.stream = a.audio /\ b.asked = a.asked \cup {a.audio}
  BY RecordRecords
<1> HIDE DEF b
<1>2. a.id \in Nat
  BY RecognizerAssumption DEF AppRecord, Id
<1>3. Numbered(b)
  BY <1>1, <1>2 DEF Settled, Numbered
<1>4. Timed(b) /\ Heard(b) /\ Silent(b) /\ Kept(b)
  BY <1>1 DEF Settled, Timed, Heard, Silent, Kept, SameTimers
<1> QED BY <1>1, <1>3, <1>4 DEF CalmApp, Settled, PhaseOf, b

\* What the end of a speech, or the beginning of one, leaves of the dialog
SameRecording(a, b) ==
  /\ b.state = a.state /\ b.puller = a.puller /\ b.held = a.held
  /\ b.id = a.id /\ b.audio = a.audio /\ b.waits = a.waits
  /\ b.timer = a.timer /\ b.timers = a.timers
  /\ b.online = a.online /\ b.current = a.current /\ b.stream = a.stream /\ b.asked = a.asked

LEMMA SameRecordingCalm ==
  ASSUME NEW a \in AppRecord, NEW b \in AppRecord, SameRecording(a, b), b.expect \in {0, a.expect}
  PROVE  /\ Sound(a) => Sound(b)
         /\ Settled(a) /\ b.aip # "BACKGROUND" => Settled(b)
         /\ Silent(a) => Silent(b)
         /\ PhaseOf(b) = PhaseOf(a)
<1>1. Sound(a) => Sound(b)
  BY DEF Sound, Voiced, SameRecording
<1>2. ASSUME Settled(a), b.aip # "BACKGROUND" PROVE Settled(b)
  <2>1. a.id \in Nat /\ a.expect \in Nat
    BY RecognizerAssumption DEF AppRecord, Id
  <2>2. Timed(b) /\ Numbered(b) /\ Heard(b)
    BY <1>2, <2>1 DEF Settled, Timed, Numbered, Heard, SameRecording
  <2>3. b.waits # {} => Waiting(b)
    BY <1>2, <2>1 DEF Settled, Waiting, SameRecording
  <2> QED BY <1>2, <2>2, <2>3 DEF Settled
<1>3. Silent(a) => Silent(b)
  BY DEF Silent, SameRecording
<1>4. PhaseOf(b) = PhaseOf(a)
  BY DEF PhaseOf, Pending, SameRecording
<1> QED BY <1>1, <1>2, <1>3, <1>4

\* The speech is over: the reply it expects begins, if it is that of the present dialog.
LEMMA SpeechOverCalm ==
  ASSUME NEW a, Sound(a), a.expect # 0 => a.id < MaxDialogs, NEW c \in BOOLEAN
  PROVE  LET b == SpeechOver(a, c)
         IN  /\ Sound(b) /\ b.front = a.front /\ b.expect = 0 /\ ~b.kept
             /\ Settled(a) /\ Silent(a) => /\ Settled(b) /\ Silent(b)
                                           /\ Goes(a, b)
                                           /\ a.expect = 0 \/ a.expect # a.id => SameRecording(a, b)
<1> DEFINE h == IF a.kept THEN PromoteAip(a) ELSE a
           k == [h EXCEPT !.kept = FALSE]
           e == IF k.expect = 0 THEN k ELSE ExpectReply(k, k.expect, c)
           b == [e EXCEPT !.expect = 0]
<1>1. b = SpeechOver(a, c)
  BY DEF SpeechOver
<1>2. /\ Sound(h) /\ h.id = a.id /\ h.front = a.front /\ h.expect = a.expect
      /\ a.aip # "BACKGROUND" => h = a
  BY PromotePromotes
<1> HIDE DEF h
<1>3. /\ k \in AppRecord /\ SameRecording(h, k) /\ k.aip = h.aip /\ ~k.kept
      /\ k.front = h.front /\ k.expect = h.expect
  BY <1>2 DEF Sound, AppRecord, SameRecording
<1> HIDE DEF k
<1>4. /\ Sound(k) /\ k.id = a.id /\ k.expect = a.expect
      /\ Settled(a) /\ Silent(a) => Settled(k) /\ Silent(k) /\ SameRecording(a, k) /\ PhaseOf(k) = PhaseOf(a)
  BY <1>2, <1>3, SameRecordingCalm DEF Settled, Sound, SameRecording
<1>5. CASE k.expect = 0 \/ k.expect # k.id
  <2>1. e = k
    BY <1>5 DEF ExpectReply
  <2>2. b \in AppRecord /\ SameRecording(k, b) /\ b.aip = k.aip /\ b.front = k.front /\ b.expect = 0 /\ b.kept = k.kept
    BY <1>3, <2>1, ZeroIsId DEF AppRecord, SameRecording
  <2> HIDE DEF b
  <2>3. Sound(b) /\ PhaseOf(b) = PhaseOf(k) /\ (Settled(k) => Settled(b)) /\ (Silent(k) => Silent(b))
    BY <1>3, <1>4, <2>2, SameRecordingCalm DEF Settled
  <2> QED BY <1>1, <1>2, <1>3, <1>4, <2>2, <2>3 DEF SameRecording, Goes
<1>6. CASE k.expect # 0 /\ k.expect = k.id
  <2>1. e = Recognize(k, c)
    BY <1>6 DEF ExpectReply
  <2> HIDE DEF e
  <2>2. /\ Sound(e) /\ e.id = k.id + 1
        /\ e.kept = k.kept /\ e.front = k.front
    <3>1. k.id < MaxDialogs
      BY <1>4, <1>6
    <3> QED BY <1>4, <2>1, <3>1, RecognizeBegins
  <2>3. ASSUME Settled(a), Silent(a) PROVE Settled(e) /\ Silent(e) /\ PhaseOf(e) = "starting"
    <3>1. k.waits = {}
      BY <1>4, <1>6, <2>3 DEF Settled, Waiting
    <3>2. k.id < MaxDialogs
      BY <1>4, <1>6
    <3> QED BY <1>4, <2>1, <2>3, <3>1, <3>2, RecognizeCalm
  <2>4. b \in AppRecord /\ SameRecording(e, b) /\ b.aip = e.aip /\ b.front = e.front /\ b.expect = 0 /\ b.kept = e.kept
    BY <2>2, ZeroIsId DEF Sound, AppRecord, SameRecording
  <2> HIDE DEF b
  <2>5. Sound(b) /\ PhaseOf(b) = PhaseOf(e) /\ (Settled(e) => Settled(b)) /\ (Silent(e) => Silent(b))
    BY <2>2, <2>4, SameRecordingCalm DEF Settled, Sound
  <2> QED BY <1>1, <1>2, <1>3, <1>4, <1>6, <2>2, <2>3, <2>4, <2>5 DEF SameRecording, Goes
<1> QED BY <1>5, <1>6

\* TTS or LOCAL comes to the front.
LEMMA ComeForwardCalm ==
  ASSUME NEW a, Sound(a), NEW who \in {"TTS", "LOCAL"}
  PROVE  LET b == ComeForward(a, who)
         IN  /\ Sound(b) /\ b.id = a.id /\ PhaseOf(b) = PhaseOf(a)
             /\ CalmApp(a) /\ a.aip # "FOREGROUND" /\ (who = "TTS" \/ a.front # "TTS") => CalmApp(b)
<1> DEFINE aip == IF a.aip = "FOREGROUND" THEN "BACKGROUND" ELSE a.aip
           b == [a EXCEPT !.front = who, !.aip = aip]
<1>1. b = ComeForward(a, who)
  BY DEF ComeForward
<1>2. a \in AppRecord /\ aip \in {"NONE", "BACKGROUND", "FOREGROUND"}
  BY DEF Sound, AppRecord
<1>3. a.aip # "FOREGROUND" => aip = a.aip
  OBVIOUS
<1> HIDE DEF aip
<1>4. b \in AppRecord /\ SameRecording(a, b) /\ b.aip = aip /\ b.front = who /\ b.expect = a.expect /\ b.kept = a.kept
  BY <1>2 DEF AppRecord, SameRecording
<1> HIDE DEF b
<1>5. Sound(b) /\ PhaseOf(b) = PhaseOf(a) /\ b.id = a.id
  BY <1>2, <1>4, SameRecordingCalm DEF SameRecording
<1>6. ASSUME CalmApp(a), a.aip # "FOREGROUND", who = "TTS" \/ a.front # "TTS" PROVE CalmApp(b)
  <2>1. Kept(b)
    BY <1>4, <1>6 DEF CalmApp, Kept
  <2> QED BY <1>2, <1>3, <1>4, <1>6, <2>1, SameRecordingCalm DEF CalmApp, Settled
<1> QED BY <1>1, <1>5, <1>6

\* acquireChannel(AIP) for the dialog that has waited.  What is kept for a
\* speech belongs to TTS, which then is in the foreground.
LEMMA AcquireCalm ==
  ASSUME NEW a, Sound(a), a.expect # 0 => a.id < MaxDialogs, NEW c \in BOOLEAN
  PROVE  LET b == AcquireAip(a, c)
         IN  /\ Sound(b)
             /\ CalmApp(a) /\ a.waits = {} /\ a.online /\ a.state = "idle" /\ a.audio = a.id
                /\ a.id # 0 /\ a.expect # a.id
                => CalmApp(b) /\ PhaseOf(b) = "listening" /\ b.id = a.id
<1> DEFINE f == [a EXCEPT !.front = "none"]
           q == IF a.front = "TTS" THEN SpeechOver(f, c) ELSE f
           r == ReleaseAip(q)
           s == [r EXCEPT !.aip = "FOREGROUND"]
<1>1. AcquireAip(a, c) = Record(s)
  BY DEF AcquireAip
<1>2. /\ f \in AppRecord /\ SameRecording(a, f) /\ f.aip = a.aip
      /\ f.expect = a.expect /\ f.kept = a.kept /\ f.front = "none"
  BY DEF Sound, AppRecord, SameRecording
<1> HIDE DEF f
<1>3. Sound(f) /\ (Settled(a) => Settled(f)) /\ (Silent(a) => Silent(f)) /\ f.id = a.id
  BY <1>2, SameRecordingCalm DEF Sound, Settled, SameRecording
<1>4. Sound(q)
  BY <1>2, <1>3, SpeechOverCalm
<1>5. ASSUME CalmApp(a), a.expect # a.id
      PROVE  Settled(q) /\ Silent(q) /\ Kept(q) /\ SameRecording(f, q)
  <2>1. CASE a.front = "TTS"
    BY <1>2, <1>3, <1>5, <2>1, SpeechOverCalm DEF CalmApp, Kept
  <2>2. CASE a.front # "TTS"
    BY <1>2, <1>3, <1>5, <2>2 DEF CalmApp, Kept, SameRecording
  <2> QED BY <2>1, <2>2
<1> HIDE DEF q
<1>6. /\ Sound(r) /\ SameDialog(q, r) /\ SameTimers(q, r) /\ r.state = q.state
      /\ CalmApp(q) => CalmApp(r)
  BY <1>4, ReleaseCalm
<1> HIDE DEF r
<1>7. /\ s \in AppRecord /\ SameRecording(r, s) /\ s.aip = "FOREGROUND"
      /\ s.expect = r.expect /\ s.kept = r.kept /\ s.front = r.front
  BY <1>6 DEF Sound, AppRecord, SameRecording
<1> HIDE DEF s
<1>8. Sound(Record(s))
  BY <1>7, RecordRecords DEF Sound, Voiced
<1>9. ASSUME CalmApp(a), a.waits = {}, a.online, a.state = "idle", a.audio = a.id, a.id # 0,
             a.expect # a.id
      PROVE  CalmApp(Record(s)) /\ PhaseOf(Record(s)) = "listening" /\ Record(s).id = a.id
  <2>1. CalmApp(r)
    BY <1>5, <1>6, <1>9 DEF CalmApp
  <2>2. Settled(s) /\ Kept(s)
    BY <1>6, <1>7, <2>1, SameRecordingCalm DEF CalmApp, Kept, Sound
  <2>3. /\ s.waits = {} /\ s.online /\ s.state = "idle" /\ s.audio = s.id
        /\ s.id # 0 /\ s.id = a.id
    <3>1. /\ q.waits = {} /\ q.online /\ q.state = "idle" /\ q.audio = q.id
          /\ q.id # 0 /\ q.id = a.id
      BY <1>2, <1>5, <1>9 DEF SameRecording
    <3>2. /\ r.waits = {} /\ r.online /\ r.state = "idle" /\ r.audio = r.id
          /\ r.id # 0 /\ r.id = a.id
      BY <1>6, <3>1 DEF SameDialog
    <3> QED BY <1>7, <3>2 DEF SameRecording
  <2> QED BY <1>7, <2>2, <2>3, RecordCalm
<1> QED BY <1>1, <1>8, <1>9

-------------------------------------------------------------------------------
(***************************************************************************)
(* Messages.                                                               *)
(***************************************************************************)
\* The server has said its last word on request i.
LEMMA AnsweredCalm ==
  ASSUME NEW a, Sound(a), NEW i
  PROVE  LET b == Answered(a, i)
         IN  /\ Sound(b) /\ b.id = a.id /\ PhaseOf(b) = PhaseOf(a)
             /\ Settled(a) /\ Kept(a) /\ (a.stream # i => Silent(a))
                /\ (a.puller => a.stream # i)
                => CalmApp(b)
<1> DEFINE n == IF a.stream = i THEN 0 ELSE a.stream
           b == [a EXCEPT !.asked = a.asked \ {i}, !.voices = a.voices \ {i}, !.stream = n]
<1>1. b = Answered(a, i)
  BY DEF Answered
<1>2. n \in Id /\ a \in AppRecord /\ a.asked \ {i} \in SUBSET Id /\ a.voices \ {i} \in SUBSET Id
  BY ZeroIsId DEF Sound, AppRecord
<1>3. a.stream # i => n = a.stream
  OBVIOUS
<1>4. a.stream = i => n = 0
  OBVIOUS
<1> HIDE DEF n
<1>5. /\ b \in AppRecord /\ SameTimers(a, b) /\ b.asked = a.asked \ {i} /\ b.stream = n
      /\ b.state = a.state /\ b.puller = a.puller /\ b.held = a.held /\ b.aip = a.aip
      /\ b.id = a.id /\ b.audio = a.audio /\ b.waits = a.waits /\ b.kept = a.kept
      /\ b.expect = a.expect /\ b.front = a.front /\ b.online = a.online /\ b.current = a.current
  BY <1>2 DEF AppRecord, SameTimers
<1> HIDE DEF b
<1>6. Sound(b) /\ PhaseOf(b) = PhaseOf(a)
  BY <1>5 DEF Sound, Voiced, PhaseOf, Pending, SameTimers
<1>7. ASSUME Settled(a), Kept(a), a.stream # i => Silent(a), a.puller => a.stream # i
      PROVE  CalmApp(b)
  <2>1. Timed(b) /\ Numbered(b) /\ Kept(b) /\ b.aip # "BACKGROUND"
    BY <1>5, <1>7 DEF Settled, Timed, Numbered, Kept, SameTimers
  <2>2. Heard(b) /\ Silent(b)
    BY <1>3, <1>4, <1>5, <1>7 DEF Settled, Heard, Silent
  <2>3. b.waits # {} => Waiting(b)
    BY <1>5, <1>7 DEF Settled, Waiting
  <2> QED BY <2>1, <2>2, <2>3 DEF CalmApp, Settled
<1> QED BY <1>1, <1>5, <1>6, <1>7

\* The end of a dialog, whose request the server has answered to the end
LEMMA EndedCalm ==
  ASSUME NEW h, Sound(h), CalmApp(h)
  PROVE  LET b == Answered(Terminate(h), h.id)
         IN  /\ CalmApp(b) /\ b.id = h.id
             /\ PhaseOf(b) = IF h.state = "idle" THEN PhaseOf(h) ELSE "ended"
<1> DEFINE t == Terminate(h)
           b == Answered(t, h.id)
<1>1. Sound(t) /\ ~t.puller /\ t.state = "idle" /\ SameDialog(h, t) /\ Settled(t)
  BY TerminateCalm DEF Sound, CalmApp
<1>2. Kept(t) /\ (t.stream # h.id => Silent(t))
  BY <1>1 DEF CalmApp, Kept, Silent, SameDialog
<1>3. h.state = "idle" => t = h
  BY DEF Terminate
<1> HIDE DEF t
<1>4. CalmApp(b) /\ b.id = h.id /\ PhaseOf(b) = PhaseOf(t)
  BY <1>1, <1>2, AnsweredCalm DEF SameDialog
<1>5. h.state # "idle" => ~Pending(t)
  <2>1. h.waits # {} => Waiting(h)
    BY DEF CalmApp, Settled
  <2>2. t.waits = h.waits
    BY <1>1 DEF SameDialog
  <2> QED BY <2>1, <2>2 DEF Waiting, Pending
<1>6. h.state # "idle" => PhaseOf(t) = "ended"
  BY <1>1, <1>5 DEF PhaseOf
<1> QED BY <1>3, <1>4, <1>6 DEF t

\* The request of a dialog that is to start is not one the server has to answer.
LEMMA StartingIsUnasked ==
  ASSUME NEW a, Sound(a), CalmApp(a), PhaseOf(a) = "starting"
  PROVE  a.id \notin a.asked
<1>1. a \in AppRecord /\ (a.waits # {} => Waiting(a))
  BY DEF Sound, CalmApp, Settled
<1>2. Pending(a)
  BY <1>1 DEF PhaseOf, AppRecord
<1> QED BY <1>1, <1>2 DEF Waiting, Pending

\* _onWsMessage: nothing if the message is dropped, else what the listeners
\* do, and the end of the dialog if the message is the last of its request.
LEMMA MessageCalm ==
  ASSUME Sound(app), NEW i \in Id, NEW last \in BOOLEAN, last => i \in app.asked,
         NEW h, Sound(h), Message(i, last, h)
  PROVE  /\ Sound(app')
         /\ CalmApp(app) /\ (~WillDrop(app, i) => CalmApp(h) /\ Goes(app, h))
            => CalmApp(app') /\ Goes(app, app')
<1> DEFINE end == CASE WillDrop(app, i)            -> app
                    [] ~WillDrop(app, i) /\ last   -> RspEnd(h, i)
                    [] ~WillDrop(app, i) /\ ~last  -> h
<1>1. app' = IF last THEN Answered(end, i) ELSE end
  BY DEF Message, Becomes
<1>2. Sound(RspEnd(h, i))
  BY TerminateCalm DEF RspEnd, Sound
<1>3. Sound(end)
  BY <1>2
<1>4. Sound(app')
  BY <1>1, <1>3, AnsweredCalm
<1>5. ASSUME CalmApp(app), ~WillDrop(app, i) => CalmApp(h) /\ Goes(app, h)
      PROVE  CalmApp(app') /\ Goes(app, app')
  <2>1. CASE ~last
    <3>1. app' = app \/ (~WillDrop(app, i) /\ app' = h)
      BY <1>1, <2>1
    <3> QED BY <1>5, <3>1 DEF Goes
  <2>2. CASE last /\ WillDrop(app, i)
    <3>1. app' = Answered(app, i)
      BY <1>1, <2>2
    <3>2. app.puller => app.stream # i
      BY <1>5, <2>2 DEF WillDrop, CalmApp, Settled, Heard
    <3> QED BY <1>5, <3>1, <3>2, AnsweredCalm DEF CalmApp, Goes
  <2>3. CASE last /\ ~WillDrop(app, i) /\ i # h.id
    <3>1. app' = Answered(h, i)
      BY <1>1, <2>3 DEF RspEnd
    <3>2. h.puller => h.stream # i
      BY <1>5, <2>3 DEF CalmApp, Settled, Heard
    <3>3. CalmApp(app') /\ app'.id = h.id /\ PhaseOf(app') = PhaseOf(h)
      BY <1>5, <2>3, <3>1, <3>2, AnsweredCalm DEF CalmApp
    <3> QED BY <1>5, <2>3, <3>3 DEF Goes
  <2>4. CASE last /\ ~WillDrop(app, i) /\ i = h.id
    <3>1. app' = Answered(Terminate(h), h.id)
      BY <1>1, <2>4 DEF RspEnd
    <3>2. /\ CalmApp(app') /\ app'.id = h.id
          /\ PhaseOf(app') = IF h.state = "idle" THEN PhaseOf(h) ELSE "ended"
      BY <1>5, <2>4, <3>1, EndedCalm
    <3>3. h.id = app.id
      <4>1. i \in 1..app.id /\ app.id \in Nat
        BY <1>5, <2>4, RecognizerAssumption DEF CalmApp, Settled, Numbered, Sound, AppRecord, Id
      <4> QED BY <1>5, <2>4, <4>1 DEF Goes
    <3>4. PhaseOf(app) # "starting"
      BY <1>5, <2>4, <3>3, StartingIsUnasked
    <3>5. h.state # "idle" => PhaseOf(h) \in {"listening", "deaf", "thinking"}
      BY DEF PhaseOf, Sound, AppRecord
    <3>6. h.id # app.id + 1
      BY <3>3, RecognizerAssumption DEF Sound, AppRecord, Id
    <3>7. Goes(app, h)
      BY <1>5, <2>4
    <3>8. CASE h.state = "idle"
      BY <3>2, <3>3, <3>6, <3>7, <3>8 DEF Goes
    <3>9. CASE h.state # "idle"
      BY <3>2, <3>3, <3>4, <3>5, <3>6, <3>7, <3>9 DEF Goes
    <3> QED BY <3>2, <3>8, <3>9
  <2> QED BY <2>1, <2>2, <2>3, <2>4
<1> QED BY <1>4, <1>5

-------------------------------------------------------------------------------
(***************************************************************************)
(* The actions.                                                            *)
(***************************************************************************)
\* What each action does
GoodStep ==
  /\ Sound(app') /\ calm' \in BOOLEAN
  /\ calm' => calm /\ CalmApp(app') /\ Goes(app, app')

LEMMA WakeupGood ==
  ASSUME DialogInv, Wakeup PROVE GoodStep
<1>1. app' = Recognize(app, TRUE) /\ app.id < MaxDialogs /\ calm' = (calm /\ app.waits = {})
  BY DEF Wakeup, Becomes, Rooms, Calmly
<1>2. Sound(app') /\ app'.id = app.id + 1
  BY <1>1, RecognizeBegins DEF DialogInv
<1>3. ASSUME calm' PROVE calm /\ CalmApp(app') /\ Goes(app, app')
  BY <1>1, <1>2, <1>3, RecognizeCalm DEF DialogInv, CalmApp, Goes
<1> QED BY <1>1, <1>2, <1>3 DEF GoodStep

LEMMA PlayButtonGood ==
  ASSUME DialogInv, PlayButton PROVE GoodStep
<1>1. /\ app' = Nlp(app) /\ app.id < MaxDialogs /\ app.timers # Timer
      /\ calm' = (calm /\ app.waits = {})
  BY DEF PlayButton, Becomes, Rooms, TimerFree, Calmly
<1>2. Sound(app') /\ app'.id = app.id + 1
  BY <1>1, NlpBegins DEF DialogInv
<1>3. ASSUME calm' PROVE calm /\ CalmApp(app') /\ Goes(app, app')
  BY <1>1, <1>2, <1>3, NlpCalm DEF DialogInv, Goes
<1> QED BY <1>1, <1>2, <1>3 DEF GoodStep

LEMMA ContextGood ==
  ASSUME DialogInv, Context PROVE GoodStep
<1>1. PICK w \in app.waits, c \in BOOLEAN :
        /\ app' = Resolve(app, w, c) /\ (app.expect # 0 => app.id < MaxDialogs)
        /\ calm' = (calm /\ (w.op = "listen" => app.online))
  BY DEF Context, Becomes, Rooms, Calmly
<1> DEFINE rest == app.waits \ {w}
           p == [app EXCEPT !.waits = rest]
<1>2. /\ app.expect # 0 => app.id < MaxDialogs
      /\ calm' = (calm /\ (w.op = "listen" => app.online))
  BY <1>1
<1>3. app \in AppRecord /\ app.waits \in SUBSET Wait
  BY DEF DialogInv, Sound, AppRecord
<1>4. w \in Wait /\ w \in app.waits /\ rest \in SUBSET Wait
  BY <1>3
<1>5. app' = CASE w.op = "text"                 -> RequestText(p, w.id)
               [] w.op = "listen" /\ w.channel  -> AcquireAip(p, c)
               [] w.op = "listen" /\ ~w.channel -> Record(p)
  BY <1>1 DEF Resolve
<1>6. Waiting(app) => rest = {}
  BY <1>4 DEF Waiting
<1> HIDE DEF rest
<1>7. /\ p \in AppRecord /\ SameTimers(app, p) /\ p.waits = rest
      /\ p.state = app.state /\ p.puller = app.puller /\ p.held = app.held /\ p.aip = app.aip
      /\ p.id = app.id /\ p.audio = app.audio /\ p.kept = app.kept
      /\ p.expect = app.expect /\ p.front = app.front /\ p.online = app.online
      /\ p.current = app.current /\ p.stream = app.stream /\ p.asked = app.asked
  BY <1>3, <1>4 DEF AppRecord, SameTimers
<1> HIDE DEF p
<1>8. Sound(p)
  BY <1>7 DEF DialogInv, Sound, Voiced, SameTimers
<1>9. calm' => calm /\ CalmApp(app) /\ Waiting(app)
  BY <1>2, <1>4 DEF DialogInv, CalmApp, Settled
<1>10. calm' => CalmApp(p) /\ p.waits = {}
  <2> SUFFICES ASSUME calm' PROVE CalmApp(p) /\ p.waits = {}
    OBVIOUS
  <2>1. p.waits = {}
    BY <1>6, <1>7, <1>9
  <2>2. Timed(p) /\ Numbered(p) /\ Heard(p) /\ p.aip # "BACKGROUND"
    BY <1>7, <1>9 DEF CalmApp, Settled, Timed, Numbered, Heard, SameTimers
  <2>3. Silent(p) /\ Kept(p)
    BY <1>7, <1>9 DEF CalmApp, Silent, Kept
  <2> QED BY <2>1, <2>2, <2>3 DEF CalmApp, Settled
<1>11. CASE w.op = "text"
  <2> DEFINE b == [p EXCEPT !.asked = p.asked \cup {w.id}]
  <2>1. app' = IF p.online THEN b ELSE p
    BY <1>5, <1>11 DEF RequestText
  <2>2. w.id \in Id
    BY <1>4 DEF Wait
  <2>3. /\ b \in AppRecord /\ SameTimers(p, b) /\ b.waits = p.waits
        /\ b.state = p.state /\ b.puller = p.puller /\ b.held = p.held /\ b.aip = p.aip
        /\ b.id = p.id /\ b.audio = p.audio /\ b.kept = p.kept
        /\ b.expect = p.expect /\ b.front = p.front /\ b.online = p.online
        /\ b.current = p.current /\ b.stream = p.stream /\ b.asked = p.asked \cup {w.id}
    BY <1>7, <2>2 DEF AppRecord, SameTimers
  <2> HIDE DEF b
  <2>4. Sound(b)
    BY <1>8, <2>3 DEF Sound, Voiced, SameTimers
  <2>5. ASSUME calm' PROVE CalmApp(b) /\ PhaseOf(p) = PhaseOf(app) /\ PhaseOf(b) = PhaseOf(app)
    <3>1. ~Pending(app)
      BY <1>4, <1>9, <1>11, <2>5 DEF Waiting, Pending
    <3>2. ~Pending(p) /\ ~Pending(b)
      BY <1>10, <2>3, <2>5 DEF Pending
    <3>3. PhaseOf(p) = PhaseOf(app) /\ PhaseOf(b) = PhaseOf(app)
      BY <1>7, <2>3, <3>1, <3>2 DEF PhaseOf
    <3>4. w.id = app.id /\ app.id # 0 /\ app.id \in Nat
      BY <1>4, <1>9, <1>11, <2>5, <1>3, RecognizerAssumption DEF Waiting, AppRecord, Id
    <3>5. Numbered(b)
      BY <1>7, <1>10, <2>3, <2>5, <3>4 DEF CalmApp, Settled, Numbered
    <3>6. Timed(b) /\ Heard(b) /\ Silent(b) /\ Kept(b)
      BY <1>10, <2>3, <2>5 DEF CalmApp, Settled, Timed, Heard, Silent, Kept, SameTimers
    <3> QED BY <1>10, <2>3, <2>5, <3>3, <3>5, <3>6 DEF CalmApp, Settled
  <2> QED BY <1>2, <1>7, <1>8, <1>9, <1>10, <2>1, <2>3, <2>4, <2>5 DEF GoodStep, Goes, DialogInv
<1>12. ASSUME w.op = "listen", calm'
       PROVE  /\ p.online /\ p.state = "idle" /\ p.audio = p.id /\ p.id # 0 /\ p.expect # p.id
              /\ PhaseOf(app) = "starting"
  <2>1. PhaseOf(app) = "starting"
    <3>1. Pending(app)
      BY <1>4, <1>12 DEF Pending
    <3> QED BY <1>4, <1>9, <1>12, <3>1 DEF PhaseOf, Waiting
  <2> QED BY <1>2, <1>4, <1>7, <1>9, <1>12, <2>1 DEF Waiting
<1>13. CASE w.op = "listen" /\ w.channel
  <2>1. app' = AcquireAip(p, c)
    BY <1>5, <1>13
  <2>2. Sound(app')
    BY <1>2, <1>7, <1>8, <2>1, AcquireCalm
  <2>3. ASSUME calm' PROVE CalmApp(app') /\ Goes(app, app')
    BY <1>2, <1>7, <1>8, <1>10, <1>12, <1>13, <2>1, <2>3, AcquireCalm DEF Goes
  <2> QED BY <1>2, <1>9, <2>2, <2>3 DEF GoodStep, DialogInv
<1>14. CASE w.op = "listen" /\ ~w.channel
  <2>1. app' = Record(p)
    BY <1>5, <1>14
  <2>2. Sound(app')
    BY <1>7, <2>1, RecordRecords DEF Sound, Voiced
  <2>3. ASSUME calm' PROVE CalmApp(app') /\ Goes(app, app')
    BY <1>7, <1>10, <1>12, <1>14, <2>1, <2>3, RecordCalm DEF CalmApp, Goes
  <2> QED BY <1>2, <1>9, <2>2, <2>3 DEF GoodStep, DialogInv
<1> QED BY <1>4, <1>11, <1>13, <1>14 DEF Wait

LEMMA ThinkingTimeoutGood ==
  ASSUME DialogInv, NEW t \in Timer, ThinkingTimeout(t) PROVE GoodStep
<1> DEFINE p == [app EXCEPT !.timers = app.timers \ {t}]
<1>1. t \in app.timers /\ app' = Terminate(p) /\ calm' = calm
  BY DEF ThinkingTimeout, Becomes
<1>2. /\ p \in AppRecord /\ SameDialog(app, p) /\ p.timer = app.timer /\ p.timers = app.timers \ {t}
      /\ p.state = app.state /\ p.puller = app.puller /\ p.held = app.held /\ p.aip = app.aip
  BY DEF DialogInv, Sound, AppRecord, SameDialog
<1> HIDE DEF p
<1>3. Voiced(p)
  BY <1>2 DEF DialogInv, Sound, Voiced
<1>4. /\ Sound(app') /\ ~app'.puller /\ app'.state = "idle" /\ SameDialog(p, app')
      /\ Settled(p) => Settled(app')
  BY <1>1, <1>2, <1>3, TerminateCalm
<1>5. ASSUME calm PROVE CalmApp(app') /\ Goes(app, app')
  <2>1. CalmApp(app)
    BY <1>5 DEF DialogInv
  <2>2. app.state = "thinking" /\ app \in AppRecord
    BY <1>1, <2>1 DEF CalmApp, Settled, Timed, DialogInv, Sound
  <2>3. Timed(p) /\ Numbered(p) /\ Heard(p) /\ p.aip # "BACKGROUND"
    BY <1>2, <2>1 DEF CalmApp, Settled, Timed, Numbered, Heard, SameDialog
  <2>4. p.waits # {} => Waiting(p)
    BY <1>2, <2>1 DEF CalmApp, Settled, Waiting, SameDialog
  <2>5. Settled(app')
    BY <1>4, <2>3, <2>4 DEF Settled
  <2>6. Silent(app') /\ Kept(app')
    BY <1>2, <1>4, <2>1, <2>2 DEF CalmApp, Silent, Kept, SameDialog
  <2>7. ~Pending(app')
    <3>1. app'.waits = app.waits /\ (app.waits # {} => Waiting(app))
      BY <1>2, <1>4, <2>1 DEF SameDialog, CalmApp, Settled
    <3> QED BY <2>2, <3>1 DEF Waiting, Pending
  <2>8. PhaseOf(app') = "ended" /\ PhaseOf(app) = "thinking" /\ app'.id = app.id
    BY <1>2, <1>4, <2>2, <2>7 DEF PhaseOf, SameDialog
  <2> QED BY <2>5, <2>6, <2>8 DEF CalmApp, Goes
<1> QED BY <1>1, <1>4, <1>5 DEF GoodStep, DialogInv

\* The end of the voice: the microphone is off at both ends, and the timer runs.
LEMMA GetStopCaptureGood ==
  ASSUME DialogInv, NEW i \in Id, NEW last \in BOOLEAN, GetStopCapture(i, last) PROVE GoodStep
<1> DEFINE p == [[app EXCEPT !.stream = 0] EXCEPT !.puller = FALSE]
           q == IF p.held THEN ReleaseAip(p) ELSE p
           r == [q EXCEPT !.state = "thinking"]
           h == StartTimer(r)
<1>1. /\ i \in app.asked /\ app.timers # Timer
      /\ Message(i, last, h) /\ calm' = (calm /\ (WillDrop(app, i) \/ i = app.stream))
  BY DEF GetStopCapture, TimerFree, Calmly, StopCapture, CloseVoice
<1>2. /\ p \in AppRecord /\ SameTimers(app, p) /\ p.stream = 0 /\ ~p.puller
      /\ p.state = app.state /\ p.held = app.held /\ p.aip = app.aip /\ p.waits = app.waits
      /\ p.id = app.id /\ p.audio = app.audio /\ p.kept = app.kept /\ p.expect = app.expect
      /\ p.front = app.front /\ p.online = app.online /\ p.current = app.current /\ p.asked = app.asked
  BY ZeroIsId DEF DialogInv, Sound, AppRecord, SameTimers
<1> HIDE DEF p
<1>3. /\ q \in AppRecord /\ SameDialog(p, q) /\ SameTimers(p, q) /\ ~q.puller
      /\ q.aip \in {p.aip, "NONE"}
  BY <1>2, ReleaseReleases DEF SameDialog, SameTimers
<1> HIDE DEF q
<1>4. /\ r \in AppRecord /\ SameDialog(q, r) /\ SameTimers(q, r) /\ ~r.puller
      /\ r.aip = q.aip /\ r.state = "thinking"
  BY <1>3 DEF AppRecord, SameDialog, SameTimers
<1> HIDE DEF r
<1>5. r.timers # Timer
  BY <1>1, <1>2, <1>3, <1>4 DEF SameTimers
<1>6. /\ h \in AppRecord /\ SameDialog(r, h) /\ h.state = r.state /\ h.aip = r.aip
      /\ h.puller = r.puller /\ h.timer \in h.timers /\ h.timers = r.timers \cup {h.timer}
  BY <1>4, <1>5, StartTimerStarts
<1> HIDE DEF h
<1>7. Sound(h)
  BY <1>4, <1>6 DEF Sound, Voiced
<1>8. ASSUME CalmApp(app), i = app.stream PROVE CalmApp(h) /\ Goes(app, h)
  <2>1. app.state = "record" /\ app.id \in app.asked
    BY <1>1, <1>8 DEF CalmApp, Settled, Silent, Numbered, Waiting
  <2>2. app.waits = {}
    BY <1>8, <2>1 DEF CalmApp, Settled, Waiting
  <2>3. /\ h.waits = app.waits /\ h.asked = app.asked /\ h.id = app.id /\ h.expect = app.expect
        /\ h.kept = app.kept /\ h.front = app.front /\ h.stream = 0
    BY <1>2, <1>3, <1>4, <1>6 DEF SameDialog
  <2>4. Timed(h)
    BY <1>2, <1>3, <1>4, <1>6, <1>8, <2>1 DEF CalmApp, Settled, Timed, SameTimers
  <2>5. h.aip # "BACKGROUND"
    BY <1>2, <1>3, <1>4, <1>6, <1>8 DEF CalmApp, Settled
  <2>6. Numbered(h) /\ Heard(h) /\ Silent(h) /\ Kept(h)
    BY <1>4, <1>6, <1>8, <2>3 DEF CalmApp, Settled, Numbered, Heard, Silent, Kept
  <2>7. PhaseOf(app) \in {"listening", "deaf"} /\ PhaseOf(h) = "thinking"
    BY <1>4, <1>6, <2>1 DEF PhaseOf, DialogInv, Sound, AppRecord
  <2> QED BY <2>2, <2>3, <2>4, <2>5, <2>6, <2>7 DEF CalmApp, Settled, Goes
<1> QED BY <1>1, <1>7, <1>8, MessageCalm DEF GoodStep, DialogInv

LEMMA GetSpeechGood ==
  ASSUME DialogInv, NEW i \in Id, NEW last \in BOOLEAN, GetSpeech(i, last) PROVE GoodStep
<1> PICK parallel \in BOOLEAN : Message(i, last, Speak(app, i, parallel))
  BY DEF GetSpeech
<1> DEFINE p == IF parallel THEN app ELSE [app EXCEPT !.dialog = i]
           h == ComeForward(p, "TTS")
<1>1. /\ last => i \in app.asked
      /\ Message(i, last, h) /\ calm' = (calm /\ (WillDrop(app, i) \/ app.aip # "FOREGROUND"))
  BY DEF GetSpeech, Speak, Calmly
<1>2. /\ p \in AppRecord /\ SameRecording(app, p) /\ p.aip = app.aip /\ p.front = app.front
      /\ p.kept = app.kept /\ p.expect = app.expect
  <2>1. CASE parallel
    BY <2>1 DEF DialogInv, Sound, SameRecording
  <2>2. CASE ~parallel
    BY <2>2 DEF DialogInv, Sound, AppRecord, SameRecording
  <2> QED BY <2>1, <2>2
<1> HIDE DEF p
<1>3. /\ Sound(p) /\ PhaseOf(p) = PhaseOf(app) /\ p.id = app.id
      /\ CalmApp(app) => CalmApp(p)
  BY <1>2, SameRecordingCalm DEF DialogInv, Sound, CalmApp, Settled, Kept, SameRecording
<1>4. /\ Sound(h) /\ h.id = p.id /\ PhaseOf(h) = PhaseOf(p)
      /\ CalmApp(p) /\ p.aip # "FOREGROUND" => CalmApp(h)
  BY <1>3, ComeForwardCalm
<1> HIDE DEF h
<1>5. calm' => calm /\ CalmApp(app) /\ (~WillDrop(app, i) => CalmApp(h) /\ Goes(app, h))
  BY <1>1, <1>2, <1>3, <1>4 DEF DialogInv, Goes
<1> QED BY <1>1, <1>4, <1>5, MessageCalm DEF GoodStep, DialogInv

LEMMA GetPlaybackGood ==
  ASSUME DialogInv, NEW i \in Id, NEW last \in BOOLEAN, GetPlayback(i, last) PROVE GoodStep
<1> DEFINE h == [app EXCEPT !.kept = TRUE]
<1>1. /\ i \in app.asked
      /\ Message(i, last, h) /\ calm' = (calm /\ (app.front = "TTS" \/ WillDrop(app, i)))
  BY DEF GetPlayback, Keep, Calmly
<1>2. /\ h \in AppRecord /\ SameRecording(app, h) /\ h.aip = app.aip /\ h.front = app.front
      /\ h.expect = app.expect
  BY DEF DialogInv, Sound, AppRecord, SameRecording
<1> HIDE DEF h
<1>3. /\ Sound(h) /\ PhaseOf(h) = PhaseOf(app) /\ h.id = app.id
      /\ CalmApp(app) /\ app.front = "TTS" => CalmApp(h)
  BY <1>2, SameRecordingCalm DEF DialogInv, Sound, CalmApp, Settled, Kept, SameRecording
<1>4. calm' => calm /\ CalmApp(app) /\ (~WillDrop(app, i) => CalmApp(h) /\ Goes(app, h))
  BY <1>1, <1>3 DEF DialogInv, Goes
<1> QED BY <1>1, <1>3, <1>4, MessageCalm DEF GoodStep, DialogInv

LEMMA GetExpectReplyGood ==
  ASSUME DialogInv, NEW i \in Id, NEW last \in BOOLEAN, GetExpectReply(i, last) PROVE GoodStep
<1> PICK c \in BOOLEAN : Message(i, last, Expect(app, i, c))
  BY DEF GetExpectReply
<1> DEFINE h == Expect(app, i, c)
<1>1. /\ i \in app.asked /\ app.id < MaxDialogs
      /\ calm' = (calm /\ (WillDrop(app, i) \/ (i = app.dialog => app.front = "TTS")))
  BY DEF GetExpectReply, Rooms, Calmly
<1>2. app \in AppRecord /\ Sound(app)
  BY DEF DialogInv, Sound
<1>3. calm' => calm /\ CalmApp(app)
  BY <1>1 DEF DialogInv
<1>4. ASSUME CalmApp(app), i = app.id PROVE app.waits = {}
  BY <1>1, <1>4 DEF CalmApp, Settled, Waiting
<1>5. Sound(h) /\ (CalmApp(app) /\ (i = app.dialog => app.front = "TTS") => CalmApp(h) /\ Goes(app, h))
  <2>1. CASE i = app.dialog
    <3> DEFINE b == [app EXCEPT !.expect = i]
    <3>1. h = b
      BY <2>1 DEF Expect
    <3>2. /\ b \in AppRecord /\ SameRecording(app, b) /\ SameTimers(app, b) /\ b.aip = app.aip
          /\ b.front = app.front /\ b.expect = i /\ b.kept = app.kept
      BY <1>2 DEF AppRecord, SameRecording, SameTimers
    <3> HIDE DEF b
    <3>3. Sound(b) /\ PhaseOf(b) = PhaseOf(app) /\ b.id = app.id
      BY <1>2, <3>2 DEF Sound, Voiced, SameRecording, PhaseOf, Pending
    <3>4. ASSUME CalmApp(app), app.front = "TTS" PROVE CalmApp(b)
      <4>1. i \in 1..app.id /\ app.id \in Nat
        BY <1>1, <1>2, <3>4, RecognizerAssumption DEF CalmApp, Settled, Numbered, AppRecord, Id
      <4>2. Numbered(b) /\ Timed(b) /\ Heard(b) /\ Silent(b) /\ Kept(b)
        BY <3>2, <3>4, <4>1 DEF CalmApp, Settled, Numbered, Timed, Heard, Silent, Kept, SameRecording
      <4>3. b.waits # {} => Waiting(b)
        BY <1>4, <3>2, <3>4 DEF CalmApp, Settled, Waiting, SameRecording
      <4> QED BY <3>2, <3>4, <4>2, <4>3 DEF CalmApp, Settled
    <3> QED BY <2>1, <3>1, <3>3, <3>4 DEF Goes
  <2>2. CASE i # app.dialog /\ i = app.id
    <3> DEFINE b == Recognize(app, c)
    <3>1. h = b
      BY <2>2 DEF Expect, ExpectReply
    <3>2. Sound(b) /\ b.id = app.id + 1
      BY <1>1, <1>2, RecognizeBegins
    <3>3. CalmApp(app) => CalmApp(b) /\ PhaseOf(b) = "starting"
      BY <1>1, <1>2, <1>4, <2>2, RecognizeCalm DEF CalmApp
    <3> HIDE DEF b
    <3> QED BY <3>1, <3>2, <3>3 DEF Goes
  <2>3. CASE i # app.dialog /\ i # app.id
    <3>1. h = app
      BY <2>3 DEF Expect, ExpectReply
    <3>2. Goes(app, app)
      BY DEF Goes
    <3> QED BY <1>2, <3>1, <3>2
  <2> QED BY <2>1, <2>2, <2>3
<1>6. Message(i, last, h)
  OBVIOUS
<1> HIDE DEF h
<1> QED BY <1>1, <1>2, <1>3, <1>5, <1>6, MessageCalm DEF GoodStep, DialogInv

LEMMA GetOtherGood ==
  ASSUME DialogInv, NEW i \in Id, NEW last \in BOOLEAN, GetOther(i, last) PROVE GoodStep
<1>1. i \in app.asked /\ Message(i, last, app) /\ calm' = calm
  BY DEF GetOther
<1> QED BY <1>1, MessageCalm DEF GoodStep, DialogInv, Goes

LEMMA SpeechEndsGood ==
  ASSUME DialogInv, SpeechEnds PROVE GoodStep
<1> PICK c \in BOOLEAN : app' = PromoteAip(SpeechOver([app EXCEPT !.front = "none"], c))
  BY DEF SpeechEnds, Becomes
<1> DEFINE f == [app EXCEPT !.front = "none"]
           s == SpeechOver(f, c)
<1>1. app' = PromoteAip(s) /\ calm' = calm /\ (app.expect # 0 => app.id < MaxDialogs)
  BY DEF SpeechEnds, Rooms
<1>2. /\ f \in AppRecord /\ SameRecording(app, f) /\ f.aip = app.aip
      /\ f.expect = app.expect /\ f.kept = app.kept
  BY DEF DialogInv, Sound, AppRecord, SameRecording
<1> HIDE DEF f
<1>3. /\ Sound(f) /\ f.id = app.id /\ PhaseOf(f) = PhaseOf(app)
      /\ CalmApp(app) => Settled(f) /\ Silent(f)
  BY <1>2, SameRecordingCalm DEF DialogInv, Sound, CalmApp, Settled, SameRecording
<1>4. /\ Sound(s) /\ s.expect = 0 /\ ~s.kept
      /\ Settled(f) /\ Silent(f) => Settled(s) /\ Silent(s) /\ Goes(f, s)
  BY <1>1, <1>2, <1>3, SpeechOverCalm
<1> HIDE DEF s
<1>5. Sound(app') /\ (s.aip # "BACKGROUND" => app' = s)
  BY <1>1, <1>4, PromotePromotes
<1>6. ASSUME calm PROVE CalmApp(app') /\ Goes(app, app')
  <2>1. Settled(s) /\ Silent(s) /\ Goes(f, s) /\ app' = s
    BY <1>3, <1>4, <1>5, <1>6 DEF DialogInv, Settled
  <2>2. Kept(s)
    BY <1>4 DEF Kept
  <2> QED BY <1>3, <2>1, <2>2 DEF CalmApp, Goes
<1> QED BY <1>1, <1>5, <1>6 DEF GoodStep, DialogInv

LEMMA LocalSoundGood ==
  ASSUME DialogInv, LocalSound PROVE GoodStep
<1> DEFINE b == ComeForward(app, "LOCAL")
<1>1. app' = b /\ app.front = "none" /\ calm' = (calm /\ app.aip # "FOREGROUND")
  BY DEF LocalSound, Becomes, Calmly
<1>2. /\ Sound(b) /\ b.id = app.id /\ PhaseOf(b) = PhaseOf(app)
      /\ CalmApp(app) /\ app.aip # "FOREGROUND" => CalmApp(b)
  BY <1>1, ComeForwardCalm DEF DialogInv
<1> HIDE DEF b
<1> QED BY <1>1, <1>2 DEF GoodStep, Goes, DialogInv

LEMMA LocalSoundEndsGood ==
  ASSUME DialogInv, LocalSoundEnds PROVE GoodStep
<1> DEFINE f == [app EXCEPT !.front = "none"]
<1>1. app' = PromoteAip(f) /\ calm' = calm /\ app.front = "LOCAL"
  BY DEF LocalSoundEnds, Becomes
<1>2. /\ f \in AppRecord /\ SameRecording(app, f) /\ f.aip = app.aip
      /\ f.expect = app.expect /\ f.kept = app.kept
  BY DEF DialogInv, Sound, AppRecord, SameRecording
<1> HIDE DEF f
<1>3. /\ Sound(f) /\ f.id = app.id /\ PhaseOf(f) = PhaseOf(app)
      /\ CalmApp(app) => Settled(f) /\ Silent(f)
  BY <1>2, SameRecordingCalm DEF DialogInv, Sound, CalmApp, Settled, SameRecording
<1>4. Sound(app') /\ (f.aip # "BACKGROUND" => app' = f)
  BY <1>1, <1>3, PromotePromotes
<1>5. ASSUME calm PROVE CalmApp(app') /\ Goes(app, app')
  <2>1. CalmApp(app) /\ Settled(f) /\ Silent(f) /\ app' = f
    BY <1>3, <1>4, <1>5 DEF DialogInv, Settled
  <2>2. Kept(f)
    BY <1>1, <1>2, <2>1 DEF CalmApp, Kept
  <2> QED BY <1>3, <2>1, <2>2 DEF CalmApp, Goes
<1> QED BY <1>1, <1>4, <1>5 DEF GoodStep, DialogInv

\* The microphone is lost: a dialog that listens is deaf from then on.
LEMMA AipTakenGood ==
  ASSUME DialogInv, AipTaken PROVE GoodStep
<1> DEFINE b == ReleaseAip(app)
<1>1. app' = b /\ calm' = calm
  BY DEF AipTaken, Becomes
<1>2. /\ Sound(b) /\ b.state = app.state /\ SameDialog(app, b) /\ (b.puller => app.puller)
      /\ CalmApp(app) => CalmApp(b)
  BY ReleaseCalm DEF DialogInv
<1> HIDE DEF b
<1>3. Goes(app, b)
  <2>1. b.id = app.id /\ (Pending(b) <=> Pending(app))
    BY <1>2 DEF SameDialog, Pending
  <2>2. app.puller \in BOOLEAN /\ b.puller \in BOOLEAN
    BY <1>2 DEF DialogInv, Sound, AppRecord
  <2>3. PhaseOf(b) = PhaseOf(app) \/ (PhaseOf(app) = "listening" /\ PhaseOf(b) = "deaf")
    BY <1>2, <2>1, <2>2 DEF PhaseOf
  <2> QED BY <2>1, <2>3 DEF Goes
<1> QED BY <1>1, <1>2, <1>3 DEF GoodStep, DialogInv

LEMMA ConnectedGood ==
  ASSUME DialogInv, Connected PROVE GoodStep
<1> DEFINE b == [app EXCEPT !.online = TRUE]
<1>1. app' = b /\ calm' = calm
  BY DEF Connected, Becomes
<1>2. /\ b \in AppRecord /\ b.online /\ SameTimers(app, b) /\ b.waits = app.waits
      /\ b.state = app.state /\ b.puller = app.puller /\ b.held = app.held /\ b.aip = app.aip
      /\ b.id = app.id /\ b.audio = app.audio /\ b.kept = app.kept /\ b.expect = app.expect
      /\ b.front = app.front /\ b.current = app.current /\ b.stream = app.stream /\ b.asked = app.asked
  BY DEF DialogInv, Sound, AppRecord, SameTimers
<1> HIDE DEF b
<1>3. Sound(b) /\ PhaseOf(b) = PhaseOf(app)
  BY <1>2 DEF DialogInv, Sound, Voiced, PhaseOf, Pending, SameTimers
<1>4. ASSUME CalmApp(app) PROVE CalmApp(b)
  <2>1. Timed(b) /\ Numbered(b) /\ Heard(b) /\ b.aip # "BACKGROUND"
    BY <1>2, <1>4 DEF CalmApp, Settled, Timed, Numbered, Heard, SameTimers
  <2>2. b.waits # {} => Waiting(b)
    BY <1>2, <1>4 DEF CalmApp, Settled, Waiting
  <2>3. Silent(b) /\ Kept(b)
    BY <1>2, <1>4 DEF CalmApp, Silent, Kept
  <2> QED BY <2>1, <2>2, <2>3 DEF CalmApp, Settled
<1> QED BY <1>1, <1>2, <1>3, <1>4 DEF GoodStep, Goes, DialogInv

\* The connection is lost, and with it whatever the server had to say.
LEMMA DisconnectedGood ==
  ASSUME DialogInv, Disconnected PROVE GoodStep
<1> DEFINE d == [app EXCEPT !.online = FALSE, !.current = 0, !.stream = 0, !.asked = {}, !.voices = {}]
           t == Terminate(d)
           b == [t EXCEPT !.kept = FALSE]
<1>1. app' = b /\ calm' = calm
  BY DEF Disconnected, Becomes, Disconnect
<1>2. /\ d \in AppRecord /\ d.stream = 0 /\ d.asked = {} /\ SameTimers(app, d)
      /\ d.state = app.state /\ d.puller = app.puller /\ d.held = app.held /\ d.aip = app.aip
      /\ d.id = app.id /\ d.audio = app.audio /\ d.waits = app.waits
      /\ d.expect = app.expect /\ d.front = app.front
  BY ZeroIsId DEF DialogInv, Sound, AppRecord, SameTimers
<1> HIDE DEF d
<1>3. Voiced(d)
  BY <1>2 DEF DialogInv, Sound, Voiced
<1>4. /\ Sound(t) /\ ~t.puller /\ t.state = "idle" /\ SameDialog(d, t)
      /\ t.timers = IF d.state = "thinking" THEN d.timers \ {d.timer} ELSE d.timers
      /\ t.aip \in {d.aip, "NONE"}
  BY <1>2, <1>3, TerminateCalm, TerminateEnds
<1> HIDE DEF t
<1>5. /\ b \in AppRecord /\ SameRecording(t, b) /\ ~b.kept /\ b.aip = t.aip
      /\ b.expect = t.expect /\ b.front = t.front
  BY <1>4 DEF Sound, AppRecord, SameRecording
<1> HIDE DEF b
<1>6. Sound(b)
  BY <1>4, <1>5, SameRecordingCalm DEF Sound
<1>7. /\ b.state = "idle" /\ ~b.puller /\ b.stream = 0 /\ b.asked = {}
      /\ b.id = app.id /\ b.audio = app.audio /\ b.waits = app.waits
      /\ b.expect = app.expect /\ b.front = app.front /\ b.aip \in {app.aip, "NONE"}
      /\ b.timers = IF app.state = "thinking" THEN app.timers \ {app.timer} ELSE app.timers
  BY <1>2, <1>4, <1>5 DEF SameDialog, SameTimers, SameRecording
<1>8. ASSUME calm PROVE CalmApp(b) /\ Goes(app, b)
  <2>1. CalmApp(app) /\ app \in AppRecord
    BY <1>8 DEF DialogInv, Sound
  <2>2. Timed(b) /\ Numbered(b) /\ Heard(b) /\ b.aip # "BACKGROUND"
    BY <1>7, <2>1 DEF CalmApp, Settled, Timed, Numbered, Heard
  <2>3. b.waits # {} => Waiting(b)
    BY <1>7, <2>1 DEF CalmApp, Settled, Waiting
  <2>4. Silent(b) /\ Kept(b)
    BY <1>5, <1>7, <2>1 DEF CalmApp, Silent, Kept
  <2>5. Pending(b) <=> Pending(app)
    BY <1>7 DEF Pending
  <2>6. CASE app.state = "idle"
    BY <1>7, <2>2, <2>3, <2>4, <2>5, <2>6 DEF CalmApp, Settled, Goes, PhaseOf
  <2>7. CASE app.state # "idle"
    <3>1. ~Pending(app)
      BY <2>1, <2>7 DEF CalmApp, Settled, Waiting, Pending
    <3>2. PhaseOf(b) = "ended" /\ PhaseOf(app) \in {"listening", "deaf", "thinking"}
      BY <1>7, <2>1, <2>5, <2>7, <3>1 DEF PhaseOf, AppRecord
    <3> QED BY <1>7, <2>2, <2>3, <2>4, <3>2 DEF CalmApp, Settled, Goes
  <2> QED BY <2>6, <2>7
<1> QED BY <1>1, <1>6, <1>8 DEF GoodStep, DialogInv

-------------------------------------------------------------------------------
(***************************************************************************)
(* The invariant, and what follows from it.                                *)
(***************************************************************************)
\* Nothing has happened yet.
LEMMA InitGood ==
  Init => DialogInv
<1> SUFFICES ASSUME Init PROVE DialogInv
  OBVIOUS
<1>1. app = AppStart /\ calm = TRUE
  BY DEF Init
<1>2. AppStart \in AppRecord
  <2>1. 0 \in Id /\ {} \in SUBSET Wait /\ {} \in SUBSET Id /\ {} \in SUBSET Timer
    BY ZeroIsId
  <2> QED BY <2>1 DEF AppStart, AppRecord
<1>3. Sound(app) /\ CalmApp(app)
  BY <1>1, <1>2 DEF AppStart, Sound, Voiced, CalmApp, Settled, Timed, Numbered, Heard, Silent, Kept
<1> QED BY <1>1, <1>3 DEF DialogInv

\* Every step is a good one.
LEMMA NextGood ==
  ASSUME DialogInv, Next PROVE GoodStep
<1>1. CASE Wakeup \/ PlayButton \/ Context
  BY <1>1, WakeupGood, PlayButtonGood, ContextGood
<1>2. CASE \E t \in Timer : ThinkingTimeout(t)
  BY <1>2, ThinkingTimeoutGood
<1>3. CASE Server
  BY <1>3, GetStopCaptureGood, GetSpeechGood, GetPlaybackGood, GetExpectReplyGood, GetOtherGood
     DEF Server
<1>4. CASE SpeechEnds \/ LocalSound \/ LocalSoundEnds \/ AipTaken
  BY <1>4, SpeechEndsGood, LocalSoundGood, LocalSoundEndsGood, AipTakenGood
<1>5. CASE Connected \/ Disconnected
  BY <1>5, ConnectedGood, DisconnectedGood
<1> QED BY <1>1, <1>2, <1>3, <1>4, <1>5 DEF Next

\* The invariant holds in every state.
LEMMA InvHolds ==
  Spec => []DialogInv
<1>1. DialogInv /\ [Next]_vars => DialogInv'
  <2> SUFFICES ASSUME DialogInv, [Next]_vars PROVE DialogInv'
    OBVIOUS
  <2>1. CASE Next
    BY <2>1, NextGood DEF GoodStep, DialogInv
  <2>2. CASE UNCHANGED vars
    BY <2>2 DEF vars, DialogInv, Sound, Voiced, CalmApp, Settled, Timed, Numbered, Heard, Silent, Kept, Waiting
  <2> QED BY <2>1, <2>2
<1> QED BY InitGood, <1>1, PTL DEF Spec

\* The application's record has its type at all times.
THEOREM TypeCorrect ==
  Spec => []TypeOK
<1>1. DialogInv => TypeOK
  BY DEF DialogInv, Sound, TypeOK
<1> QED BY InvHolds, <1>1, PTL

\* The microphone is sent to the server only while a recording is on, which
\* holds the channel: whatever ends a recording stops the puller of audio.js.
THEOREM MicrophoneOff ==
  Spec => []VoiceOnlyWhenRecording
<1>1. DialogInv => VoiceOnlyWhenRecording
  BY DEF DialogInv, Sound, Voiced, VoiceOnlyWhenRecording
<1> QED BY InvHolds, <1>1, PTL

\* A dialog that thinks has a timer running that will end it, even where
\* stop_capture has left others running.
THEOREM ThinkingTimed ==
  Spec => []ThinkingIsTimed
<1>1. DialogInv => ThinkingIsTimed
  BY DEF DialogInv, Sound, ThinkingIsTimed
<1> QED BY InvHolds, <1>1, PTL

\* Once its dialog is over, thinkingTimeout does not fire into the next one.
THEOREM TimersCleared ==
  Spec => []NoStrayTimer
<1>1. DialogInv => NoStrayTimer
  BY DEF DialogInv, CalmApp, Settled, Timed, NoStrayTimer
<1> QED BY InvHolds, <1>1, PTL

\* The server hears what is recorded as the present request, whose answers
\* _willDrop lets through.
THEOREM RecordingHeard ==
  Spec => []RecordingIsHeard
<1>1. DialogInv => RecordingIsHeard
  BY DEF DialogInv, CalmApp, Settled, Heard, RecordingIsHeard
<1> QED BY InvHolds, <1>1, PTL

\* A playback kept back and an expected reply have a speech to wait for.
THEOREM KeptHasSpeech ==
  Spec => []KeptForSpeech
<1>1. DialogInv => KeptForSpeech
  BY DEF DialogInv, CalmApp, Kept, KeptForSpeech
<1> QED BY InvHolds, <1>1, PTL

\* The application's dialogs are those of DialogPhases: each listens, thinks
\* and ends once, in this order, while the code's assumptions hold.
THEOREM DialogImplementsPhases ==
  Spec => ImplementsPhases
<1> DEFINE phase == IF calm THEN PhaseOf(app) ELSE "disturbed"
           number == IF calm THEN app.id ELSE 0
<1>1. Init => Phases!Init
  <2> SUFFICES ASSUME Init PROVE Phases!Init
    OBVIOUS
  <2>1. app = AppStart /\ calm
    BY DEF Init
  <2>2. AppStart.waits = {} /\ AppStart.id = 0 /\ AppStart.state = "idle"
    BY DEF AppStart
  <2>3. ~Pending(app)
    BY <2>1, <2>2 DEF Pending
  <2> QED BY <2>1, <2>2, <2>3 DEF Phases!Init, PhaseOf
<1>2. DialogInv /\ [Next]_vars => [Phases!Next]_<<phase, number>>
  <2> SUFFICES ASSUME DialogInv, [Next]_vars PROVE [Phases!Next]_<<phase, number>>
    OBVIOUS
  <2>1. CASE UNCHANGED vars
    BY <2>1 DEF vars, PhaseOf, Pending
  <2>2. CASE Next /\ calm'
    <3>1. calm /\ Goes(app, app')
      BY <2>2, NextGood DEF GoodStep
    <3>2. PhaseOf(app) # "disturbed"
      BY DEF PhaseOf, DialogInv, Sound, AppRecord
    <3>3. phase = PhaseOf(app) /\ phase' = PhaseOf(app') /\ number = app.id /\ number' = app'.id
      BY <2>2, <3>1
    <3> HIDE DEF phase, number
    <3>4. \/ number' = number /\ phase' = phase
          \/ number' = number + 1 /\ phase' \in {"starting", "thinking"}
          \/ number' = number /\ phase = "starting" /\ phase' = "listening"
          \/ number' = number /\ phase = "listening" /\ phase' = "deaf"
          \/ number' = number /\ phase \in {"listening", "deaf"} /\ phase' = "thinking"
          \/ number' = number /\ phase \in {"listening", "deaf", "thinking"} /\ phase' = "ended"
      BY <3>1, <3>3 DEF Goes
    <3> QED BY <3>2, <3>3, <3>4
            DEF Phases!Next, Phases!Start, Phases!Listens, Phases!LosesMicrophone, Phases!Thinks,
                Phases!Ends, phase, number
  <2>3. CASE Next /\ ~calm'
    <3>1. phase' = "disturbed" /\ number' = 0
      BY <2>3
    <3> QED BY <3>1 DEF Phases!Next, Phases!Disturbed
  <2> QED BY <2>1, <2>2, <2>3
<1> QED BY InvHolds, <1>1, <1>2, PTL DEF Spec, ImplementsPhases, Phases!Spec
=============================================================================
