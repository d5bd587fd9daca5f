------------------------ MODULE PlaybackProtocolProofs ------------------------
(***************************************************************************)
(* Proofs about what passes between a player of the application and the    *)
(* mediaplayer process, for any number of items, wherever they begin, with *)
(* streams that fail, hasty applications and reports in any order.  What   *)
(* breaks the promise is part of the steps, and remembered: up to then no  *)
(* item is skipped and what sounds is what the application believes to be  *)
(* playing, so that both together implement PlayedItems; and, up to then   *)
(* and as long as everything comes in its order, what the application says *)
(* it is playing is played.                                                *)
(***************************************************************************)
EXTENDS PlaybackProofs

-------------------------------------------------------------------------------
(***************************************************************************)
(* What is under way.                                                      *)
(***************************************************************************)
\* Something of S is in s, and nothing or one thing.
Has(s, S) == \E i \in 1..Len(s) : s[i] \in S
One(s, S) == \A i, j \in 1..Len(s) : s[i] \in S /\ s[j] \in S => i = j

Sources == {SetSource(i) : i \in Item}
Ending == {"stop", "finish"}

\* The notes the timer thread has not reported.
Untold == IF telling THEN Tail(notes) ELSE notes

StopIsLast == \A i \in 1..Len(Untold) : Untold[i] = "STOPED" => i = Len(Untold)

ErrorFree == ~Has(Untold, {"ERROR"}) /\ ~Has(reports, {"error"})

-------------------------------------------------------------------------------
(***************************************************************************)
(* The protocol.                                                           *)
(***************************************************************************)
\* The items wait in the order they were asked for, n being the last, after the present one and
\* those that are over; a stop that waits for its answer is one of an item somebody has stopped,
\* and not one of an item that is only asked for.
InLine(p, n) ==
  /\ p.item <= n
  /\ \A i \in 1..Len(p.wait) :
       /\ p.item < p.wait[i] /\ p.wait[i] <= n
       /\ \A j \in 1..Len(p.wait) : i < j => p.wait[i] < p.wait[j]
  /\ \A s \in p.over : s <= p.item /\ (p.playing # "null" => s < p.item)
  /\ p.stops \subseteq p.cut
  /\ \A s \in p.stops : s <= p.item /\ (p.playing = "asked" => s < p.item)
  /\ p.playing = "asked" => ~p.cancel

\* Nothing is left of the items that are over that could be taken for the next.
Clear ==
  /\ ~Has(reports, {"source"})
  /\ ~Has(reports, Ending)
  /\ ~Has(Untold, {"STOPED", "COMPLETE"})
  /\ stream = NoStream
  /\ stopTid # "running"

\* A process that has not stopped anything has not begun.
Untouched == status = "IDLE" /\ notes = <<>>

\* The player has nothing at the process, ...
Nothing ==
  /\ Clear
  /\ ~Has(cmds, Sources)
  /\ stopTid = "none" => Untouched /\ cmds = <<>>

\* ... has asked for an item, ...
Requested ==
  /\ Clear
  /\ cmds # <<>> /\ cmds[Len(cmds)] = SetSource(player.item) /\ One(cmds, Sources)
  /\ stopTid = "none" => Untouched /\ Len(cmds) = 1

\* ... or has an item there, which ends once, after it was heard or asked to stop, ...
ItemThere ==
  /\ ~Has(cmds, Sources)
  /\ One(reports, Ending)
  /\ IF stream = NoStream THEN stopTid = "done"
     ELSE /\ stream.item = player.item /\ stopTid # "done"
          /\ ~Has(Untold, {"STOPED"}) /\ ~Has(reports, Ending)
  /\ StopIsLast
  /\ Has(reports, Ending) => ~Has(Untold, {"STOPED", "COMPLETE"})
  /\ \/ Has(cmds, {Control("STOP")}) \/ stopTid = "running"
     \/ Has(Untold, {"STOPED", "COMPLETE"}) \/ Has(reports, Ending)
     => player.item \in heard \cup player.cut
  /\ stream.stage \in {"sounding", "ended"} => player.item \in heard

\* ... of which it is to be told the source id, ...
Identified ==
  /\ ItemThere
  /\ cmds = <<>>
  /\ Has(reports, {"source"}) /\ One(reports, {"source"})

\* ... or has been told.
AtProcess == ItemThere /\ ~Has(reports, {"source"})

Protocol ==
  /\ ErrorFree
  /\ InLine(player, directives)
  /\ player.over \subseteq heard \cup player.cut
  /\ player.playing = "null" => Nothing
  /\ player.playing = "asked" => Requested \/ Identified
  /\ player.playing = "known" => AtProcess

ProtocolInv == Calm => Protocol

-------------------------------------------------------------------------------
(***************************************************************************)
(* The protocol of a player that does not pause, told in order.            *)
(***************************************************************************)
Play == {Control("PLAY")}
Pauses == {Control("PAUSE"), Control("RESUME")}

\* What ended last is the last thing the process tells of.
AllTold ==
  /\ Untold = <<>>
  /\ telling => Head(notes) = "STOPED"
  /\ ~telling => ~mPlaying

\* The process is done with the items that are over.
Rested ==
  /\ status \in {"IDLE", "STOPPED"}
  /\ AllTold
  /\ ~Has(reports, {"play"})

\* A stream that has not been started yet: PLAY starts it, or the note that keeps its offset.
Fresh ==
  /\ stopTid = "none"
  /\ sourceId # 0
  /\ ~mPlaying
  /\ \A i \in 1..Len(notes) : notes[i] = "PREPARED"
  /\ stream.stage = "opening" => status \in {"PREPARING", "PLAYING"}
  /\ offset # 0 => stream.stage = "opening" \/ Has(notes, {"PREPARED"})

Paused == stream # NoStream /\ stream.paused

\* Only offsets are reported after an end.
EndIsLast == \A i, j \in 1..Len(reports) : reports[i] \in Ending /\ i < j => reports[j] = "offset"

\* An item that is to play, or plays, or has stopped.
Underway ==
  /\ \A i \in 1..Len(cmds) : cmds[i] \in Play => i = 1
  /\ Paused => Fresh \/ stopTid = "running"
  /\ stream = NoStream => status = "STOPPED" /\ (Has(Untold, {"STOPED"}) \/ Has(reports, Ending))
  /\ Has(reports, Ending) => AllTold /\ EndIsLast

\* A stream that is paused will be started, or closed.
Awaited == Paused /\ stopTid # "running" => Has(cmds, Play) \/ offset # 0

Steady ==
  /\ ~Has(cmds, Pauses) /\ ~Has(reports, {"pause"})
  /\ player.playing = "null" => Rested /\ player.state # "PLAYING"
  /\ player.playing = "asked" => IF cmds # <<>> THEN Rested ELSE Underway
  /\ player.playing = "known" => Underway /\ Awaited

SteadyInv == Calm /\ InOrder /\ VolDown(player) => Steady

-------------------------------------------------------------------------------
(***************************************************************************)
(* Sequences.                                                              *)
(***************************************************************************)
\* Something is added at the end.
LEMMA Appended ==
  ASSUME NEW T, NEW s \in Seq(T), NEW x \in T, NEW S
  PROVE  /\ Has(Append(s, x), S) <=> Has(s, S) \/ x \in S
         /\ One(s, S) /\ (x \in S => ~Has(s, S)) => One(Append(s, x), S)
<1>1. /\ Append(s, x) \in Seq(T) /\ Len(Append(s, x)) = Len(s) + 1 /\ Len(s) \in Nat
      /\ \A i \in 1..Len(s) : Append(s, x)[i] = s[i]
      /\ Append(s, x)[Len(s) + 1] = x
  BY AppendProperties
<1> DEFINE a == Append(s, x)
<1> HIDE DEF a
<1>2. \A i \in 1..Len(a) : i \in 1..Len(s) \/ (i = Len(s) + 1 /\ a[i] = x)
  BY <1>1 DEF a
<1>3. \A i \in 1..Len(s) : i \in 1..Len(a) /\ a[i] = s[i]
  BY <1>1 DEF a
<1>4. Len(s) + 1 \in 1..Len(a) /\ a[Len(s) + 1] = x
  BY <1>1 DEF a
<1>5. Has(a, S) <=> Has(s, S) \/ x \in S
  BY <1>2, <1>3, <1>4 DEF Has
<1>6. One(s, S) /\ (x \in S => ~Has(s, S)) => One(a, S)
  BY <1>2, <1>3 DEF Has, One
<1> QED BY <1>5, <1>6 DEF a

\* The element at place k is taken out.
Without(s, k) == SubSeq(s, 1, k - 1) \o SubSeq(s, k + 1, Len(s))

\* The elements before place k stay where they are, those after it move up.
LEMMA WithoutPlaces ==
  ASSUME NEW T, NEW s \in Seq(T), NEW k \in 1..Len(s)
  PROVE  /\ Without(s, k) \in Seq(T) /\ Len(Without(s, k)) = Len(s) - 1 /\ Len(s) \in Nat
         /\ \A i \in 1..(k - 1) : Without(s, k)[i] = s[i]
         /\ \A i \in k..(Len(s) - 1) : Without(s, k)[i] = s[i + 1]
<1> DEFINE a == SubSeq(s, 1, k - 1)
           b == SubSeq(s, k + 1, Len(s))
<1>1. Len(s) \in Nat /\ k \in Nat /\ 1 <= k /\ k <= Len(s)
  OBVIOUS
<1>2. a \in Seq(T) /\ Len(a) = k - 1 /\ \A i \in 1..(k - 1) : a[i] = s[i]
  BY <1>1, SubSeqProperties
<1>3. b \in Seq(T) /\ Len(b) = Len(s) - k /\ \A i \in 1..(Len(s) - k) : b[i] = s[i + k]
  BY <1>1, SubSeqProperties
<1>4. Without(s, k) = a \o b
  BY DEF Without
<1> HIDE DEF a, b
<1>5. /\ a \o b \in Seq(T) /\ Len(a \o b) = Len(s) - 1
      /\ \A i \in 1..(Len(s) - 1) : (a \o b)[i] = IF i <= k - 1 THEN a[i] ELSE b[i - (k - 1)]
  BY <1>1, <1>2, <1>3, ConcatProperties
<1>6. \A i \in 1..(k - 1) : (a \o b)[i] = s[i]
  BY <1>1, <1>2, <1>5
<1>7. ASSUME NEW i \in k..(Len(s) - 1) PROVE (a \o b)[i] = s[i + 1]
  <2>1. (a \o b)[i] = b[i - (k - 1)] /\ i - (k - 1) \in 1..(Len(s) - k)
    BY <1>1, <1>5
  <2> QED BY <1>1, <1>3, <2>1
<1> QED BY <1>1, <1>4, <1>5, <1>6, <1>7

\* What is in a sequence without one of its elements.
LEMMA TakenOut ==
  ASSUME NEW T, NEW s \in Seq(T), NEW k \in 1..Len(s), NEW S
  PROVE  /\ Has(Without(s, k), S) => Has(s, S)
         /\ Has(s, S) => Has(Without(s, k), S) \/ s[k] \in S
         /\ One(s, S) => One(Without(s, k), S)
         /\ One(s, S) /\ s[k] \in S => ~Has(Without(s, k), S)
<1> DEFINE w == Without(s, k)
           From(i) == IF i < k THEN i ELSE i + 1
           To(i) == IF i < k THEN i ELSE i - 1
<1>0. Len(s) \in Nat /\ k \in Nat /\ 1 <= k /\ k <= Len(s)
  OBVIOUS
<1>1. /\ Len(w) = Len(s) - 1
      /\ \A i \in 1..(k - 1) : w[i] = s[i]
      /\ \A i \in k..(Len(s) - 1) : w[i] = s[i + 1]
  BY WithoutPlaces
<1> HIDE DEF w
<1>2. ASSUME NEW i \in 1..Len(w) PROVE From(i) \in 1..Len(s) /\ w[i] = s[From(i)] /\ From(i) # k
  BY <1>0, <1>1
<1>3. ASSUME NEW i \in 1..Len(s), i # k PROVE To(i) \in 1..Len(w) /\ w[To(i)] = s[i]
  <2>1. CASE i < k
    BY <1>0, <1>1, <2>1
  <2>2. CASE i > k
    <3>1. i - 1 \in k..(Len(s) - 1) /\ (i - 1) + 1 = i /\ To(i) = i - 1
      BY <1>0, <2>2
    <3> QED BY <1>0, <1>1, <3>1
  <2> QED BY <1>0, <1>3, <2>1, <2>2
<1>4. \A i, j \in 1..Len(w) : From(i) = From(j) => i = j
  BY <1>0, <1>1
<1>5. \A i \in 1..Len(w) : From(i) \in 1..Len(s) /\ w[i] = s[From(i)] /\ From(i) # k
  BY <1>2
<1>6. \A i \in 1..Len(s) : i # k => To(i) \in 1..Len(w) /\ w[To(i)] = s[i]
  BY <1>3
<1> HIDE DEF From, To
<1>7. Has(w, S) => Has(s, S)
  BY <1>5 DEF Has
<1>8. Has(s, S) => Has(w, S) \/ s[k] \in S
  BY <1>6 DEF Has
<1>9. One(s, S) => One(w, S)
  BY <1>4, <1>5 DEF One
<1>10. One(s, S) /\ s[k] \in S => ~Has(w, S)
  BY <1>5 DEF One, Has
<1> QED BY <1>7, <1>8, <1>9, <1>10 DEF w

\* The first element is taken off.
LEMMA TakenOff ==
  ASSUME NEW T, NEW s \in Seq(T), s # <<>>, NEW S
  PROVE  /\ Tail(s) \in Seq(T) /\ Len(Tail(s)) = Len(s) - 1 /\ Len(s) \in Nat /\ Len(s) >= 1
         /\ \A i \in 1..Len(Tail(s)) : Tail(s)[i] = s[i + 1] /\ i + 1 \in 1..Len(s)
         /\ Has(Tail(s), S) => Has(s, S)
         /\ Has(s, S) => Has(Tail(s), S) \/ Head(s) \in S
         /\ Head(s) \in S => Has(s, S)
         /\ One(s, S) => One(Tail(s), S)
         /\ One(s, S) /\ Head(s) \in S => ~Has(Tail(s), S)
<1> DEFINE w == Tail(s)
<1>1. Len(s) \in Nat /\ Len(s) >= 1
  BY EmptySeq
<1>2. w \in Seq(T) /\ Len(w) = Len(s) - 1 /\ Head(s) = s[1] /\ \A i \in 1..Len(w) : w[i] = s[i + 1]
  BY HeadTailProperties
<1> HIDE DEF w
<1>3. \A i \in 1..Len(w) : i + 1 \in 1..Len(s) /\ w[i] = s[i + 1] /\ i + 1 # 1
  BY <1>1, <1>2
<1>4. \A i \in 1..Len(s) : i = 1 \/ (i - 1 \in 1..Len(w) /\ w[i - 1] = s[i])
  BY <1>1, <1>2
<1>5. 1 \in 1..Len(s)
  BY <1>1
<1>6. \A i, j \in 1..Len(w) : i + 1 = j + 1 => i = j
  BY <1>1, <1>2
<1>7. /\ Has(w, S) => Has(s, S)
      /\ Has(s, S) => Has(w, S) \/ Head(s) \in S
      /\ Head(s) \in S => Has(s, S)
  BY <1>2, <1>3, <1>4, <1>5 DEF Has
<1>8. One(s, S) => One(w, S)
  BY <1>3, <1>6 DEF One
<1>9. One(s, S) /\ Head(s) \in S => ~Has(w, S)
  BY <1>2, <1>3, <1>5 DEF One, Has
<1> QED BY <1>1, <1>2, <1>3, <1>7, <1>8, <1>9 DEF w

\* Two sequences, one after the other.
LEMMA Joined ==
  ASSUME NEW T, NEW s \in Seq(T), NEW t \in Seq(T), NEW S
  PROVE  Has(s \o t, S) <=> Has(s, S) \/ Has(t, S)
<1>1. /\ Len(s \o t) = Len(s) + Len(t) /\ Len(s) \in Nat /\ Len(t) \in Nat
      /\ \A i \in 1..(Len(s) + Len(t)) : (s \o t)[i] = IF i <= Len(s) THEN s[i] ELSE t[i - Len(s)]
  BY ConcatProperties
<1> DEFINE u == s \o t
<1> HIDE DEF u
<1>2. \A i \in 1..Len(u) : \/ i \in 1..Len(s) /\ u[i] = s[i]
                           \/ i - Len(s) \in 1..Len(t) /\ u[i] = t[i - Len(s)]
  BY <1>1 DEF u
<1>3. \A i \in 1..Len(s) : i \in 1..Len(u) /\ u[i] = s[i]
  BY <1>1 DEF u
<1>4. \A i \in 1..Len(t) : i + Len(s) \in 1..Len(u) /\ u[i + Len(s)] = t[i]
  <2> SUFFICES ASSUME NEW i \in 1..Len(t) PROVE i + Len(s) \in 1..Len(u) /\ u[i + Len(s)] = t[i]
    OBVIOUS
  <2>1. i + Len(s) \in 1..Len(u) /\ ~(i + Len(s) <= Len(s)) /\ (i + Len(s)) - Len(s) = i
    BY <1>1 DEF u
  <2> QED BY <1>1, <2>1 DEF u
<1>5. Has(u, S) <=> Has(s, S) \/ Has(t, S)
  BY <1>2, <1>3, <1>4 DEF Has
<1> QED BY <1>5 DEF u

-------------------------------------------------------------------------------
(***************************************************************************)
(* The process keeps the protocol.                                         *)
(***************************************************************************)
LEMMA UntoldTyped ==
  ASSUME TypeOK
  PROVE  Untold \in Seq(Note)
BY HeadTailProperties DEF TypeOK, ProcessTypeOK, Untold

\* A note is added.
LEMMA UntoldGrows ==
  ASSUME TypeOK, NEW n \in Note, notes' = Append(notes, n), telling' = telling
  PROVE  Untold' = Append(Untold, n)
<1>1. notes \in Seq(Note) /\ (telling => notes # <<>>)
  BY DEF TypeOK, ProcessTypeOK
<1>2. CASE ~telling
  BY <1>2 DEF Untold
<1>3. CASE telling
  <2> DEFINE a == Append(notes, n)
             t == Tail(notes)
  <2>1. /\ t \in Seq(Note) /\ Len(t) = Len(notes) - 1 /\ Len(notes) \in Nat /\ Len(notes) >= 1
        /\ \A i \in 1..Len(t) : t[i] = notes[i + 1]
    BY <1>1, <1>3, TakenOff
  <2>2. /\ a \in Seq(Note) /\ Len(a) = Len(notes) + 1 /\ a[Len(notes) + 1] = n
        /\ \A i \in 1..Len(notes) : a[i] = notes[i]
    BY <1>1, AppendProperties
  <2> HIDE DEF a
  <2>3. a # <<>>
    BY <2>1, <2>2
  <2> DEFINE r == Tail(a)
  <2>4. r \in Seq(Note) /\ Len(r) = Len(notes) /\ \A i \in 1..Len(notes) : r[i] = a[i + 1]
    BY <2>1, <2>2, <2>3, HeadTailProperties
  <2> DEFINE b == Append(t, n)
  <2> HIDE DEF t
  <2>5. /\ b \in Seq(Note) /\ Len(b) = Len(notes) /\ b[Len(notes)] = n
        /\ \A i \in 1..(Len(notes) - 1) : b[i] = notes[i + 1]
    BY <2>1, AppendProperties
  <2> HIDE DEF b, r
  <2>6. ASSUME NEW i \in 1..Len(notes) PROVE r[i] = b[i]
    <3>1. CASE i = Len(notes)
      BY <2>1, <2>2, <2>4, <2>5, <3>1
    <3>2. CASE i < Len(notes)
      <4>1. i \in 1..(Len(notes) - 1) /\ i + 1 \in 1..Len(notes)
        BY <2>1, <3>2
      <4> QED BY <2>2, <2>4, <2>5, <4>1
    <3> QED BY <2>1, <3>1, <3>2
  <2>7. r = b
    BY <2>1, <2>4, <2>5, <2>6, SeqEqual
  <2> QED BY <1>3, <2>7 DEF Untold, a, b, r, t
<1> QED BY <1>2, <1>3

\* The first note is reported; and ended, which the notes not yet reported do not see.
LEMMA UntoldShrinks ==
  ASSUME TypeOK
  PROVE  /\ Tell => Untold = notes /\ notes # <<>> /\ Untold' = Tail(notes)
         /\ Settle => Untold' = Untold
BY DEF TypeOK, ProcessTypeOK, Tell, Settle, Untold

\* A control command is read.
LEMMA ControlRead ==
  ASSUME TypeOK, NEW c, c # "SET_SOURCE", NextCommand(c)
  PROVE  /\ cmds # <<>> /\ cmds \in Seq(Command) /\ Head(cmds) \in Command /\ Head(cmds).op = c
         /\ Has(cmds', Sources) <=> Has(cmds, Sources)
         /\ One(cmds, Sources) => One(cmds', Sources)
         /\ \A S : Has(cmds', S) => Has(cmds, S)
         /\ c = "STOP" => Has(cmds, {Control("STOP")})
         /\ cmds[Len(cmds)] \in Sources =>
              cmds' # <<>> /\ cmds'[Len(cmds')] = cmds[Len(cmds)] /\ Len(cmds) # 1
<1>1. cmds # <<>> /\ cmds \in Seq(Command) /\ cmds' = Tail(cmds) /\ Head(cmds).op = c
  BY DEF NextCommand, TypeOK
<1>2. Head(cmds) \in Command /\ Head(cmds) = cmds[1]
  BY <1>1, HeadTailProperties
<1>3. Head(cmds) \notin Sources
  BY <1>1 DEF Sources, SetSource
<1>4. c = "STOP" => Head(cmds) = Control("STOP")
  BY <1>1, <1>2 DEF Command, Control
<1> HIDE DEF Command
<1>5. /\ Len(cmds') = Len(cmds) - 1 /\ Len(cmds) \in Nat /\ Len(cmds) >= 1
      /\ \A i \in 1..Len(cmds') : cmds'[i] = cmds[i + 1]
      /\ cmds' \in Seq(Command)
  BY <1>1, TakenOff
<1>6. ASSUME cmds[Len(cmds)] \in Sources
      PROVE  cmds' # <<>> /\ cmds'[Len(cmds')] = cmds[Len(cmds)] /\ Len(cmds) # 1
  <2>1. Len(cmds) # 1
    BY <1>2, <1>3, <1>6
  <2>2. Len(cmds') \in 1..Len(cmds') /\ Len(cmds') + 1 = Len(cmds)
    BY <1>5, <2>1
  <2> QED BY <1>5, <2>1, <2>2
<1>7. \A S : Has(cmds', S) => Has(cmds, S)
  BY <1>1, TakenOff
<1>8. /\ Has(cmds', Sources) <=> Has(cmds, Sources)
      /\ One(cmds, Sources) => One(cmds', Sources)
  BY <1>1, <1>3, TakenOff
<1>9. c = "STOP" => Has(cmds, {Control("STOP")})
  BY <1>1, <1>4, TakenOff
<1> QED BY <1>1, <1>2, <1>6, <1>7, <1>8, <1>9

\* A source is set: the player has asked for it, and is now to be told.
LEMMA SetSourceKeeps ==
  ASSUME TypeOK, Protocol, OnSetSource, UNCHANGED handlerVars
  PROVE  Protocol'
<1>1. /\ cmds # <<>> /\ cmds \in Seq(Command) /\ cmds' = Tail(cmds) /\ Head(cmds).op = "SET_SOURCE"
      /\ reports \in Seq(Report) /\ "source" \in Report
  BY DEF OnSetSource, NextCommand, TypeOK, Report
<1>2. Head(cmds) \in Sources /\ Head(cmds) = cmds[1]
  <2>1. Head(cmds) \in Command /\ Head(cmds) = cmds[1]
    BY <1>1, HeadTailProperties
  <2> QED BY <1>1, <2>1 DEF Command, Sources, SetSource
<1> HIDE DEF Command
<1>3. Has(cmds, Sources)
  BY <1>1, <1>2, TakenOff
<1>4. ~Identified
  <2>1. cmds = <<>> => FALSE
    BY <1>1
  <2> QED BY <2>1 DEF Identified
<1>5. player.playing = "asked" /\ Requested
  BY <1>3, <1>4 DEF Protocol, Nothing, AtProcess, ItemThere, TypeOK, HandlerTypeOK, PlayerRecord
<1>6. Len(cmds) \in Nat /\ Len(cmds) >= 1 /\ Len(cmds) \in 1..Len(cmds) /\ 1 \in 1..Len(cmds)
  BY <1>1, EmptySeq
<1>7. cmds' = <<>> /\ Head(cmds) = SetSource(player.item)
  <2>1. /\ Len(cmds') = Len(cmds) - 1 /\ cmds' \in Seq(Command)
        /\ \A i \in 1..Len(cmds') : cmds'[i] = cmds[i + 1]
    BY <1>1, TakenOff
  <2>2. Len(cmds) = 1
    <3>1. cmds[Len(cmds)] \in Sources => Len(cmds) = 1
      BY <1>2, <1>5, <1>6 DEF Requested, One
    <3>2. cmds[Len(cmds)] \in Command /\ cmds[Len(cmds)].op = "SET_SOURCE"
      BY <1>1, <1>5, <1>6 DEF Requested, SetSource
    <3> QED BY <3>1, <3>2 DEF Command, Sources, SetSource
  <2> QED BY <1>2, <1>5, <2>1, <2>2, EmptySeq DEF Requested
<1>8. Head(cmds).item = player.item /\ player.item # 0
  <2>1. PICK i \in Item : Head(cmds) = SetSource(i)
    BY <1>2 DEF Sources
  <2> QED BY <1>7, <2>1, IpcAssumption DEF SetSource, Item
<1>9. reports' = Append(reports, "source") /\ notes' = notes /\ telling' = telling /\ heard' = heard
  BY DEF OnSetSource
<1>10. player' = player /\ directives' = directives /\ Untold' = Untold
  BY <1>9 DEF handlerVars, Untold
<1>11. /\ Has(reports', {"source"}) /\ One(reports', {"source"})
       /\ ~Has(reports', Ending) /\ ~Has(reports', {"error"})
  <2>1. ~Has(reports, {"source"}) /\ ~Has(reports, Ending) /\ ~Has(reports, {"error"})
    BY <1>5 DEF Requested, Clear, Protocol, ErrorFree
  <2>2. One(reports, {"source"})
    BY <2>1 DEF Has, One
  <2>3. "source" \notin Ending
    BY DEF Ending
  <2>4. Has(reports', {"source"}) /\ ~Has(reports', Ending) /\ ~Has(reports', {"error"})
    BY <1>1, <1>9, <2>1, <2>3, Appended
  <2>5. One(reports', {"source"})
    BY <1>1, <1>9, <2>1, <2>2, Appended
  <2> QED BY <2>4, <2>5
<1>12. \/ stream' = NoStream /\ stopTid' = "done"
       \/ stream' # NoStream /\ stream'.item = player.item /\ stream'.stage = "opening" /\ stopTid' = "none"
  <2>1. PICK open \in MayBeOpen : Prepare(player.item, Sought(player.item, open))
    BY <1>8 DEF OnSetSource, SeekAndPrepare
  <2>2. stream = NoStream /\ stopTid # "running" /\ (stopTid = "none" => status = "IDLE")
    BY <1>5 DEF Requested, Clear, Untouched
  <2>3. Sought(player.item, open) = NoStream
    BY <2>2 DEF Sought, NoStream
  <2>4. CASE status \in {"IDLE", "STOPPED"}
    BY <1>8, <2>1, <2>4 DEF Prepare, NoStream
  <2>5. CASE status \notin {"IDLE", "STOPPED"}
    BY <2>1, <2>2, <2>3, <2>5 DEF Prepare, TypeOK, ProcessTypeOK
  <2> QED BY <2>4, <2>5
<1>13. \A S : ~Has(cmds', S)
  BY <1>7 DEF Has
<1>14. ~Has(Untold', {"STOPED", "COMPLETE"}) /\ ~Has(Untold', {"STOPED"})
  <2>1. ~Has(Untold, {"STOPED", "COMPLETE"})
    BY <1>5 DEF Requested, Clear
  <2> QED BY <1>10, <2>1 DEF Has
<1>15. One(reports', Ending) /\ StopIsLast'
  BY <1>11, <1>14 DEF Has, One, StopIsLast
<1>16. stream'.stage \notin {"sounding", "ended"} /\ stopTid' # "running"
  BY <1>12 DEF NoStream
<1>17. Identified'
  BY <1>7, <1>10, <1>11, <1>12, <1>13, <1>14, <1>15, <1>16 DEF Identified, ItemThere
<1> QED BY <1>5, <1>9, <1>10, <1>11, <1>17 DEF Protocol, ErrorFree

\* Another command is read: it starts nothing, and stops only what is to be stopped.
LEMMA ControlKeeps ==
  ASSUME TypeOK, Protocol, UNCHANGED handlerVars,
         NEW c, c # "SET_SOURCE", NextCommand(c),
         reports' \in {reports} \cup {Append(reports, r) : r \in {"offset", "play", "pause"}},
         stream' \in {stream} \cup {WithPaused(b) : b \in BOOLEAN},
         stopTid' = stopTid \/ (c = "STOP" /\ stopTid = "none" /\ stopTid' = "running"),
         UNCHANGED <<notes, telling, heard>>
  PROVE  Protocol'
<1>1. player' = player /\ directives' = directives /\ Untold' = Untold
  BY DEF handlerVars, Untold
<1>2. /\ Has(cmds', Sources) <=> Has(cmds, Sources)
      /\ One(cmds, Sources) => One(cmds', Sources)
      /\ \A S : Has(cmds', S) => Has(cmds, S)
      /\ c = "STOP" => Has(cmds, {Control("STOP")})
      /\ cmds[Len(cmds)] \in Sources =>
           cmds' # <<>> /\ cmds'[Len(cmds')] = cmds[Len(cmds)] /\ Len(cmds) # 1
      /\ cmds # <<>> /\ cmds \in Seq(Command)
  BY ControlRead
<1>3. /\ Has(reports', {"source"}) <=> Has(reports, {"source"})
      /\ Has(reports', {"error"}) <=> Has(reports, {"error"})
      /\ Has(reports', Ending) <=> Has(reports, Ending)
      /\ One(reports, Ending) => One(reports', Ending)
  <2>1. CASE reports' = reports
    BY <2>1
  <2>2. ASSUME NEW r \in {"offset", "play", "pause"}, reports' = Append(reports, r)
        PROVE  <1>3!1 /\ <1>3!2 /\ <1>3!3 /\ <1>3!4
    <3>1. reports \in Seq(Report) /\ r \in Report /\ r \notin Ending
      BY DEF TypeOK, Report, Ending
    <3> QED BY <2>2, <3>1, Appended
  <2> QED BY <2>1, <2>2
<1>4. /\ stream' = NoStream <=> stream = NoStream
      /\ stream'.item = stream.item /\ stream'.stage = stream.stage
  BY DEF WithPaused, NoStream, Stream, TypeOK, ProcessTypeOK
<1>5. CASE player.playing = "null"
  <2>1. Nothing /\ stopTid # "none"
    BY <1>2, <1>5 DEF Protocol, Nothing
  <2>2. Nothing'
    BY <1>1, <1>2, <1>3, <1>4, <2>1 DEF Nothing, Clear
  <2> QED BY <1>1, <1>3, <1>5, <2>2 DEF Protocol, ErrorFree
<1>6. CASE player.playing = "asked"
  <2>1. Requested
    BY <1>2, <1>6 DEF Protocol, Identified
  <2>2. cmds[Len(cmds)] \in Sources
    <3>1. Len(cmds) \in 1..Len(cmds)
      BY <1>2, EmptySeq
    <3>2. cmds[Len(cmds)] \in Command /\ cmds[Len(cmds)].op = "SET_SOURCE"
      BY <1>2, <2>1, <3>1 DEF Requested, SetSource
    <3> QED BY <3>2 DEF Command, Sources, SetSource
  <2>3. stopTid # "none"
    BY <1>2, <2>1, <2>2 DEF Requested
  <2>4. Requested'
    BY <1>1, <1>2, <1>3, <1>4, <2>1, <2>2, <2>3 DEF Requested, Clear
  <2> QED BY <1>1, <1>3, <1>6, <2>4 DEF Protocol, ErrorFree
<1>7. CASE player.playing = "known"
  <2>1. AtProcess
    BY <1>7 DEF Protocol
  <2>2. stopTid' = "running" => player.item \in heard \cup player.cut
    BY <1>2, <2>1 DEF AtProcess, ItemThere
  <2>3. IF stream' = NoStream THEN stopTid' = "done"
        ELSE /\ stream'.item = player.item /\ stopTid' # "done"
             /\ ~Has(Untold, {"STOPED"}) /\ ~Has(reports', Ending)
    BY <1>3, <1>4, <2>1 DEF AtProcess, ItemThere
  <2>4. AtProcess'
    BY <1>1, <1>2, <1>3, <1>4, <2>1, <2>2, <2>3 DEF AtProcess, ItemThere, StopIsLast
  <2> QED BY <1>1, <1>3, <1>7, <2>4 DEF Protocol, ErrorFree
<1> QED BY <1>5, <1>6, <1>7 DEF TypeOK, HandlerTypeOK, PlayerRecord

\* The commands that are not SET_SOURCE, one by one.
LEMMA CommandedKeeps ==
  ASSUME TypeOK, Protocol, Commanded, UNCHANGED handlerVars
  PROVE  Protocol'
<1>1. CASE OnSetSource
  BY <1>1, SetSourceKeeps
<1>2. CASE OnReportOffset
  BY <1>2, ControlKeeps DEF OnReportOffset, processVars
<1>3. CASE OnPlay
  BY <1>3, ControlKeeps DEF OnPlay, Unpause, NoUnpause
<1>4. CASE OnStop
  BY <1>4, ControlKeeps DEF OnStop, StopAsync
<1>5. CASE OnResume
  BY <1>5, ControlKeeps DEF OnResume, Unpause, NoUnpause
<1>6. CASE OnPause
  BY <1>6, ControlKeeps DEF OnPause
<1> QED BY <1>1, <1>2, <1>3, <1>4, <1>5, <1>6 DEF Commanded

\* What is open, or being closed, or ended, belongs to an item that is there.
LEMMA ItemOpen ==
  ASSUME TypeOK, Protocol,
         \/ stream # NoStream \/ stopTid = "running"
         \/ Has(Untold, {"STOPED", "COMPLETE"}) \/ Has(reports, Ending)
  PROVE  /\ ItemThere
         /\ player.playing = "known" \/ (player.playing = "asked" /\ Identified)
BY DEF Protocol, Nothing, Requested, Clear, Identified, AtProcess, TypeOK, HandlerTypeOK, PlayerRecord

\* An item that stays there keeps the protocol.
LEMMA ItemThereKeeps ==
  ASSUME TypeOK, Protocol, UNCHANGED <<player, directives, cmds>>,
         player.playing = "known" \/ (player.playing = "asked" /\ Identified),
         heard \subseteq heard', ItemThere', ErrorFree',
         Has(reports', {"source"}) <=> Has(reports, {"source"}),
         One(reports, {"source"}) => One(reports', {"source"})
  PROVE  Protocol'
<1>1. InLine(player, directives)' /\ player'.over \subseteq heard' \cup player'.cut
  BY DEF Protocol
<1>2. CASE player.playing = "known"
  BY <1>1, <1>2 DEF Protocol, AtProcess
<1>3. CASE player.playing = "asked" /\ Identified
  BY <1>1, <1>3 DEF Protocol, Identified
<1> QED BY <1>2, <1>3

\* The stream is opened, is heard and comes to its end.
LEMMA StreamKeeps ==
  ASSUME TypeOK, Protocol, OpenStream \/ FirstFrame \/ Complete, UNCHANGED handlerVars
  PROVE  Protocol'
<1>1. /\ player' = player /\ directives' = directives /\ cmds' = cmds /\ reports' = reports
      /\ stopTid' = stopTid /\ telling' = telling
  BY DEF handlerVars, OpenStream, FirstFrame, Complete
<1>2. Untold \in Seq(Note) /\ {"PREPARED", "PLAYING", "COMPLETE"} \subseteq Note
  BY UntoldTyped DEF Note
<1>3. /\ stream # NoStream /\ stream' # NoStream /\ stream'.item = stream.item
      /\ stream.stage \in {"opening", "ready", "sounding"} /\ stream.item \in Item
  BY DEF OpenStream, FirstFrame, Complete, TypeOK, ProcessTypeOK, Stream, NoStream
<1>4. ItemThere /\ (player.playing = "known" \/ (player.playing = "asked" /\ Identified))
  BY <1>3, ItemOpen
<1>5. ASSUME Untold' = Untold \/ \E n \in {"PREPARED", "PLAYING"} : Untold' = Append(Untold, n)
      PROVE  /\ Has(Untold', {"STOPED", "COMPLETE"}) <=> Has(Untold, {"STOPED", "COMPLETE"})
             /\ Has(Untold', {"STOPED"}) <=> Has(Untold, {"STOPED"})
             /\ Has(Untold', {"ERROR"}) <=> Has(Untold, {"ERROR"})
  <2>1. ASSUME NEW n \in {"PREPARED", "PLAYING"}
        PROVE  /\ Has(Append(Untold, n), {"STOPED", "COMPLETE"}) <=> Has(Untold, {"STOPED", "COMPLETE"})
               /\ Has(Append(Untold, n), {"STOPED"}) <=> Has(Untold, {"STOPED"})
               /\ Has(Append(Untold, n), {"ERROR"}) <=> Has(Untold, {"ERROR"})
    <3>1. n \in Note /\ n \notin {"STOPED", "COMPLETE"} /\ n \notin {"STOPED"} /\ n \notin {"ERROR"}
      BY <1>2
    <3> QED BY <1>2, <3>1, Appended
  <2> QED BY <1>5, <2>1
<1>6. heard \subseteq heard' /\ ItemThere' /\ ErrorFree'
  <2>1. CASE OpenStream
    <3>1. stream'.stage = "ready" /\ heard' = heard
      BY <2>1 DEF OpenStream, TypeOK, ProcessTypeOK, Stream, NoStream
    <3>2. Untold' = Untold \/ Untold' = Append(Untold, "PREPARED")
      BY <1>2, <2>1, UntoldGrows DEF OpenStream, Notify, Untold
    <3>3. /\ Has(Untold', {"STOPED", "COMPLETE"}) <=> Has(Untold, {"STOPED", "COMPLETE"})
          /\ Has(Untold', {"STOPED"}) <=> Has(Untold, {"STOPED"})
          /\ Has(Untold', {"ERROR"}) <=> Has(Untold, {"ERROR"})
      BY <1>5, <3>2
    <3> QED BY <1>1, <1>3, <1>4, <3>1, <3>3 DEF ItemThere, StopIsLast, Has, Protocol, ErrorFree
  <2>2. CASE FirstFrame
    <3>1. /\ stream'.stage = "sounding" /\ heard' = heard \cup {stream.item}
          /\ Untold' = Append(Untold, "PLAYING")
      BY <1>2, <2>2, UntoldGrows DEF FirstFrame, Notify, TypeOK, ProcessTypeOK, Stream, NoStream
    <3>2. /\ Has(Untold', {"STOPED", "COMPLETE"}) <=> Has(Untold, {"STOPED", "COMPLETE"})
          /\ Has(Untold', {"STOPED"}) <=> Has(Untold, {"STOPED"})
          /\ Has(Untold', {"ERROR"}) <=> Has(Untold, {"ERROR"})
      BY <1>5, <3>1
    <3> QED BY <1>1, <1>3, <1>4, <3>1, <3>2 DEF ItemThere, StopIsLast, Has, Protocol, ErrorFree
  <2>3. CASE Complete
    <3>1. /\ stream.stage = "sounding" /\ stream'.stage = "ended" /\ heard' = heard
          /\ Untold' = Append(Untold, "COMPLETE")
      BY <1>2, <2>3, UntoldGrows DEF Complete, Notify, TypeOK, ProcessTypeOK, Stream, NoStream
    <3>2. /\ Has(Untold', {"STOPED"}) <=> Has(Untold, {"STOPED"})
          /\ Has(Untold', {"ERROR"}) <=> Has(Untold, {"ERROR"})
      <4>1. "COMPLETE" \in Note /\ "COMPLETE" \notin {"STOPED"} /\ "COMPLETE" \notin {"ERROR"}
        BY <1>2
      <4> QED BY <1>2, <3>1, <4>1, Appended
    <3> QED BY <1>1, <1>3, <1>4, <3>1, <3>2 DEF ItemThere, StopIsLast, Has, Protocol, ErrorFree
  <2> QED BY <2>1, <2>2, <2>3
<1> QED BY <1>1, <1>4, <1>6, ItemThereKeeps

\* The stop thread closes the stream of an item that was heard or is to be stopped.
LEMMA StopThreadKeeps ==
  ASSUME TypeOK, Protocol, StopPlayThread, UNCHANGED handlerVars
  PROVE  Protocol'
<1>1. /\ player' = player /\ directives' = directives /\ cmds' = cmds /\ reports' = reports
      /\ stopTid = "running" /\ stopTid' = "done" /\ stream' = NoStream /\ heard' = heard
      /\ Untold' = Append(Untold, "STOPED")
  <2>1. "STOPED" \in Note
    BY DEF Note
  <2> QED BY <2>1, UntoldGrows DEF handlerVars, StopPlayThread, Notify
<1>2. Untold \in Seq(Note) /\ "STOPED" \in Note
  BY UntoldTyped DEF Note
<1>3. ItemThere /\ (player.playing = "known" \/ (player.playing = "asked" /\ Identified))
  BY <1>1, ItemOpen
<1>4. stream # NoStream /\ ~Has(Untold, {"STOPED"}) /\ ~Has(reports, Ending)
  BY <1>1, <1>3 DEF ItemThere
<1>5. StopIsLast'
  <2>1. /\ Len(Untold') = Len(Untold) + 1 /\ Len(Untold) \in Nat
        /\ \A i \in 1..Len(Untold) : Untold'[i] = Untold[i]
    BY <1>1, <1>2, AppendProperties
  <2>2. ASSUME NEW i \in 1..Len(Untold'), Untold'[i] = "STOPED" PROVE i = Len(Untold')
    <3>1. CASE i \in 1..Len(Untold)
      BY <1>4, <2>1, <2>2, <3>1 DEF Has
    <3>2. CASE i \notin 1..Len(Untold)
      BY <2>1, <3>2
    <3> QED BY <3>1, <3>2
  <2> QED BY <2>2 DEF StopIsLast
<1>6. ErrorFree'
  <2>1. Has(Untold', {"ERROR"}) <=> Has(Untold, {"ERROR"})
    BY <1>1, <1>2, Appended
  <2> QED BY <1>1, <2>1 DEF Protocol, ErrorFree
<1>7. ItemThere'
  BY <1>1, <1>3, <1>4, <1>5 DEF ItemThere, NoStream
<1> QED BY <1>1, <1>3, <1>6, <1>7, ItemThereKeeps

\* The timer thread tells of the notes, and asks for the stop that follows an end.
LEMMA TellKeeps ==
  ASSUME TypeOK, Protocol, Tell, UNCHANGED handlerVars
  PROVE  Protocol'
<1>1. /\ player' = player /\ directives' = directives /\ cmds' = cmds /\ stream' = stream /\ heard' = heard
      /\ notes # <<>> /\ notes \in Seq(Note) /\ Untold = notes /\ Untold' = Tail(Untold)
  BY UntoldShrinks DEF handlerVars, Tell, TypeOK, ProcessTypeOK
<1>2. /\ Has(Untold', {"STOPED", "COMPLETE"}) => Has(Untold, {"STOPED", "COMPLETE"})
      /\ Has(Untold', {"STOPED"}) => Has(Untold, {"STOPED"})
      /\ Has(Untold', {"ERROR"}) => Has(Untold, {"ERROR"})
  BY <1>1, TakenOff
<1>3. Head(notes) \in Note /\ Head(notes) # "ERROR"
  <2>1. Head(notes) = "ERROR" => Has(notes, {"ERROR"})
    BY <1>1, TakenOff
  <2> QED BY <1>1, <2>1, HeadTailProperties DEF Protocol, ErrorFree
<1>4. StopIsLast => StopIsLast'
  <2>1. /\ Len(Untold') = Len(Untold) - 1 /\ Len(Untold) \in Nat
        /\ \A i \in 1..Len(Untold') : Untold'[i] = Untold[i + 1] /\ i + 1 \in 1..Len(Untold)
    BY <1>1, TakenOff
  <2> QED BY <2>1 DEF StopIsLast
<1>5. reports \in Seq(Report) /\ {"play", "stop", "finish"} \subseteq Report
  BY DEF TypeOK, Report
<1>6. CASE Head(notes) \in {"PREPARED", "PLAYING"}
  <2>1. stopTid' = stopTid /\ (reports' = reports \/ reports' = Append(reports, "play"))
    BY <1>6 DEF Tell
  <2>2. /\ Has(reports', {"source"}) <=> Has(reports, {"source"})
        /\ Has(reports', {"error"}) <=> Has(reports, {"error"})
        /\ Has(reports', Ending) <=> Has(reports, Ending)
        /\ One(reports, {"source"}) => One(reports', {"source"})
        /\ One(reports, Ending) => One(reports', Ending)
    <3>1. "play" \notin Ending /\ "play" \notin {"source"} /\ "play" \notin {"error"}
      BY DEF Ending
    <3> DEFINE a == Append(reports, "play")
    <3>2. /\ Has(a, {"source"}) <=> Has(reports, {"source"})
          /\ Has(a, {"error"}) <=> Has(reports, {"error"})
      BY <1>5, <3>1, Appended
    <3>3. One(reports, {"source"}) => One(a, {"source"})
      BY <1>5, <3>1, Appended
    <3>4. (Has(a, Ending) <=> Has(reports, Ending)) /\ (One(reports, Ending) => One(a, Ending))
      BY <1>5, <3>1, Appended
    <3> HIDE DEF a
    <3>5. reports' = reports \/ reports' = a
      BY <2>1 DEF a
    <3> QED BY <3>2, <3>3, <3>4, <3>5
  <2>3. ErrorFree'
    BY <1>2, <2>2 DEF Protocol, ErrorFree
  <2>4. Clear => Clear'
    BY <1>1, <1>2, <2>1, <2>2 DEF Clear
  <2>5. (Nothing => Nothing') /\ (Requested => Requested')
    <3>1. status' = status /\ notes' = notes
      BY DEF Tell
    <3> QED BY <1>1, <2>1, <2>4, <3>1 DEF Nothing, Requested, Untouched
  <2>6. ItemThere => ItemThere'
    BY <1>1, <1>2, <1>4, <2>1, <2>2 DEF ItemThere
  <2>7. (Identified => Identified') /\ (AtProcess => AtProcess')
    BY <1>1, <2>2, <2>6 DEF Identified, AtProcess
  <2> QED BY <1>1, <2>3, <2>5, <2>7 DEF Protocol
<1>7. ASSUME Head(notes) \in {"STOPED", "COMPLETE"}
      PROVE  /\ ItemThere /\ Has(Untold, {"STOPED", "COMPLETE"})
             /\ player.playing = "known" \/ (player.playing = "asked" /\ Identified)
  <2>1. Has(Untold, {"STOPED", "COMPLETE"})
    BY <1>1, <1>7, TakenOff
  <2> QED BY <2>1, ItemOpen
<1>8. CASE Head(notes) = "COMPLETE"
  <2>1. /\ reports' = reports
        /\ stopTid' = stopTid \/ (stopTid = "none" /\ stopTid' = "running")
    BY <1>8 DEF Tell, StopAsync
  <2>2. ItemThere /\ player.item \in heard \cup player.cut
    BY <1>7, <1>8 DEF ItemThere
  <2>3. ItemThere'
    BY <1>1, <1>2, <1>4, <2>1, <2>2 DEF ItemThere
  <2>4. ErrorFree'
    BY <1>2, <2>1 DEF Protocol, ErrorFree
  <2> QED BY <1>1, <1>7, <1>8, <2>1, <2>3, <2>4, ItemThereKeeps
<1>9. CASE Head(notes) = "STOPED"
  <2>1. stopTid' = stopTid /\ \E r \in Ending : reports' = Append(reports, r)
    BY <1>9 DEF Tell, Ending
  <2>2. /\ ItemThere /\ Has(Untold, {"STOPED"})
        /\ ~Has(reports, Ending) /\ stream = NoStream /\ player.item \in heard \cup player.cut
    <3>1. Has(Untold, {"STOPED"})
      BY <1>1, <1>9, TakenOff
    <3> QED BY <1>7, <1>9, <3>1 DEF ItemThere
  <2>3. /\ Has(reports', {"source"}) <=> Has(reports, {"source"})
        /\ Has(reports', {"error"}) <=> Has(reports, {"error"})
        /\ One(reports, {"source"}) => One(reports', {"source"})
        /\ One(reports', Ending)
    <3>1. PICK r \in Ending : reports' = Append(reports, r)
      BY <2>1
    <3>2. r \in Report /\ r \notin {"source"} /\ r \notin {"error"}
      BY <1>5 DEF Ending
    <3>3. One(reports, Ending)
      BY <2>2 DEF ItemThere
    <3>4. One(Append(reports, r), Ending)
      BY <1>5, <2>2, <3>2, <3>3, Appended
    <3>5. /\ Has(Append(reports, r), {"source"}) <=> Has(reports, {"source"})
          /\ Has(Append(reports, r), {"error"}) <=> Has(reports, {"error"})
      BY <1>5, <3>2, Appended
    <3>6. One(reports, {"source"}) => One(Append(reports, r), {"source"})
      BY <1>5, <3>2, Appended
    <3> QED BY <3>1, <3>4, <3>5, <3>6
  <2>4. Untold' = <<>>
    <3>1. notes[1] = "STOPED" /\ 1 \in 1..Len(notes)
      BY <1>1, <1>9, HeadTailProperties, EmptySeq
    <3>2. Len(notes) = 1
      BY <1>1, <2>2, <3>1 DEF ItemThere, StopIsLast
    <3>3. Len(Untold') = 0 /\ Untold' \in Seq(Note)
      BY <1>1, <3>2, TakenOff
    <3> QED BY <3>3, EmptySeq
  <2>5. ~Has(Untold', {"STOPED", "COMPLETE"}) /\ ~Has(Untold', {"ERROR"}) /\ StopIsLast'
    BY <2>4 DEF Has, StopIsLast
  <2>6. ItemThere'
    BY <1>1, <2>1, <2>2, <2>3, <2>5 DEF ItemThere
  <2>7. ErrorFree'
    BY <2>3, <2>5 DEF Protocol, ErrorFree
  <2> QED BY <1>1, <1>7, <1>9, <2>3, <2>6, <2>7, ItemThereKeeps
<1> QED BY <1>3, <1>6, <1>8, <1>9 DEF Note

\* The timer thread ends a note, and starts the stream whose offset was kept.
LEMMA SettleKeeps ==
  ASSUME TypeOK, Protocol, Settle, UNCHANGED handlerVars
  PROVE  Protocol'
<1>1. /\ player' = player /\ directives' = directives /\ cmds' = cmds /\ reports' = reports
      /\ heard' = heard /\ stopTid' = stopTid /\ Untold' = Untold /\ notes # <<>>
  BY UntoldShrinks DEF handlerVars, Settle, TypeOK, ProcessTypeOK
<1>2. /\ stream' = NoStream <=> stream = NoStream
      /\ stream'.item = stream.item /\ stream'.stage = stream.stage
  <2>1. stream' \in {stream, WithPaused(FALSE)}
    BY DEF Settle, StartIfKept, StartAtOffset, Unpause, NoUnpause
  <2> QED BY <2>1 DEF WithPaused, NoStream, Stream, TypeOK, ProcessTypeOK
<1>3. ErrorFree' /\ (Clear => Clear')
  BY <1>1, <1>2 DEF Protocol, ErrorFree, Clear
<1>4. (Nothing => Nothing') /\ (Requested => Requested')
  BY <1>1, <1>3 DEF Nothing, Requested, Untouched
<1>5. ItemThere => ItemThere'
  BY <1>1, <1>2 DEF ItemThere, StopIsLast
<1>6. (Identified => Identified') /\ (AtProcess => AtProcess')
  BY <1>1, <1>5 DEF Identified, AtProcess
<1> QED BY <1>1, <1>3, <1>4, <1>6 DEF Protocol

\* A step of the process keeps the protocol, as long as no stream has failed.
LEMMA ProcessKeeps ==
  ASSUME TypeOK, Protocol, Process, broken' = {}
  PROVE  Protocol'
<1>1. UNCHANGED handlerVars
  BY DEF Process, Outlived
<1>2. CASE Settle
  BY <1>1, <1>2, SettleKeeps
<1>3. CASE Streaming
  <2>1. ~FailToOpen /\ ~FailInStream
    BY DEF FailToOpen, FailInStream
  <2> QED BY <1>1, <1>3, <2>1, StreamKeeps, StopThreadKeeps DEF Streaming
<1>4. CASE Commanded
  BY <1>1, <1>4, CommandedKeeps
<1>5. CASE Tell
  BY <1>1, <1>5, TellKeeps
<1> QED BY <1>2, <1>3, <1>4, <1>5 DEF Process

-------------------------------------------------------------------------------
(***************************************************************************)
(* The application's operators keep the line in order, whatever they do in *)
(* one callback, unless an item is asked to stop while its source id is    *)
(* not known, which they remember.                                         *)
(***************************************************************************)
\* What a callback sends goes with what the player has at the process.
Sends(p) ==
  /\ p.playing = "null" => p.out = <<>>
  /\ p.playing = "asked" => p.out \in {<<>>, <<SetSource(p.item)>>}
  /\ p.playing = "known" =>
       /\ ~Has(p.out, Sources) /\ ~Has(p.out, Play)
       /\ Has(p.out, {Control("STOP")}) => p.item \in p.cut
       /\ VolDown(p) => ~Has(p.out, Pauses)

Tidy(p, n) == Good(p) /\ InLine(p, n) /\ Sends(p)

\* What plays, plays on; where nothing plays, an item may be asked for.
Goes(p, q) ==
  /\ q.kind = p.kind /\ q.stale = p.stale /\ q.over = p.over /\ p.cut \subseteq q.cut
  /\ q.cut \subseteq IF q.playing = "null" THEN p.cut ELSE p.cut \cup {q.item}
  /\ p.playing # "null" => q.playing = p.playing /\ q.item = p.item
  /\ p.playing = "asked" => q.out = p.out
  /\ p.playing = "null" =>
       \/ q.playing = "null" /\ q.state = p.state
       \/ q.playing = "asked" /\ q.out = <<SetSource(q.item)>>

\* Two changes of this sort are one.
LEMMA GoesTransitive ==
  ASSUME NEW p, NEW q, NEW r, Goes(p, q), Goes(q, r)
  PROVE  Goes(p, r)
BY DEF Goes

\* q differs from p in its focus, its marks, its volume, or in waiting for nothing any more.
Same(p, q) ==
  /\ q.kind = p.kind /\ q.state = p.state /\ q.item = p.item /\ q.playing = p.playing /\ q.cancel = p.cancel
  /\ q.stops = p.stops /\ q.cut = p.cut /\ q.over = p.over /\ q.stale = p.stale /\ q.out = p.out
  /\ q.wait \in {p.wait, <<>>}

\* Such a change does not matter to the protocol.
LEMMA SameTidy ==
  ASSUME NEW p, NEW q \in PlayerRecord, NEW n, Tidy(p, n), Same(p, q)
  PROVE  Tidy(q, n) /\ Goes(p, q)
<1>1. Good(q) /\ Goes(p, q) /\ Sends(q)
  BY DEF Tidy, Good, Same, Sends, Goes, Active, VolDown, PlayerRecord
<1>2. CASE q.wait = p.wait
  BY <1>1, <1>2 DEF Tidy, InLine, Same
<1>3. CASE q.wait = <<>>
  BY <1>1, <1>3 DEF Tidy, InLine, Same
<1> QED BY <1>1, <1>2, <1>3 DEF Same

\* A control command is sent about an item that has its source id.
LEMMA SendTidy ==
  ASSUME NEW p, NEW n, Tidy(p, n), p.playing = "known",
         NEW c \in {"STOP", "PAUSE", "RESUME", "OFFSET"},
         c = "STOP" => p.item \in p.cut,
         c \in {"PAUSE", "RESUME"} => ~VolDown(p)
  PROVE  Tidy(Send(p, Control(c)), n) /\ Goes(p, Send(p, Control(c)))
<1> DEFINE a == Append(p.out, Control(c))
           q == [p EXCEPT !.out = a]
<1>1. p \in PlayerRecord /\ p.out \in Seq(Command) /\ Control(c) \in Command
  BY DEF Tidy, Good, PlayerRecord, Control, Command
<1>2. /\ Control(c) \notin Sources /\ Control(c) \notin Play
      /\ Control(c) \in {Control("STOP")} => p.item \in p.cut
      /\ VolDown(p) => Control(c) \notin Pauses
  BY DEF Control, Sources, SetSource, Play, Pauses
<1>3. (Has(a, Sources) <=> Has(p.out, Sources)) /\ (Has(a, Play) <=> Has(p.out, Play))
  BY <1>1, <1>2, Appended
<1>4. Has(a, {Control("STOP")}) => Has(p.out, {Control("STOP")}) \/ p.item \in p.cut
  BY <1>1, <1>2, Appended
<1>5. VolDown(p) => (Has(a, Pauses) <=> Has(p.out, Pauses))
  BY <1>1, <1>2, Appended
<1>6. Send(p, Control(c)) = q /\ q \in PlayerRecord /\ Alike(p, q)
  BY <1>1, SendKeeps DEF Send
<1> HIDE DEF a
<1>7. /\ q.cancel = p.cancel /\ q.stops = p.stops /\ q.cut = p.cut /\ q.over = p.over
      /\ q.stale = p.stale /\ q.out = a
  BY <1>1 DEF PlayerRecord
<1> HIDE DEF q
<1>8. /\ Good(q) /\ q.kind = p.kind /\ q.state = p.state /\ q.item = p.item /\ q.playing = "known"
      /\ q.wait = p.wait
  BY <1>6, AlikeGood DEF Tidy, Alike
<1>9. Sends(q)
  BY <1>3, <1>4, <1>5, <1>7, <1>8 DEF Tidy, Sends, VolDown
<1>10. InLine(q, n) /\ Goes(p, q)
  BY <1>7, <1>8 DEF Tidy, InLine, Goes
<1> QED BY <1>6, <1>8, <1>9, <1>10 DEF Tidy

\* _playControl, which sends nothing without a source id
LEMMA PlayControlTidy ==
  ASSUME NEW p, NEW n, Tidy(p, n),
         NEW c \in {"STOP", "PAUSE", "RESUME", "OFFSET"},
         c = "STOP" /\ p.playing = "known" => p.item \in p.cut,
         c \in {"PAUSE", "RESUME"} => ~VolDown(p)
  PROVE  Tidy(PlayControl(p, c), n) /\ Goes(p, PlayControl(p, c))
<1>1. Goes(p, p)
  BY DEF Goes, Tidy, Good, PlayerRecord
<1> QED BY <1>1, SendTidy DEF PlayControl

\* What plays is marked, and may then be stopped.
LEMMA CutTidy ==
  ASSUME NEW p, NEW n, Tidy(p, n)
  PROVE  /\ Tidy(Cut(p), n) /\ Goes(p, Cut(p))
         /\ Cut(p).playing = p.playing /\ Cut(p).item = p.item /\ Cut(p).stops = p.stops
         /\ p.playing # "null" => p.item \in Cut(p).cut
<1>1. CASE p.playing = "null"
  BY <1>1 DEF Cut, Goes
<1>2. CASE p.playing # "null"
  <2> DEFINE early == p.hasty \/ p.playing = "asked"
             q == [p EXCEPT !.cut = p.cut \cup {p.item}, !.hasty = early]
  <2>1. Cut(p) = q
    BY <1>2 DEF Cut
  <2>0. early \in BOOLEAN
    BY DEF Tidy, Good, PlayerRecord
  <2> HIDE DEF early
  <2>2. /\ q \in PlayerRecord /\ q.kind = p.kind /\ q.state = p.state /\ q.wait = p.wait /\ q.item = p.item
        /\ q.playing = p.playing /\ q.cancel = p.cancel /\ q.stops = p.stops /\ q.over = p.over
        /\ q.stale = p.stale /\ q.out = p.out /\ q.cut = p.cut \cup {p.item}
    BY <1>2, <2>0 DEF Tidy, Good, PlayerRecord
  <2> HIDE DEF q
  <2>3. Good(q) /\ Sends(q) /\ Goes(p, q)
    BY <1>2, <2>2 DEF Tidy, Good, Sends, Goes, Active, VolDown
  <2>4. InLine(q, n)
    BY <2>2 DEF Tidy, InLine
  <2> QED BY <2>1, <2>2, <2>3, <2>4 DEF Tidy
<1> QED BY <1>1, <1>2

\* stop() of an item that is not only asked for, and marked
LEMMA PlayerStopTidy ==
  ASSUME NEW p, NEW n, Tidy(p, n), p.playing # "asked", p.playing = "known" => p.item \in p.cut
  PROVE  Tidy(PlayerStop(p), n) /\ Goes(p, PlayerStop(p))
BY PlayControlTidy DEF PlayerStop

\* stop() of an item that is not only asked for, as focus and user ask it.
LEMMA StopCutTidy ==
  ASSUME NEW p, NEW n, Tidy(p, n), p.playing # "asked"
  PROVE  Tidy(PlayerStop(Cut(p)), n) /\ Goes(p, PlayerStop(Cut(p)))
<1>1. /\ Tidy(Cut(p), n) /\ Goes(p, Cut(p)) /\ Cut(p).playing # "asked"
      /\ Cut(p).playing = "known" => Cut(p).item \in Cut(p).cut
  BY CutTidy
<1>2. Tidy(PlayerStop(Cut(p)), n) /\ Goes(Cut(p), PlayerStop(Cut(p)))
  BY <1>1, PlayerStopTidy
<1> QED BY <1>1, <1>2, GoesTransitive

\* stop() of an item that is only asked for is remembered.
LEMMA StopRemembered ==
  ASSUME NEW p \in PlayerRecord, p.playing = "asked"
  PROVE  PlayerStop(Cut(p)).hasty
<1> DEFINE q == [p EXCEPT !.cut = p.cut \cup {p.item}, !.hasty = TRUE]
<1>1. Cut(p) = q
  BY DEF Cut, PlayerRecord
<1>2. q.hasty /\ q.playing = "asked" /\ DOMAIN q = DOMAIN p
  BY DEF PlayerRecord
<1>3. "hasty" \in DOMAIN q
  BY DEF PlayerRecord
<1> HIDE DEF q
<1>4. PlayerStop(q) = [q EXCEPT !.cancel = TRUE]
  BY <1>2 DEF PlayerStop
<1> QED BY <1>1, <1>2, <1>3, <1>4

\* The first in line is asked for.
LEMMA PlayNextTidy ==
  ASSUME NEW p, NEW n \in Nat, Tidy(p, n), p.playing = "null"
  PROVE  Tidy(PlayNext(p), n) /\ Goes(p, PlayNext(p))
<1>1. CASE p.wait = <<>>
  BY <1>1 DEF PlayNext, Goes
<1>2. CASE p.wait # <<>>
  <2> DEFINE q == [p EXCEPT !.item = Head(p.wait), !.wait = Tail(p.wait), !.loud = p.loud \/ p.focus = "FOREGROUND"]
             r == [q EXCEPT !.playing = "asked", !.cancel = FALSE, !.state = "PLAYING"]
             t == Send(r, SetSource(r.item))
  <2>1. p \in PlayerRecord /\ p.wait \in Seq(Item) /\ p.out = <<>>
    BY DEF Tidy, Good, Sends, PlayerRecord
  <2>2. /\ Head(p.wait) \in Item /\ Head(p.wait) = p.wait[1] /\ Tail(p.wait) \in Seq(Item)
        /\ Len(Tail(p.wait)) = Len(p.wait) - 1 /\ Len(p.wait) \in Nat /\ Len(p.wait) >= 1
        /\ \A i \in 1..Len(Tail(p.wait)) : Tail(p.wait)[i] = p.wait[i + 1]
    BY <1>2, <2>1, HeadTailProperties, EmptySeq
  <2>3. /\ q \in PlayerRecord /\ q.playing = "null" /\ q.item = Head(p.wait) /\ q.wait = Tail(p.wait)
        /\ q.kind = p.kind /\ q.stops = p.stops /\ q.cut = p.cut /\ q.over = p.over /\ q.stale = p.stale
        /\ q.out = <<>>
    BY <2>1, <2>2 DEF PlayerRecord
  <2> HIDE DEF q
  <2>4. /\ r \in PlayerRecord /\ r.playing = "asked" /\ r.item = q.item /\ r.wait = q.wait /\ ~r.cancel
        /\ r.kind = q.kind /\ r.stops = q.stops /\ r.cut = q.cut /\ r.over = q.over /\ r.stale = q.stale
        /\ r.out = <<>> /\ r.state = "PLAYING"
    BY <2>3 DEF PlayerRecord, Activity
  <2> HIDE DEF r
  <2>5. PlayNext(p) = t
    BY <1>2, <2>3 DEF PlayNext, PlayItem, q, r
  <2>6. t = [r EXCEPT !.out = <<SetSource(r.item)>>]
    BY <2>4 DEF Send
  <2>7. <<SetSource(r.item)>> \in Seq(Command)
    <3>1. SetSource(r.item) \in Command
      BY <2>2, <2>3, <2>4 DEF SetSource, Command
    <3> HIDE DEF Command
    <3> QED BY <3>1
  <2>8. /\ t \in PlayerRecord /\ t.playing = "asked" /\ t.item = p.wait[1] /\ t.wait = Tail(p.wait) /\ ~t.cancel
        /\ t.kind = p.kind /\ t.stops = p.stops /\ t.cut = p.cut /\ t.over = p.over /\ t.stale = p.stale
        /\ t.state = "PLAYING" /\ t.out = <<SetSource(t.item)>> /\ t.item \in Item
    <3> HIDE DEF Command, t, SetSource
    <3>1. t \in PlayerRecord
      BY <2>4, <2>6, <2>7 DEF PlayerRecord
    <3>2. /\ t.playing = r.playing /\ t.item = r.item /\ t.wait = r.wait /\ t.cancel = r.cancel
          /\ t.kind = r.kind /\ t.stops = r.stops /\ t.cut = r.cut /\ t.over = r.over /\ t.stale = r.stale
          /\ t.state = r.state /\ t.out = <<SetSource(r.item)>>
      BY <2>4, <2>6 DEF PlayerRecord
    <3> QED BY <2>2, <2>3, <2>4, <3>1, <3>2
  <2> HIDE DEF t
  <2>9. Good(t) /\ Sends(t) /\ Goes(p, t)
    BY <2>8 DEF Good, Active, Sends, Goes, Tidy
  <2>10. InLine(t, n)
    <3>1. /\ p.item \in Nat /\ p.stops \subseteq Nat /\ p.over \subseteq Nat /\ t.item \in Nat
          /\ \A i \in 1..Len(p.wait) : p.wait[i] \in Nat
      <4>1. p.item \in Item \cup {0} /\ p.stops \subseteq Item /\ p.over \subseteq Item
        BY <2>1 DEF PlayerRecord
      <4>2. Item \subseteq Nat
        BY DEF Item
      <4>3. \A i \in 1..Len(p.wait) : p.wait[i] \in Item
        BY <2>1
      <4>4. \A i \in 1..Len(p.wait) : p.wait[i] \in Nat
        BY <4>2, <4>3
      <4>5. t.item \in Nat
        BY <2>8, <4>2
      <4>6. p.item \in Nat
        BY <4>1 DEF Item
      <4>7. p.stops \subseteq Nat /\ p.over \subseteq Nat
        BY <4>1, <4>2, Zenon
      <4> QED BY <4>4, <4>5, <4>6, <4>7
    <3>2. InLine(p, n)
      BY DEF Tidy
    <3>3. 1 \in 1..Len(p.wait) /\ p.item < p.wait[1] /\ p.wait[1] <= n
      BY <2>2, <3>2 DEF InLine
    <3>4. \A i \in 1..Len(t.wait) : i + 1 \in 1..Len(p.wait) /\ t.wait[i] = p.wait[i + 1] /\ 1 < i + 1
      BY <2>2, <2>8
    <3>5. \A i \in 1..Len(t.wait) : t.item < t.wait[i] /\ t.wait[i] <= n
      BY <2>8, <3>2, <3>3, <3>4 DEF InLine
    <3>6. \A i, j \in 1..Len(t.wait) : i < j => t.wait[i] < t.wait[j]
      <4> SUFFICES ASSUME NEW i \in 1..Len(t.wait), NEW j \in 1..Len(t.wait), i < j PROVE t.wait[i] < t.wait[j]
        OBVIOUS
      <4>1. i + 1 < j + 1
        OBVIOUS
      <4> QED BY <3>2, <3>4, <4>1 DEF InLine
    <3>7. \A s \in t.stops : s < t.item
      BY <2>8, <3>1, <3>2, <3>3 DEF InLine
    <3>8. t.stops \subseteq t.cut /\ t.item <= n
      BY <2>8, <3>2, <3>3 DEF InLine
    <3>9. \A s \in t.stops : s <= t.item /\ s < t.item
      <4>1. t.stops \subseteq Nat
        BY <2>8, <3>1
      <4>2. \A s \in Nat : s < t.item => s <= t.item
        BY <3>1
      <4> QED BY <3>7, <4>1, <4>2
    <3>10. \A s \in t.over : s < t.item
      BY <2>8, <3>1, <3>2, <3>3 DEF InLine
    <3>11. \A s \in t.over : s <= t.item /\ s < t.item
      <4>1. t.over \subseteq Nat
        BY <2>8, <3>1
      <4>2. \A s \in Nat : s < t.item => s <= t.item
        BY <3>1
      <4> QED BY <3>10, <4>1, <4>2
    <3> QED BY <2>8, <3>5, <3>6, <3>8, <3>9, <3>11 DEF InLine
  <2> QED BY <2>5, <2>8, <2>9, <2>10 DEF Tidy
<1> QED BY <1>1, <1>2

\* The player is told to play in the foreground, ...
LEMMA PlayForegroundTidy ==
  ASSUME NEW p, NEW n \in Nat, Tidy(p, n)
  PROVE  Tidy(PlayForeground(p), n) /\ Goes(p, PlayForeground(p))
<1> DEFINE full == [p EXCEPT !.loud = TRUE]
<1>1. full \in PlayerRecord /\ Same(p, full)
  BY DEF Tidy, Good, PlayerRecord, Same
<1> HIDE DEF full
<1>2. Tidy(full, n) /\ Goes(p, full)
  BY <1>1, SameTidy
<1>3. CASE ~VolDown(p) /\ p.state = "PAUSED"
  <2>1. PlayForeground(p) = PlayControl(p, "RESUME")
    BY <1>3 DEF PlayForeground, PlayerResume, Active
  <2> QED BY <1>3, <2>1, PlayControlTidy
<1>4. CASE ~Active(p)
  <2>1. PlayForeground(p) = PlayNext(full)
    BY <1>4 DEF PlayForeground, Active, full
  <2>2. full.playing = "null"
    BY <1>1, <1>4 DEF Tidy, Good, Same, PlayerRecord
  <2>3. Tidy(PlayNext(full), n) /\ Goes(full, PlayNext(full))
    BY <1>2, <2>2, PlayNextTidy
  <2> QED BY <1>2, <2>1, <2>3, GoesTransitive
<1>5. CASE Active(p) /\ ~(~VolDown(p) /\ p.state = "PAUSED")
  <2>1. PlayForeground(p) = full
    BY <1>5 DEF PlayForeground, full
  <2> QED BY <1>2, <2>1
<1> QED BY <1>3, <1>4, <1>5

\* ... or in the background.
LEMMA PlayBackgroundTidy ==
  ASSUME NEW p, NEW n \in Nat, Tidy(p, n)
  PROVE  Tidy(PlayBackground(p), n) /\ Goes(p, PlayBackground(p))
<1> DEFINE low == [p EXCEPT !.loud = FALSE]
<1>1. low \in PlayerRecord /\ Same(p, low)
  BY DEF Tidy, Good, PlayerRecord, Same
<1> HIDE DEF low
<1>2. Tidy(low, n) /\ Goes(p, low)
  BY <1>1, SameTidy
<1>3. CASE ~VolDown(p)
  <2>1. PlayBackground(p) \in {p, PlayControl(p, "PAUSE")}
    BY <1>3 DEF PlayBackground, PlayerPause
  <2>2. Goes(p, p)
    BY DEF Goes, Tidy, Good, PlayerRecord
  <2> QED BY <1>3, <2>1, <2>2, PlayControlTidy
<1>4. CASE VolDown(p) /\ ~Active(p)
  <2>1. PlayBackground(p) = PlayNext(low)
    BY <1>4 DEF PlayBackground, low
  <2>2. low.playing = "null"
    BY <1>1, <1>4 DEF Tidy, Good, Same, PlayerRecord
  <2>3. Tidy(PlayNext(low), n) /\ Goes(low, PlayNext(low))
    BY <1>2, <2>2, PlayNextTidy
  <2> QED BY <1>2, <2>1, <2>3, GoesTransitive
<1>5. CASE VolDown(p) /\ Active(p)
  <2>1. PlayBackground(p) = low
    BY <1>5 DEF PlayBackground, low
  <2> QED BY <1>2, <2>1
<1> QED BY <1>3, <1>4, <1>5

\* The player loses its channel.
LEMMA LoseFocusTidy ==
  ASSUME NEW p, NEW n \in Nat, Tidy(p, n), p.playing # "asked"
  PROVE  Tidy(LoseFocus(p), n) /\ Goes(p, LoseFocus(p))
<1> DEFINE q == [p EXCEPT !.focus = "NONE", !.wait = <<>>]
<1>1. q \in PlayerRecord /\ Same(p, q)
  BY EmptySeq DEF Tidy, Good, PlayerRecord, Focus, Same
<1>2. LoseFocus(p) = PlayerStop(Cut(q))
  BY DEF LoseFocus
<1> HIDE DEF q
<1>3. Tidy(q, n) /\ Goes(p, q) /\ q.playing # "asked"
  BY <1>1, SameTidy DEF Same
<1>4. Tidy(PlayerStop(Cut(q)), n) /\ Goes(q, PlayerStop(Cut(q)))
  BY <1>3, StopCutTidy
<1> QED BY <1>2, <1>3, <1>4, GoesTransitive

\* The manager tells it of a focus.
LEMMA FocusTidy ==
  ASSUME NEW p, NEW n \in Nat, Tidy(p, n), NEW f \in Focus, NEW byAip \in BOOLEAN
  PROVE  \/ Tidy(OnFocusState(p, f, byAip), n) /\ Goes(p, OnFocusState(p, f, byAip))
         \/ p.playing = "asked" /\ OnFocusState(p, f, byAip).hasty
<1> DEFINE o == OnFocusState(p, f, byAip)
           q == [p EXCEPT !.focus = f]
           r == [q EXCEPT !.delayed = FALSE]
           s == [q EXCEPT !.focus = "NONE"]
           d == [q EXCEPT !.delayed = TRUE]
<1>1. q \in PlayerRecord /\ Same(p, q)
  BY DEF Tidy, Good, PlayerRecord, Same
<1>2. r \in PlayerRecord /\ Same(p, r)
  BY DEF Tidy, Good, PlayerRecord, Same
<1>3. s \in PlayerRecord /\ Same(p, s)
  BY DEF Tidy, Good, PlayerRecord, Focus, Same
<1>4. d \in PlayerRecord /\ Same(p, d)
  BY DEF Tidy, Good, PlayerRecord, Same
<1>5. \/ o \in {p, s, d}
      \/ f = "NONE" /\ o = LoseFocus(p)
      \/ o \in {PlayForeground(q), PlayBackground(q), PlayForeground(r), PlayBackground(r)}
  <2> HIDE DEF q, r, s, d
  <2>1. CASE f = p.focus
    BY <2>1 DEF OnFocusState
  <2>2. CASE f # p.focus /\ p.kind # "content"
    BY <2>2 DEF OnFocusState, OnHandlerFocus, Focus, q
  <2>3. CASE f # p.focus /\ p.kind = "content" /\ ~p.playAfterStop
    BY <2>3 DEF OnFocusState, OnContentFocus, q, s
  <2>4. CASE f # p.focus /\ p.kind = "content" /\ p.playAfterStop
    BY <2>4 DEF OnFocusState, OnContentFocus, Focus, q, r, d
  <2>5. p.playAfterStop \in BOOLEAN
    BY DEF Tidy, Good, PlayerRecord
  <2> QED BY <2>1, <2>2, <2>3, <2>4, <2>5
<1> HIDE DEF q, r, s, d, o
<1>6. /\ Tidy(q, n) /\ Goes(p, q) /\ Tidy(r, n) /\ Goes(p, r)
      /\ Tidy(s, n) /\ Goes(p, s) /\ Tidy(d, n) /\ Goes(p, d) /\ Goes(p, p)
  <2>1. Goes(p, p)
    BY DEF Goes, Tidy, Good, PlayerRecord
  <2> QED BY <1>1, <1>2, <1>3, <1>4, <2>1, SameTidy
<1>7. CASE o \in {p, s, d}
  BY <1>6, <1>7 DEF o
<1>8. CASE o = LoseFocus(p)
  <2>1. p.playing = "asked" => o.hasty
    <3> DEFINE l == [p EXCEPT !.focus = "NONE", !.wait = <<>>]
    <3>1. l \in PlayerRecord /\ l.playing = p.playing
      BY EmptySeq DEF Tidy, Good, PlayerRecord, Focus
    <3> HIDE DEF l
    <3>2. o = PlayerStop(Cut(l))
      BY <1>8 DEF LoseFocus, l
    <3> QED BY <3>1, <3>2, StopRemembered
  <2> QED BY <1>8, <2>1, LoseFocusTidy DEF o
<1>9. CASE o \in {PlayForeground(q), PlayBackground(q)}
  <2>1. Tidy(o, n) /\ Goes(q, o)
    BY <1>6, <1>9, PlayForegroundTidy, PlayBackgroundTidy
  <2> QED BY <1>6, <2>1, GoesTransitive DEF o
<1>10. CASE o \in {PlayForeground(r), PlayBackground(r)}
  <2>1. Tidy(o, n) /\ Goes(r, o)
    BY <1>6, <1>10, PlayForegroundTidy, PlayBackgroundTidy
  <2> QED BY <1>6, <2>1, GoesTransitive DEF o
<1> QED BY <1>5, <1>7, <1>8, <1>9, <1>10

\* An item has ended: the next is asked for, or the channel released.
LEMMA EndedTidy ==
  ASSUME NEW p, NEW n \in Nat, Tidy(p, n), p.playing = "null"
  PROVE  Tidy(Ended(p), n) /\ Goes(p, Ended(p))
BY PlayNextTidy, FocusTidy DEF Ended, ReleaseChannel, Focus

\* stop() of the handler
LEMMA HandlerStopTidy ==
  ASSUME NEW p, NEW n \in Nat, Tidy(p, n), p.playing # "asked", NEW after \in BOOLEAN
  PROVE  Tidy(HandlerStop(p, after), n) /\ Goes(p, HandlerStop(p, after))
<1> DEFINE q == [p EXCEPT !.playAfterStop = after]
<1>1. q \in PlayerRecord /\ Same(p, q) /\ Goes(p, p)
  BY DEF Tidy, Good, PlayerRecord, Same, Goes
<1>2. HandlerStop(p, after) = IF Active(p) THEN PlayerStop(Cut(q)) ELSE p
  BY DEF HandlerStop
<1> HIDE DEF q
<1>3. Tidy(q, n) /\ Goes(p, q) /\ q.playing # "asked"
  BY <1>1, SameTidy DEF Same
<1>4. Tidy(PlayerStop(Cut(q)), n) /\ Goes(q, PlayerStop(Cut(q)))
  BY <1>3, StopCutTidy
<1> QED BY <1>1, <1>2, <1>3, <1>4, GoesTransitive

\* getOffset(), whose answer goes on with doing
LEMMA OffsetTidy ==
  ASSUME NEW p, NEW n \in Nat, Tidy(p, n), p.playing # "asked",
         NEW doing, p.playing = "known" => Tidy(doing, n) /\ Goes(p, doing), NEW atOnce
  PROVE  Tidy(GetOffset(p, doing, atOnce), n) /\ Goes(p, GetOffset(p, doing, atOnce))
<1>1. CASE p.playing = "null"
  <2> DEFINE t == [p EXCEPT !.alive = FALSE]
  <2>1. GetOffset(p, doing, atOnce) = t
    BY <1>1 DEF GetOffset, Throw
  <2>2. t \in PlayerRecord /\ Same(p, t)
    BY DEF Tidy, Good, PlayerRecord, Same
  <2> HIDE DEF t
  <2> QED BY <2>1, <2>2, SameTidy
<1>2. CASE p.playing = "known"
  <2>1. GetOffset(p, doing, atOnce) = Send(doing, Control("OFFSET"))
    BY <1>2 DEF GetOffset
  <2>2. doing.playing = "known"
    BY <1>2 DEF Goes
  <2>3. Tidy(Send(doing, Control("OFFSET")), n) /\ Goes(doing, Send(doing, Control("OFFSET")))
    BY <1>2, <2>2, SendTidy
  <2> QED BY <1>2, <2>1, <2>3, GoesTransitive
<1> QED BY <1>1, <1>2 DEF Tidy, Good, PlayerRecord

\* stop() of the content player
LEMMA ContentStopTidy ==
  ASSUME NEW p, NEW n \in Nat, Tidy(p, n), p.playing # "asked", NEW after \in BOOLEAN
  PROVE  Tidy(ContentStop(p, after), n) /\ Goes(p, ContentStop(p, after))
<1> DEFINE m == [p EXCEPT !.delayed = FALSE, !.playAfterStop = after]
           r == [p EXCEPT !.delayed = FALSE]
           q == Cut(m)
           t == [q EXCEPT !.stops = q.stops \cup {q.item}]
           g == GetOffset(q, t, PlayerStop(q))
<1>1. m \in PlayerRecord /\ Same(p, m)
  BY DEF Tidy, Good, PlayerRecord, Same
<1>2. r \in PlayerRecord /\ Same(p, r)
  BY DEF Tidy, Good, PlayerRecord, Same
<1>3. ContentStop(p, after) = IF Active(p) THEN g ELSE r
  BY DEF ContentStop
<1> HIDE DEF m, r
<1>4. Tidy(r, n) /\ Goes(p, r) /\ Tidy(m, n) /\ Goes(p, m) /\ m.playing # "asked"
  BY <1>1, <1>2, SameTidy DEF Same
<1>5. /\ Tidy(q, n) /\ Goes(m, q) /\ q.playing # "asked"
      /\ q.playing = "known" => q.item \in q.cut
  BY <1>4, CutTidy
<1> HIDE DEF q
<1>6. q.playing = "known" => Tidy(t, n) /\ Goes(q, t)
  <2> SUFFICES ASSUME q.playing = "known" PROVE Tidy(t, n) /\ Goes(q, t)
    OBVIOUS
  <2>1. q \in PlayerRecord /\ q.item \in Item
    BY <1>5 DEF Tidy, Good
  <2>2. /\ t \in PlayerRecord /\ t.kind = q.kind /\ t.state = q.state /\ t.wait = q.wait /\ t.item = q.item
        /\ t.playing = q.playing /\ t.cancel = q.cancel /\ t.cut = q.cut /\ t.over = q.over
        /\ t.stale = q.stale /\ t.out = q.out /\ t.stops = q.stops \cup {q.item}
    BY <2>1 DEF PlayerRecord
  <2> HIDE DEF t
  <2>3. Good(t) /\ Sends(t) /\ Goes(q, t)
    BY <1>5, <2>2 DEF Tidy, Good, Sends, Goes, Active, VolDown
  <2>4. InLine(t, n)
    <3>1. q.item <= q.item
      BY <2>1 DEF Item
    <3> QED BY <1>5, <2>2, <3>1 DEF Tidy, InLine
  <2> QED BY <2>3, <2>4 DEF Tidy
<1> HIDE DEF t
<1>7. Tidy(g, n) /\ Goes(q, g)
  BY <1>5, <1>6, OffsetTidy
<1> HIDE DEF g
<1> QED BY <1>3, <1>4, <1>5, <1>7, GoesTransitive

\* stop(), of whichever player
LEMMA StopTidy ==
  ASSUME NEW p, NEW n \in Nat, Tidy(p, n), p.playing # "asked", NEW after \in BOOLEAN
  PROVE  Tidy(Stop(p, after), n) /\ Goes(p, Stop(p, after))
BY HandlerStopTidy, ContentStopTidy DEF Stop

\* ... remembers a stop of an item that is only asked for.
LEMMA HurryRemembered ==
  ASSUME NEW p \in PlayerRecord, p.playing = "asked", Active(p), NEW after \in BOOLEAN
  PROVE  Stop(p, after).hasty
<1> DEFINE h == [p EXCEPT !.playAfterStop = after]
           c == [p EXCEPT !.delayed = FALSE, !.playAfterStop = after]
<1>1. h \in PlayerRecord /\ h.playing = "asked" /\ c \in PlayerRecord /\ c.playing = "asked"
  BY DEF PlayerRecord
<1>2. p.kind # "content" => Stop(p, after) = PlayerStop(Cut(h))
  BY DEF Stop, HandlerStop
<1>3. p.kind = "content" => Stop(p, after) = PlayerStop(Cut(c))
  <2> DEFINE q == Cut(c)
  <2>1. q.playing = "asked"
    BY <1>1 DEF Cut, PlayerRecord
  <2>2. p.kind = "content" => Stop(p, after) = GetOffset(q, [q EXCEPT !.stops = @ \cup {q.item}], PlayerStop(q))
    BY DEF Stop, ContentStop
  <2> HIDE DEF q
  <2> QED BY <2>1, <2>2 DEF GetOffset, q
<1> HIDE DEF h, c
<1> QED BY <1>1, <1>2, <1>3, StopRemembered

\* An offset is taken for the answer to a stop, and is the answer to the stop of what plays.
LEMMA AnswerOffsetTidy ==
  ASSUME NEW p, NEW n \in Nat, Tidy(p, n), ~AnswerOffset(p).stale
  PROVE  Tidy(AnswerOffset(p), n) /\ Goes(p, AnswerOffset(p))
<1>1. CASE p.stops = {}
  BY <1>1 DEF AnswerOffset, Goes, Tidy, Good, PlayerRecord
<1>2. CASE p.stops # {}
  <2> DEFINE late == p.stale \/ (p.playing # "null" /\ p.stops \ {p.item} # {})
             q == [p EXCEPT !.stops = {}, !.stale = late]
  <2>1. AnswerOffset(p) = PlayerStop(q)
    BY <1>2 DEF AnswerOffset
  <2>2. late \in BOOLEAN
    BY DEF Tidy, Good, PlayerRecord
  <2>3. /\ q \in PlayerRecord /\ q.kind = p.kind /\ q.state = p.state /\ q.wait = p.wait /\ q.item = p.item
        /\ q.playing = p.playing /\ q.cancel = p.cancel /\ q.cut = p.cut /\ q.over = p.over
        /\ q.stale = late /\ q.out = p.out /\ q.stops = {}
    <3> HIDE DEF late
    <3> QED BY <2>2 DEF Tidy, Good, PlayerRecord
  <2> HIDE DEF q
  <2>4. PlayerStop(q).stale = q.stale
    <3>1. CASE q.playing = "asked"
      BY <2>3, <3>1 DEF PlayerStop, PlayerRecord
    <3>2. CASE q.playing # "asked"
      BY <2>3, <3>2 DEF PlayerStop, PlayControl, Send, PlayerRecord
    <3> QED BY <3>1, <3>2
  <2>5. ~late
    BY <2>1, <2>3, <2>4
  <2>6. p.playing # "null" => p.item \in p.cut /\ p.playing # "asked"
    <3> SUFFICES ASSUME p.playing # "null" PROVE p.item \in p.cut /\ p.playing # "asked"
      OBVIOUS
    <3>1. p.item \in p.stops /\ p.item \in Item
      BY <1>2, <2>5 DEF Tidy, Good
    <3>2. ~(p.item < p.item)
      BY <3>1 DEF Item
    <3> QED BY <3>1, <3>2 DEF Tidy, InLine
  <2>7. p.stale = FALSE /\ q.stale = FALSE
    BY <2>3, <2>5 DEF Tidy, Good, PlayerRecord
  <2>8. Good(q) /\ Sends(q) /\ Goes(p, q)
    BY <2>3, <2>7 DEF Tidy, Good, Sends, Goes, Active, VolDown
  <2>9. InLine(q, n)
    BY <2>3 DEF Tidy, InLine
  <2>10. Tidy(PlayerStop(q), n) /\ Goes(q, PlayerStop(q))
    BY <2>3, <2>6, <2>8, <2>9, PlayerStopTidy DEF Tidy
  <2> QED BY <2>1, <2>8, <2>10, GoesTransitive
<1> QED BY <1>1, <1>2
-------------------------------------------------------------------------------
(***************************************************************************)
(* The application keeps the protocol.                                     *)
(***************************************************************************)
\* A report that neither ends an item nor names its source is taken, or none is.
Minor(r) == r \in Report /\ r \notin {"source"} /\ r \notin Ending

\* What a callback leaves in the socket.
LEMMA CommandsJoin ==
  ASSUME TypeOK, NEW p \in PlayerRecord, Becomes(p)
  PROVE  /\ \A S : Has(cmds', S) <=> Has(cmds, S) \/ Has(p.out, S)
         /\ p.out = <<>> => cmds' = cmds
         /\ \A c \in Command : p.out = <<c>> =>
              /\ cmds' # <<>> /\ Len(cmds') = Len(cmds) + 1 /\ cmds'[Len(cmds')] = c
              /\ ~Has(cmds, Sources) => One(cmds', Sources)
<1>1. cmds \in Seq(Command) /\ p.out \in Seq(Command) /\ cmds' = cmds \o p.out
  BY DEF TypeOK, Becomes, PlayerRecord
<1>2. \A S : Has(cmds', S) <=> Has(cmds, S) \/ Has(p.out, S)
  BY <1>1, Joined
<1>3. p.out = <<>> => cmds' = cmds
  BY <1>1, ConcatEmptySeq
<1>4. ASSUME NEW c \in Command, p.out = <<c>>
      PROVE  /\ cmds' # <<>> /\ Len(cmds') = Len(cmds) + 1 /\ cmds'[Len(cmds')] = c
             /\ ~Has(cmds, Sources) => One(cmds', Sources)
  <2> DEFINE a == Append(cmds, c)
  <2> HIDE DEF Command
  <2>1. cmds' = a
    BY <1>1, <1>4, AppendIsConcat
  <2>2. a \in Seq(Command) /\ Len(a) = Len(cmds) + 1 /\ a[Len(cmds) + 1] = c /\ Len(cmds) \in Nat
    BY <1>1, AppendProperties
  <2>3. ~Has(cmds, Sources) => One(a, Sources)
    <3>1. ~Has(cmds, Sources) => One(cmds, Sources)
      BY DEF Has, One
    <3> QED BY <1>1, <3>1, Appended
  <2> HIDE DEF a
  <2>4. a # <<>>
    BY <2>2
  <2> QED BY <2>1, <2>2, <2>3, <2>4
<1> QED BY <1>2, <1>3, <1>4

\* A report is taken, or none.
LEMMA ReportTaken ==
  ASSUME TypeOK,
         reports' = reports \/ \E k \in 1..Len(reports) : Minor(reports[k]) /\ reports' = Without(reports, k)
  PROVE  /\ Has(reports', {"source"}) <=> Has(reports, {"source"})
         /\ Has(reports', Ending) <=> Has(reports, Ending)
         /\ Has(reports', {"error"}) => Has(reports, {"error"})
         /\ One(reports, {"source"}) => One(reports', {"source"})
         /\ One(reports, Ending) => One(reports', Ending)
<1>1. CASE reports' = reports
  BY <1>1
<1>2. CASE \E k \in 1..Len(reports) : Minor(reports[k]) /\ reports' = Without(reports, k)
  <2>1. PICK k \in 1..Len(reports) : Minor(reports[k]) /\ reports' = Without(reports, k)
    BY <1>2
  <2>2. reports \in Seq(Report) /\ reports[k] \notin {"source"} /\ reports[k] \notin Ending
    BY <2>1 DEF TypeOK, Minor
  <2> DEFINE w == Without(reports, k)
  <2>3. (Has(w, {"source"}) <=> Has(reports, {"source"})) /\ (One(reports, {"source"}) => One(w, {"source"}))
    BY <2>2, TakenOut
  <2>4. (Has(w, Ending) <=> Has(reports, Ending)) /\ (One(reports, Ending) => One(w, Ending))
    BY <2>2, TakenOut
  <2>5. Has(w, {"error"}) => Has(reports, {"error"})
    BY <2>2, TakenOut
  <2> HIDE DEF w
  <2>6. reports' = w
    BY <2>1 DEF w
  <2> QED BY <2>3, <2>4, <2>5, <2>6
<1> QED BY <1>1, <1>2

\* A callback after which the same item plays, or the next one is asked for.
LEMMA CallbackKeeps ==
  ASSUME TypeOK, Protocol, UNCHANGED processVars,
         NEW p, Becomes(p), Tidy(p, directives'),
         NEW a \in Activity, Goes([player EXCEPT !.state = a], p),
         reports' = reports \/ \E k \in 1..Len(reports) : Minor(reports[k]) /\ reports' = Without(reports, k)
  PROVE  Protocol'
<1>1. /\ Untold' = Untold /\ stream' = stream /\ stopTid' = stopTid /\ status' = status /\ heard' = heard
      /\ notes' = notes
  BY DEF processVars, Untold
<1>2. /\ Has(reports', {"source"}) <=> Has(reports, {"source"})
      /\ Has(reports', Ending) <=> Has(reports, Ending)
      /\ Has(reports', {"error"}) => Has(reports, {"error"})
      /\ One(reports, {"source"}) => One(reports', {"source"})
      /\ One(reports, Ending) => One(reports', Ending)
  BY ReportTaken
<1>3. p \in PlayerRecord
  BY DEF Tidy, Good
<1>4. /\ player'.playing = p.playing /\ player'.item = p.item /\ player'.wait = p.wait
      /\ player'.stops = p.stops /\ player'.cut = p.cut /\ player'.over = p.over /\ player'.cancel = p.cancel
  BY <1>3 DEF Becomes, PlayerRecord
<1> DEFINE b == [player EXCEPT !.state = a]
<1>5. /\ b.playing = player.playing /\ b.item = player.item /\ b.cut = player.cut /\ b.over = player.over
      /\ b.out = <<>> /\ Goes(b, p)
  BY DEF TypeOK, HandlerTypeOK, PlayerRecord
<1> HIDE DEF b
<1>6. InLine(player, directives)'
  BY <1>4 DEF Tidy, InLine
<1>7. player'.over \subseteq heard' \cup player'.cut
  BY <1>1, <1>4, <1>5 DEF Protocol, Goes
<1>8. ErrorFree'
  BY <1>1, <1>2 DEF Protocol, ErrorFree
<1>9. Clear => Clear'
  BY <1>1, <1>2 DEF Clear
<1>10. /\ \A S : Has(cmds', S) <=> Has(cmds, S) \/ Has(p.out, S)
       /\ p.out = <<>> => cmds' = cmds
       /\ \A c \in Command : p.out = <<c>> =>
            /\ cmds' # <<>> /\ Len(cmds') = Len(cmds) + 1 /\ cmds'[Len(cmds')] = c
            /\ ~Has(cmds, Sources) => One(cmds', Sources)
  BY <1>3, CommandsJoin
<1>11. CASE player.playing = "null" /\ p.playing = "null"
  <2>1. cmds' = cmds
    BY <1>10, <1>11 DEF Tidy, Sends
  <2>2. Nothing'
    BY <1>1, <1>9, <1>11, <2>1 DEF Protocol, Nothing, Untouched
  <2> QED BY <1>4, <1>6, <1>7, <1>8, <1>11, <2>2 DEF Protocol
<1>12. CASE player.playing = "null" /\ p.playing # "null"
  <2>1. p.playing = "asked" /\ p.out = <<SetSource(p.item)>> /\ SetSource(p.item) \in Command
    BY <1>5, <1>12 DEF Goes, Tidy, Good, SetSource, Command
  <2>2. Nothing
    BY <1>12 DEF Protocol
  <2>3. cmds' # <<>> /\ Len(cmds') = Len(cmds) + 1 /\ cmds'[Len(cmds')] = SetSource(p.item) /\ One(cmds', Sources)
    BY <1>10, <2>1, <2>2 DEF Nothing
  <2>4. Requested'
    <3>1. cmds = <<>> => Len(cmds') = 1
      BY <2>3
    <3> QED BY <1>1, <1>4, <1>9, <2>2, <2>3, <3>1 DEF Nothing, Requested, Untouched
  <2> QED BY <1>4, <1>6, <1>7, <1>8, <2>1, <2>4 DEF Protocol
<1>13. CASE player.playing = "asked"
  <2>1. p.playing = "asked" /\ p.item = player.item /\ cmds' = cmds /\ player.cut \subseteq p.cut
    BY <1>5, <1>10, <1>13 DEF Goes
  <2>2. Requested => Requested'
    BY <1>1, <1>4, <1>9, <2>1 DEF Requested, Untouched
  <2>3. Identified => Identified'
    BY <1>1, <1>2, <1>4, <2>1 DEF Identified, ItemThere, StopIsLast
  <2> QED BY <1>4, <1>6, <1>7, <1>8, <1>13, <2>1, <2>2, <2>3 DEF Protocol
<1>14. CASE player.playing = "known"
  <2>1. p.playing = "known" /\ p.item = player.item /\ player.cut \subseteq p.cut
    BY <1>5, <1>14 DEF Goes
  <2>2. AtProcess
    BY <1>14 DEF Protocol
  <2>3. ~Has(cmds', Sources)
    BY <1>10, <2>1, <2>2 DEF AtProcess, ItemThere, Tidy, Sends
  <2>4. Has(cmds', {Control("STOP")}) => player'.item \in heard \cup player'.cut
    BY <1>4, <1>10, <2>1, <2>2 DEF AtProcess, ItemThere, Tidy, Sends
  <2>5. StopIsLast'
    BY <1>1, <2>2 DEF AtProcess, ItemThere, StopIsLast
  <2>6. AtProcess'
    BY <1>1, <1>2, <1>4, <2>1, <2>2, <2>3, <2>4, <2>5 DEF AtProcess, ItemThere
  <2> QED BY <1>4, <1>6, <1>7, <1>8, <2>1, <2>6 DEF Protocol
<1> QED BY <1>11, <1>12, <1>13, <1>14 DEF TypeOK, HandlerTypeOK, PlayerRecord

\* The player, as it is when the report at place k comes.
Hearer(k) == [player EXCEPT !.crossed = @ \/ k # 1]

\* It is the player it was.
LEMMA HearerIsPlayer ==
  ASSUME TypeOK, NEW k \in Nat
  PROVE  /\ Hearer(k) \in PlayerRecord /\ Same(player, Hearer(k)) /\ Hearer(k).out = <<>>
         /\ Hearer(k).wait = player.wait /\ Hearer(k).hasty = player.hasty
         /\ Hearer(k).crossed = (player.crossed \/ k # 1)
<1>1. (player.crossed \/ k # 1) \in BOOLEAN
  BY DEF TypeOK, HandlerTypeOK, PlayerRecord
<1> QED BY <1>1 DEF Hearer, Same, TypeOK, HandlerTypeOK, PlayerRecord

\* The report that an item has ended is taken: it is over, and the next may be asked for.
LEMMA EndKeeps ==
  ASSUME TypeOK, PlayerInv, Protocol, UNCHANGED processVars, player.playing # "asked",
         NEW k \in 1..Len(reports), reports[k] \in Ending, reports' = Without(reports, k),
         NEW p, Becomes(p), Tidy(p, directives'),
         NEW a \in Activity, Goes([Drop(Hearer(k)) EXCEPT !.state = a], p)
  PROVE  Protocol'
<1>1. /\ Untold' = Untold /\ stream' = stream /\ stopTid' = stopTid /\ status' = status /\ heard' = heard
      /\ notes' = notes
  BY DEF processVars, Untold
<1>2. p \in PlayerRecord
  BY DEF Tidy, Good
<1>3. /\ player'.playing = p.playing /\ player'.item = p.item /\ player'.wait = p.wait
      /\ player'.stops = p.stops /\ player'.cut = p.cut /\ player'.over = p.over /\ player'.cancel = p.cancel
  BY <1>2 DEF Becomes, PlayerRecord
<1>4. Has(reports, Ending)
  BY DEF Has
<1>5. player.playing = "known" /\ AtProcess
  BY <1>4 DEF Protocol, Nothing, Clear, TypeOK, HandlerTypeOK, PlayerRecord
<1>6. /\ stream = NoStream /\ stopTid = "done" /\ ~Has(Untold, {"STOPED", "COMPLETE"})
      /\ ~Has(cmds, Sources) /\ ~Has(reports, {"source"}) /\ One(reports, Ending)
      /\ player.item \in heard \cup player.cut
  BY <1>4, <1>5 DEF AtProcess, ItemThere
<1>7. /\ ~Has(reports', {"source"}) /\ ~Has(reports', Ending)
      /\ Has(reports', {"error"}) => Has(reports, {"error"})
  <2>1. reports \in Seq(Report)
    BY DEF TypeOK
  <2>2. ~Has(Without(reports, k), {"source"})
    BY <1>6, <2>1, TakenOut
  <2>3. ~Has(Without(reports, k), Ending)
    BY <1>6, <2>1, TakenOut
  <2>4. Has(Without(reports, k), {"error"}) => Has(reports, {"error"})
    BY <2>1, TakenOut
  <2> QED BY <2>2, <2>3, <2>4
<1> DEFINE h == Hearer(k)
           b == [Drop(h) EXCEPT !.state = a]
<1>15. h \in PlayerRecord /\ Same(player, h)
  BY HearerIsPlayer
<1> HIDE DEF h
<1>8. b.playing = "null" /\ b.cut = player.cut /\ b.over = player.over \cup {player.item} /\ Goes(b, p)
  <2>1. b.playing = "null" /\ b.cut = h.cut /\ b.over = h.over \cup {h.item}
    BY <1>5, <1>15 DEF Drop, Same, PlayerRecord
  <2> QED BY <1>15, <2>1 DEF Same, h
<1> HIDE DEF b
<1>9. InLine(player, directives)'
  BY <1>3 DEF Tidy, InLine
<1>10. player'.over \subseteq heard' \cup player'.cut
  BY <1>1, <1>3, <1>6, <1>8 DEF Protocol, Goes
<1>11. ErrorFree' /\ Clear'
  BY <1>1, <1>6, <1>7 DEF Protocol, ErrorFree, Clear
<1>12. /\ p.out = <<>> => cmds' = cmds
       /\ \A c \in Command : p.out = <<c>> =>
            /\ cmds' # <<>> /\ Len(cmds') = Len(cmds) + 1 /\ cmds'[Len(cmds')] = c
            /\ ~Has(cmds, Sources) => One(cmds', Sources)
  BY <1>2, CommandsJoin
<1>13. CASE p.playing = "null"
  <2>1. cmds' = cmds
    BY <1>12, <1>13 DEF Tidy, Sends
  <2>2. Nothing'
    BY <1>1, <1>6, <1>11, <2>1 DEF Nothing
  <2> QED BY <1>3, <1>9, <1>10, <1>11, <1>13, <2>2 DEF Protocol
<1>14. CASE p.playing # "null"
  <2>1. p.playing = "asked" /\ p.out = <<SetSource(p.item)>> /\ SetSource(p.item) \in Command
    BY <1>8, <1>14 DEF Goes, Tidy, Good, SetSource, Command
  <2>2. cmds' # <<>> /\ cmds'[Len(cmds')] = SetSource(p.item) /\ One(cmds', Sources)
    BY <1>6, <1>12, <2>1
  <2>3. Requested'
    BY <1>1, <1>3, <1>6, <1>11, <2>2 DEF Requested
  <2> QED BY <1>3, <1>9, <1>10, <1>11, <2>1, <2>3 DEF Protocol
<1> QED BY <1>13, <1>14

\* The source id is taken: the item is told to play.
LEMMA SourceKeeps ==
  ASSUME TypeOK, PlayerInv, Protocol, UNCHANGED processVars, directives' = directives,
         NEW k \in 1..Len(reports), reports[k] = "source", reports' = Without(reports, k),
         Becomes(KnowSource(Hearer(k)))
  PROVE  Protocol'
<1>1. /\ Untold' = Untold /\ stream' = stream /\ stopTid' = stopTid /\ status' = status /\ heard' = heard
      /\ notes' = notes
  BY DEF processVars, Untold
<1>2. Has(reports, {"source"})
  BY DEF Has
<1>3. player.playing = "asked" /\ Identified /\ ~player.cancel
  BY <1>2 DEF Protocol, Nothing, Requested, Clear, AtProcess, InLine, TypeOK, HandlerTypeOK, PlayerRecord
<1> DEFINE h == Hearer(k)
           q == [h EXCEPT !.playing = "known"]
           p == Send(q, Control("PLAY"))
<1>15. h \in PlayerRecord /\ Same(player, h) /\ h.wait = player.wait /\ h.out = <<>>
  BY HearerIsPlayer
<1> HIDE DEF h
<1>4. KnowSource(h) = p
  BY <1>3, <1>15 DEF KnowSource, Same
<1>5. /\ q \in PlayerRecord /\ q.playing = "known" /\ q.item = player.item /\ q.wait = player.wait
      /\ q.stops = player.stops /\ q.cut = player.cut /\ q.over = player.over /\ q.out = <<>>
  BY <1>15 DEF Same, PlayerRecord
<1>6. Control("PLAY") \in Command
  BY DEF Control, Command
<1> HIDE DEF q
<1>7. /\ p \in PlayerRecord /\ p.playing = "known" /\ p.item = q.item /\ p.wait = q.wait
      /\ p.stops = q.stops /\ p.cut = q.cut /\ p.over = q.over /\ p.out = <<Control("PLAY")>>
  <2>1. p \in PlayerRecord
    BY <1>5, <1>6, SendKeeps
  <2>2. p = [q EXCEPT !.out = <<Control("PLAY")>>]
    BY <1>5 DEF Send
  <2> HIDE DEF p
  <2> QED BY <1>5, <2>1, <2>2 DEF PlayerRecord
<1> HIDE DEF p
<1>8. /\ player'.playing = "known" /\ player'.item = player.item /\ player'.wait = player.wait
      /\ player'.stops = player.stops /\ player'.cut = player.cut /\ player'.over = player.over
  <2>1. Becomes(p)
    BY <1>4 DEF h
  <2> QED BY <1>5, <1>7, <2>1 DEF Becomes, PlayerRecord
<1>9. ~Has(cmds', Sources) /\ ~Has(cmds', {Control("STOP")})
  <2>1. Becomes(p)
    BY <1>4 DEF h
  <2>2. \A S : Has(cmds', S) <=> Has(cmds, S) \/ Has(p.out, S)
    BY <1>7, <2>1, CommandsJoin
  <2>3. ~Has(p.out, Sources) /\ ~Has(p.out, {Control("STOP")})
    <3>1. \A i \in 1..Len(p.out) : p.out[i] = Control("PLAY")
      <4> HIDE DEF Control
      <4> QED BY <1>7
    <3>2. Control("PLAY") \notin Sources /\ Control("PLAY") \notin {Control("STOP")}
      BY DEF Sources, SetSource, Control
    <3> QED BY <3>1, <3>2 DEF Has
  <2>4. cmds = <<>>
    BY <1>3 DEF Identified
  <2>5. \A S : ~Has(cmds, S)
    BY <2>4 DEF Has
  <2> QED BY <2>2, <2>3, <2>5
<1>10. /\ ~Has(reports', {"source"})
       /\ Has(reports', Ending) => Has(reports, Ending)
       /\ Has(reports', {"error"}) => Has(reports, {"error"})
       /\ One(reports, Ending) => One(reports', Ending)
  <2>1. reports \in Seq(Report) /\ One(reports, {"source"})
    BY <1>3 DEF TypeOK, Identified
  <2>2. ~Has(Without(reports, k), {"source"})
    BY <2>1, TakenOut
  <2>3. Has(Without(reports, k), Ending) => Has(reports, Ending)
    BY <2>1, TakenOut
  <2>4. Has(Without(reports, k), {"error"}) => Has(reports, {"error"})
    BY <2>1, TakenOut
  <2>5. One(reports, Ending) => One(Without(reports, k), Ending)
    BY <2>1, TakenOut
  <2> QED BY <2>2, <2>3, <2>4, <2>5
<1>11. ErrorFree' /\ InLine(player, directives)' /\ player'.over \subseteq heard' \cup player'.cut
  <2>1. ErrorFree'
    BY <1>1, <1>10 DEF Protocol, ErrorFree
  <2>2. InLine(player, directives)'
    BY <1>3, <1>8 DEF Protocol, InLine
  <2> QED BY <1>1, <1>8, <2>1, <2>2 DEF Protocol
<1>12. StopIsLast'
  BY <1>1, <1>3 DEF Identified, ItemThere, StopIsLast
<1>14. AtProcess'
  BY <1>1, <1>3, <1>8, <1>9, <1>10, <1>12 DEF AtProcess, Identified, ItemThere
<1> QED BY <1>8, <1>11, <1>14 DEF Protocol

\* What has just been asked for waits last.
LEMMA WaitTidy ==
  ASSUME NEW p, NEW n \in Nat, n + 1 \in Item, Tidy(p, n),
         NEW w \in {<<n + 1>>, Append(p.wait, n + 1)}
  PROVE  Tidy([p EXCEPT !.wait = w], n + 1) /\ Goes(p, [p EXCEPT !.wait = w])
<1> DEFINE q == [p EXCEPT !.wait = w]
           i == n + 1
<1>1. p \in PlayerRecord /\ p.wait \in Seq(Item) /\ p.item \in Nat /\ p.item <= n
  BY DEF Tidy, Good, PlayerRecord, InLine, Item
<1>2. \A j \in 1..Len(p.wait) : p.wait[j] \in Nat /\ p.wait[j] <= n /\ p.item < p.wait[j]
  <2>1. \A j \in 1..Len(p.wait) : p.wait[j] \in Item
    BY <1>1
  <2> QED BY <2>1 DEF Tidy, InLine, Item
<1>3. /\ w \in Seq(Item)
      /\ \A j \in 1..Len(w) : (j \in 1..Len(p.wait) /\ w[j] = p.wait[j]) \/ (j = Len(w) /\ w[j] = n + 1)
  <2>1. CASE w = <<n + 1>>
    BY <2>1
  <2>2. CASE w = Append(p.wait, n + 1)
    <3>1. /\ w \in Seq(Item) /\ Len(w) = Len(p.wait) + 1 /\ w[Len(p.wait) + 1] = n + 1 /\ Len(p.wait) \in Nat
          /\ \A j \in 1..Len(p.wait) : w[j] = p.wait[j]
      BY <1>1, <2>2, AppendProperties
    <3> QED BY <3>1
  <2> QED BY <2>1, <2>2
<1>4. /\ q \in PlayerRecord /\ q.kind = p.kind /\ q.state = p.state /\ q.item = p.item /\ q.playing = p.playing
      /\ q.cancel = p.cancel /\ q.stops = p.stops /\ q.cut = p.cut /\ q.over = p.over /\ q.stale = p.stale
      /\ q.out = p.out /\ q.wait = w
  BY <1>1, <1>3 DEF PlayerRecord
<1> HIDE DEF q
<1>5. Good(q) /\ Sends(q) /\ Goes(p, q)
  BY <1>4 DEF Tidy, Good, Sends, Goes, Active, VolDown
<1>6. \A j \in 1..Len(w) : p.item < w[j] /\ w[j] <= n + 1
  BY <1>1, <1>2, <1>3
<1>7. ASSUME NEW j \in 1..Len(w), NEW l \in 1..Len(w), j < l PROVE w[j] < w[l]
  <2>1. j # Len(w)
    BY <1>3, <1>7
  <2>2. j \in 1..Len(p.wait) /\ w[j] = p.wait[j]
    BY <1>3, <2>1
  <2>3. CASE l \in 1..Len(p.wait) /\ w[l] = p.wait[l]
    BY <1>7, <2>2, <2>3 DEF Tidy, InLine
  <2>4. CASE w[l] = n + 1
    BY <1>2, <2>2, <2>4
  <2> QED BY <1>3, <2>3, <2>4
<1>8. InLine(q, n + 1)
  <2>1. p.item <= n + 1
    BY <1>1
  <2> QED BY <1>4, <1>6, <1>7, <2>1 DEF Tidy, InLine
<1> QED BY <1>4, <1>5, <1>8 DEF Tidy, q

-------------------------------------------------------------------------------
(***************************************************************************)
(* What has gone wrong is remembered, and a player stays the player it is. *)
(***************************************************************************)
HasMarks(p) == {"kind", "stale", "hasty", "crossed"} \subseteq DOMAIN p

Stays(p, q) ==
  HasMarks(q) /\ q.kind = p.kind /\ (p.stale => q.stale) /\ (p.hasty => q.hasty) /\ (p.crossed => q.crossed)

\* Two steps of this sort are one.
LEMMA StaysTransitive ==
  ASSUME NEW p, NEW q, NEW r, Stays(p, q), Stays(q, r)
  PROVE  Stays(p, r)
BY DEF Stays

\* What EVSMediaPlayer does.
LEMMA MediaPlayerStays ==
  ASSUME NEW p, HasMarks(p), NEW c
  PROVE  /\ Stays(p, p) /\ Stays(p, Send(p, c)) /\ Stays(p, PlayControl(p, c)) /\ Stays(p, PlayerStop(p))
         /\ Stays(p, PlayerPause(p)) /\ Stays(p, PlayerResume(p)) /\ Stays(p, Drop(p)) /\ Stays(p, Throw(p))
         /\ Stays(p, Cut(p)) /\ Stays(p, PlayItem(p)) /\ Stays(p, PlayerStop(Cut(p)))
<1>1. /\ Stays(p, p) /\ Stays(p, Drop(p)) /\ Stays(p, Throw(p)) /\ Stays(p, Cut(p))
  BY DEF Stays, HasMarks, Drop, Throw, Cut
<1>2. ASSUME NEW q, HasMarks(q), NEW d PROVE Stays(q, Send(q, d))
  BY <1>2 DEF Stays, HasMarks, Send
<1>3. ASSUME NEW q, HasMarks(q), NEW d PROVE Stays(q, PlayControl(q, d))
  BY <1>2, <1>3 DEF PlayControl, Stays
<1>4. ASSUME NEW q, HasMarks(q) PROVE Stays(q, PlayerStop(q))
  <2>1. Stays(q, [q EXCEPT !.cancel = TRUE])
    BY <1>4 DEF Stays, HasMarks
  <2> QED BY <1>3, <1>4, <2>1 DEF PlayerStop
<1>5. Stays(p, PlayerPause(p)) /\ Stays(p, PlayerResume(p))
  BY <1>1, <1>3 DEF PlayerPause, PlayerResume
<1>6. Stays(p, PlayItem(p))
  <2> DEFINE q == [p EXCEPT !.playing = "asked", !.cancel = FALSE, !.state = "PLAYING"]
  <2>1. Stays(p, q)
    BY DEF Stays, HasMarks
  <2>2. PlayItem(p) \in {p, Send(q, SetSource(p.item))}
    BY DEF PlayItem
  <2> HIDE DEF q
  <2>3. Stays(q, Send(q, SetSource(p.item)))
    BY <1>2, <2>1 DEF Stays
  <2> QED BY <1>1, <2>1, <2>2, <2>3, StaysTransitive
<1>7. Stays(p, PlayerStop(Cut(p)))
  <2>1. Stays(Cut(p), PlayerStop(Cut(p)))
    BY <1>1, <1>4 DEF Stays
  <2> QED BY <1>1, <2>1, StaysTransitive
<1> QED BY <1>1, <1>2, <1>3, <1>4, <1>5, <1>6, <1>7

\* What EVSPlayerHandler does with a focus.
LEMMA HandlerStays ==
  ASSUME NEW p, HasMarks(p)
  PROVE  /\ Stays(p, PlayNext(p)) /\ Stays(p, PlayForeground(p)) /\ Stays(p, PlayBackground(p))
         /\ Stays(p, LoseFocus(p))
<1>1. ASSUME NEW q, HasMarks(q) PROVE Stays(q, PlayNext(q))
  <2> DEFINE r == [q EXCEPT !.item = Head(q.wait), !.wait = Tail(q.wait), !.loud = @ \/ q.focus = "FOREGROUND"]
  <2>1. Stays(q, r) /\ Stays(q, q)
    BY <1>1 DEF Stays, HasMarks
  <2>2. PlayNext(q) \in {q, PlayItem(r)}
    BY DEF PlayNext
  <2> HIDE DEF r
  <2>3. Stays(r, PlayItem(r))
    BY <2>1, MediaPlayerStays DEF Stays
  <2> QED BY <2>1, <2>2, <2>3, StaysTransitive
<1>2. ASSUME NEW b \in BOOLEAN
      PROVE  Stays(p, [p EXCEPT !.loud = b]) /\ Stays(p, PlayNext([p EXCEPT !.loud = b]))
  <2> DEFINE q == [p EXCEPT !.loud = b]
  <2>1. Stays(p, q)
    BY DEF Stays, HasMarks
  <2> HIDE DEF q
  <2>2. Stays(q, PlayNext(q))
    BY <1>1, <2>1 DEF Stays
  <2>3. Stays(p, PlayNext(q))
    BY <2>1, <2>2, StaysTransitive
  <2> QED BY <2>1, <2>3 DEF q
<1>3. /\ Stays(p, PlayerResume(p)) /\ Stays(p, PlayerPause(p))
  BY MediaPlayerStays
<1>4. Stays(p, PlayForeground(p))
  <2>1. PlayForeground(p) \in {PlayerResume(p), PlayNext([p EXCEPT !.loud = TRUE]), [p EXCEPT !.loud = TRUE]}
    BY DEF PlayForeground, Active
  <2> QED BY <1>2, <1>3, <2>1
<1>5. Stays(p, PlayBackground(p))
  <2>1. PlayBackground(p) \in {PlayerPause(p), PlayNext([p EXCEPT !.loud = FALSE]), [p EXCEPT !.loud = FALSE]}
    BY DEF PlayBackground, Active
  <2> QED BY <1>2, <1>3, <2>1
<1>6. Stays(p, LoseFocus(p))
  <2> DEFINE q == [p EXCEPT !.focus = "NONE", !.wait = <<>>]
  <2>1. Stays(p, q)
    BY DEF Stays, HasMarks
  <2> HIDE DEF q
  <2>2. Stays(q, PlayerStop(Cut(q)))
    BY <2>1, MediaPlayerStays DEF Stays
  <2> QED BY <2>1, <2>2, StaysTransitive DEF LoseFocus, q
<1> QED BY <1>1, <1>4, <1>5, <1>6

\* A focus is told.
LEMMA FocusStays ==
  ASSUME NEW p, HasMarks(p), NEW f \in Focus, NEW byAip \in BOOLEAN
  PROVE  Stays(p, OnFocusState(p, f, byAip))
<1> DEFINE o == OnFocusState(p, f, byAip)
           q == [p EXCEPT !.focus = f]
           r == [q EXCEPT !.delayed = FALSE]
           s == [q EXCEPT !.focus = "NONE"]
           d == [q EXCEPT !.delayed = TRUE]
<1>1. Stays(p, p) /\ Stays(p, q) /\ Stays(p, r) /\ Stays(p, s) /\ Stays(p, d)
  BY DEF Stays, HasMarks
<1> HIDE DEF q, r, s, d
<1>2. o \in {p, s, d, LoseFocus(p), PlayForeground(q), PlayBackground(q), PlayForeground(r), PlayBackground(r)}
  <2>1. CASE f = p.focus
    BY <2>1 DEF OnFocusState
  <2>2. CASE f # p.focus /\ p.kind # "content"
    BY <2>2 DEF OnFocusState, OnHandlerFocus, Focus, q
  <2>3. CASE f # p.focus /\ p.kind = "content" /\ ~p.playAfterStop
    BY <2>3 DEF OnFocusState, OnContentFocus, q, s
  <2>4. CASE f # p.focus /\ p.kind = "content" /\ p.playAfterStop
    BY <2>4 DEF OnFocusState, OnContentFocus, Focus, q, r, d
  <2> QED BY <2>1, <2>2, <2>3, <2>4
<1> HIDE DEF o
<1>3. CASE o \in {p, s, d, LoseFocus(p)}
  BY <1>1, <1>3, HandlerStays DEF o
<1>4. CASE o \in {PlayForeground(q), PlayBackground(q)}
  <2>1. Stays(q, o)
    BY <1>1, <1>4, HandlerStays DEF Stays
  <2> QED BY <1>1, <2>1, StaysTransitive DEF o
<1>5. CASE o \in {PlayForeground(r), PlayBackground(r)}
  <2>1. Stays(r, o)
    BY <1>1, <1>5, HandlerStays DEF Stays
  <2> QED BY <1>1, <2>1, StaysTransitive DEF o
<1> QED BY <1>2, <1>3, <1>4, <1>5

\* What the players do with a stop, and with the reports.
LEMMA StopStays ==
  ASSUME NEW p \in PlayerRecord, NEW after \in BOOLEAN
  PROVE  Stays(p, Stop(p, after))
<1> DEFINE q == [p EXCEPT !.playAfterStop = after]
           r == [p EXCEPT !.delayed = FALSE]
           m == [p EXCEPT !.delayed = FALSE, !.playAfterStop = after]
           c == Cut(m)
           t == [c EXCEPT !.stops = @ \cup {c.item}]
<1>0. HasMarks(p) /\ c.playing \in {"null", "asked", "known"}
  BY DEF HasMarks, PlayerRecord, Cut
<1>1. Stays(p, p) /\ Stays(p, q) /\ Stays(p, r) /\ Stays(p, m)
  BY <1>0 DEF Stays, HasMarks
<1>2. Stop(p, after) \in {p, PlayerStop(Cut(q)), r, Throw(c), PlayerStop(c), Send(t, Control("OFFSET"))}
                           \cup {GetOffset(c, t, PlayerStop(c))}
  BY DEF Stop, HandlerStop, ContentStop
<1> HIDE DEF q, r, m
<1>3. Stays(p, PlayerStop(Cut(q)))
  BY <1>1, MediaPlayerStays, StaysTransitive DEF Stays
<1>4. Stays(p, c)
  <2>1. Stays(m, c)
    BY <1>1, MediaPlayerStays DEF Stays
  <2> QED BY <1>1, <2>1, StaysTransitive
<1> HIDE DEF c
<1>5. Stays(c, t)
  BY <1>4 DEF Stays, HasMarks
<1> HIDE DEF t
<1>6. Stays(p, Throw(c)) /\ Stays(p, PlayerStop(c))
  <2>1. Stays(c, Throw(c)) /\ Stays(c, PlayerStop(c))
    BY <1>4, MediaPlayerStays DEF Stays
  <2> QED BY <1>4, <2>1, StaysTransitive
<1>7. Stays(p, Send(t, Control("OFFSET")))
  <2>1. Stays(t, Send(t, Control("OFFSET")))
    BY <1>5, MediaPlayerStays DEF Stays
  <2> QED BY <1>4, <1>5, <2>1, StaysTransitive
<1>8. Stays(p, GetOffset(c, t, PlayerStop(c)))
  BY <1>0, <1>6, <1>7 DEF GetOffset
<1> QED BY <1>1, <1>2, <1>3, <1>6, <1>7, <1>8

\* The activity changes, with what follows inside its emit.
LEMMA ChangeStays ==
  ASSUME NEW p, HasMarks(p), NEW a
  PROVE  Stays(p, ChangeActivity(p, a))
<1>1. ASSUME NEW q, HasMarks(q) PROVE Stays(q, Ended(q))
  <2>1. Stays(q, PlayNext(q)) /\ Stays(q, OnFocusState(q, "NONE", FALSE))
    BY <1>1, HandlerStays, FocusStays DEF Focus
  <2> QED BY <2>1 DEF Ended, ReleaseChannel
<1> DEFINE q == [p EXCEPT !.state = a]
<1>2. Stays(p, p) /\ Stays(p, q)
  BY DEF Stays, HasMarks
<1>3. ChangeActivity(p, a) \in {p, q, Ended(q)}
  BY DEF ChangeActivity
<1> HIDE DEF q
<1>4. Stays(q, Ended(q))
  BY <1>1, <1>2 DEF Stays
<1> QED BY <1>2, <1>3, <1>4, StaysTransitive

\* A report is heard.
LEMMA HearStays ==
  ASSUME NEW p \in PlayerRecord, NEW r \in Report
  PROVE  Stays(p, CASE r = "source"                  -> KnowSource(p)
                    [] r = "offset"                  -> AnswerOffset(p)
                    [] r \notin {"source", "offset"} -> HearStatus(p, r))
<1>0. HasMarks(p) /\ Stays(p, p)
  BY DEF Stays, HasMarks, PlayerRecord
<1>1. CASE r = "source"
  <2> DEFINE q == [p EXCEPT !.playing = "known"]
             s == Send(p, Control("STOP"))
             d == Drop(s)
  <2>1. KnowSource(p) \in {Throw(p), ChangeActivity(d, "STOPPED"), Send(q, Control("PLAY"))}
    BY DEF KnowSource, PlayerRecord
  <2>2. Stays(p, q) /\ Stays(p, s) /\ Stays(p, Throw(p))
    BY <1>0, MediaPlayerStays DEF Stays, HasMarks
  <2> HIDE DEF q, s
  <2>3. Stays(s, d) /\ Stays(q, Send(q, Control("PLAY")))
    BY <2>2, MediaPlayerStays DEF Stays
  <2> HIDE DEF d
  <2>4. Stays(d, ChangeActivity(d, "STOPPED"))
    BY <2>3, ChangeStays DEF Stays
  <2>5. Stays(p, ChangeActivity(d, "STOPPED"))
    BY <2>2, <2>3, <2>4, StaysTransitive
  <2>6. Stays(p, Send(q, Control("PLAY")))
    BY <2>2, <2>3, StaysTransitive
  <2> QED BY <1>1, <2>1, <2>2, <2>5, <2>6
<1>2. CASE r = "offset"
  <2> DEFINE late == p.playing # "null" /\ p.stops \ {p.item} # {}
             q == [p EXCEPT !.stops = {}, !.stale = @ \/ late]
  <2>1. AnswerOffset(p) \in {p, PlayerStop(q)}
    BY DEF AnswerOffset
  <2> HIDE DEF late
  <2>2. Stays(p, q)
    BY <1>0 DEF Stays, HasMarks
  <2> HIDE DEF q
  <2>3. Stays(q, PlayerStop(q))
    BY <2>2, MediaPlayerStays DEF Stays
  <2>4. Stays(p, PlayerStop(q))
    BY <2>2, <2>3, StaysTransitive
  <2> QED BY <1>0, <1>2, <2>1, <2>4
<1>3. CASE r \notin {"source", "offset"}
  <2>1. \A a : Stays(p, ChangeActivity(p, a))
    BY <1>0, ChangeStays
  <2>2. Stays(p, Drop(p))
    BY <1>0, MediaPlayerStays
  <2>3. \A a : Stays(Drop(p), ChangeActivity(Drop(p), a))
    BY <2>2, ChangeStays DEF Stays
  <2>4. \A a : Stays(p, ChangeActivity(Drop(p), a))
    BY <2>2, <2>3, StaysTransitive
  <2>5. Stays(p, HearStatus(p, r))
    BY <1>0, <1>3, <2>1, <2>4 DEF HearStatus, Report
  <2> QED BY <1>3, <2>5
<1> QED BY <1>1, <1>2, <1>3

\* Every step: what has gone wrong is remembered for good.
LEMMA StepStays ==
  ASSUME TypeOK, [Next]_playbackVars
  PROVE  Stays(player, player')
<1>0. player \in PlayerRecord /\ HasMarks(player) /\ Stays(player, player)
  BY DEF TypeOK, HandlerTypeOK, Stays, HasMarks, PlayerRecord
<1>1. ASSUME NEW p, Becomes(p), Stays(player, p) PROVE Stays(player, player')
  BY <1>1 DEF Becomes, Stays, HasMarks
<1>2. CASE Directive
  <2> DEFINE i == directives + 1
  <2>1. PICK p \in {Replace(i), Follow(i)} :
          Becomes(p) \/ \E f \in Focus : Becomes(OnFocusState([p EXCEPT !.playAfterStop = TRUE], f, FALSE))
    <3>1. Granted \subseteq Focus
      BY DEF Granted, Focus
    <3> QED BY <1>2, <3>1 DEF Directive, AcquireChannel
  <2> HIDE DEF i
  <2>2. Stays(player, p)
    <3>1. CASE p = Replace(i)
      <4> DEFINE c == [player EXCEPT !.wait = <<>>]
                 s == Stop(c, TRUE)
      <4>1. c \in PlayerRecord /\ Stays(player, c)
        BY <1>0, EmptySeq DEF PlayerRecord, Stays, HasMarks
      <4>2. p = [s EXCEPT !.wait = <<i>>]
        BY <3>1 DEF Replace
      <4> HIDE DEF c
      <4>3. Stays(c, s)
        BY <4>1, StopStays
      <4> HIDE DEF s
      <4>4. Stays(s, p)
        BY <4>2, <4>3 DEF Stays, HasMarks
      <4> QED BY <4>1, <4>3, <4>4, StaysTransitive
    <3>2. CASE p = Follow(i)
      BY <1>0, <3>2 DEF Follow, Stays, HasMarks
    <3> QED BY <2>1, <3>1, <3>2
  <2>3. ASSUME NEW f \in Focus PROVE Stays(player, OnFocusState([p EXCEPT !.playAfterStop = TRUE], f, FALSE))
    <3> DEFINE q == [p EXCEPT !.playAfterStop = TRUE]
    <3>1. Stays(p, q)
      BY <2>2 DEF Stays, HasMarks
    <3> HIDE DEF q
    <3>2. Stays(q, OnFocusState(q, f, FALSE))
      BY <3>1, FocusStays DEF Stays
    <3>3. Stays(player, OnFocusState(q, f, FALSE))
      BY <2>2, <3>1, <3>2, StaysTransitive
    <3> QED BY <3>3 DEF q
  <2> QED BY <1>1, <2>1, <2>2, <2>3
<1>3. CASE \E f \in Focus : FocusTo(f)
  BY <1>0, <1>1, <1>3, FocusStays DEF FocusTo
<1>4. CASE StopPlaying
  BY <1>0, <1>1, <1>4, StopStays DEF StopPlaying
<1>5. CASE DelayedPlay
  <2> DEFINE q == [player EXCEPT !.delayed = FALSE]
  <2>1. Stays(player, q) /\ Becomes(PlayForeground(q))
    BY <1>0, <1>5 DEF Stays, HasMarks, DelayedPlay
  <2> HIDE DEF q
  <2>2. Stays(q, PlayForeground(q))
    BY <2>1, HandlerStays DEF Stays
  <2> QED BY <1>1, <2>1, <2>2, StaysTransitive
<1>6. CASE GetContext
  <2>1. Stays(player, Throw(player)) /\ Stays(player, Send(player, Control("OFFSET")))
    BY <1>0, MediaPlayerStays
  <2>2. GetOffset(player, player, player) \in {Throw(player), player, Send(player, Control("OFFSET"))}
    BY <1>0 DEF GetOffset, PlayerRecord
  <2> QED BY <1>0, <1>1, <1>6, <2>1, <2>2 DEF GetContext
<1>7. CASE Delivery
  <2>1. PICK k \in 1..Len(reports) : Deliver(k)
    BY <1>7 DEF Delivery
  <2>2. reports[k] \in Report
    BY DEF TypeOK
  <2> DEFINE r == reports[k]
             h == Hearer(k)
             p == CASE r = "source"                  -> KnowSource(h)
                    [] r = "offset"                  -> AnswerOffset(h)
                    [] r \notin {"source", "offset"} -> HearStatus(h, r)
  <2>3. Becomes(p)
    BY <2>1 DEF Deliver, Hear, Hearer
  <2>5. h \in PlayerRecord /\ Stays(player, h)
    <3>1. k \in Nat
      OBVIOUS
    <3> QED BY <1>0, <3>1, HearerIsPlayer DEF Hearer, Stays, HasMarks
  <2> HIDE DEF r, h
  <2>4. Stays(h, p)
    BY <2>2, <2>5, HearStays DEF r
  <2> HIDE DEF p
  <2>6. Stays(player, p)
    BY <2>4, <2>5, StaysTransitive
  <2> QED BY <1>1, <2>3, <2>6
<1>8. CASE Process \/ UNCHANGED playbackVars
  <2>1. player' = player
    BY <1>8 DEF Process, Outlived, playbackVars, handlerVars
  <2> QED BY <1>0, <2>1 DEF Stays, HasMarks
<1> QED BY <1>2, <1>3, <1>4, <1>5, <1>6, <1>7, <1>8 DEF Next, Application

\* What a callback remembers, the player does.
LEMMA BecomesHasty ==
  ASSUME NEW p, HasMarks(p), p.hasty, Becomes(p)
  PROVE  player'.hasty
BY DEF HasMarks, Becomes

-------------------------------------------------------------------------------
(***************************************************************************)
(* Every step keeps the protocol.                                          *)
(***************************************************************************)
\* Before a callback the player is in order.
LEMMA PlayerTidy ==
  ASSUME TypeOK, PlayerInv, Protocol
  PROVE  /\ Tidy(player, directives) /\ player.state \in Activity
         /\ [player EXCEPT !.state = player.state] = player
         /\ directives \in Nat
BY DEF TypeOK, HandlerTypeOK, PlayerRecord, PlayerInv, Fit, Protocol, Tidy, Sends, Has, Play, Pauses

\* What a directive makes of the player, before the channel is asked for.
LEMMA DirectiveTidy ==
  ASSUME TypeOK, PlayerInv, Protocol, directives < MaxItems,
         NEW p \in {Replace(directives + 1), Follow(directives + 1)}
  PROVE  \/ Tidy(p, directives + 1) /\ Goes(player, p)
         \/ HasMarks(p) /\ p.hasty
<1> DEFINE n == directives
<1>1. Tidy(player, n) /\ n \in Nat /\ n + 1 \in Item
  BY PlayerTidy, IpcAssumption DEF Item
<1> HIDE DEF n
<1>2. CASE p = Replace(n + 1)
  <2> DEFINE c == [player EXCEPT !.wait = <<>>]
             s == Stop(c, TRUE)
             q == [s EXCEPT !.wait = <<n + 1>>]
  <2>1. c \in PlayerRecord /\ Same(player, c)
    BY EmptySeq DEF TypeOK, HandlerTypeOK, PlayerRecord, Same
  <2>2. p = q
    BY <1>2 DEF Replace
  <2> HIDE DEF c
  <2>3. Tidy(c, n) /\ Goes(player, c)
    BY <1>1, <2>1, SameTidy DEF Same
  <2>8. CASE c.playing = "asked"
    <3>1. HasMarks(s) /\ s.hasty
      BY <2>1, <2>3, <2>8, HurryRemembered, StopStays DEF Tidy, Good, Stays
    <3> HIDE DEF s
    <3> QED BY <2>2, <3>1 DEF HasMarks
  <2> SUFFICES ASSUME c.playing # "asked" PROVE Tidy(p, n + 1) /\ Goes(player, p)
    BY <2>8 DEF n
  <2>4. Tidy(s, n) /\ Goes(c, s)
    BY <1>1, <2>3, StopTidy
  <2> HIDE DEF s
  <2>5. Tidy(q, n + 1) /\ Goes(s, q)
    BY <1>1, <2>4, WaitTidy
  <2>6. Goes(player, s)
    BY <2>3, <2>4, GoesTransitive
  <2> HIDE DEF q
  <2>7. Goes(player, q)
    BY <2>5, <2>6, GoesTransitive
  <2> QED BY <2>2, <2>5, <2>7 DEF n
<1>3. CASE p = Follow(n + 1)
  <2>1. PICK w \in {<<n + 1>>, Append(player.wait, n + 1)} : p = [player EXCEPT !.wait = w]
    BY <1>3 DEF Follow
  <2> QED BY <1>1, <2>1, WaitTidy DEF n
<1> QED BY <1>2, <1>3 DEF n

\* A directive, a focus, a stop, the timer or a request for the context.
LEMMA CallbacksTidy ==
  ASSUME TypeOK, PlayerInv, Protocol, ~player'.hasty,
         Directive \/ (\E f \in Focus : FocusTo(f)) \/ StopPlaying \/ DelayedPlay \/ GetContext
  PROVE  /\ \E p \in PlayerRecord : Becomes(p) /\ Tidy(p, directives') /\ Goes(player, p)
         /\ reports' = reports
<1> DEFINE Done == /\ \E p \in PlayerRecord : Becomes(p) /\ Tidy(p, directives') /\ Goes(player, p)
                   /\ reports' = reports
<1>0. Tidy(player, directives) /\ directives \in Nat
  BY PlayerTidy
<1>1. ASSUME NEW p, Becomes(p), Tidy(p, directives'), Goes(player, p), reports' = reports
      PROVE  Done
  BY <1>1 DEF Tidy, Good, Done
<1> HIDE DEF Done
<1> SUFFICES Done
  BY DEF Done
<1>7. player \in PlayerRecord /\ HasMarks(player)
  BY DEF TypeOK, HandlerTypeOK, PlayerRecord, HasMarks
<1>2. CASE Directive
  <2>1. directives < MaxItems /\ directives' = directives + 1 /\ reports' = reports
    BY <1>2 DEF Directive
  <2>2. PICK p \in {Replace(directives + 1), Follow(directives + 1)} :
          \/ Becomes(p)
          \/ \E f \in Focus \ {"NONE"} : Becomes(OnFocusState([p EXCEPT !.playAfterStop = TRUE], f, FALSE))
    <3>1. Granted \subseteq Focus \ {"NONE"}
      BY DEF Granted, Focus
    <3> QED BY <1>2, <3>1 DEF Directive, AcquireChannel
  <2>6. ASSUME NEW f \in Focus, Becomes(OnFocusState([p EXCEPT !.playAfterStop = TRUE], f, FALSE)), HasMarks(p)
        PROVE  ~p.hasty /\ ~OnFocusState([p EXCEPT !.playAfterStop = TRUE], f, FALSE).hasty
    <3> DEFINE q == [p EXCEPT !.playAfterStop = TRUE]
               o == OnFocusState(q, f, FALSE)
    <3>1. Stays(p, q) /\ Becomes(o)
      BY <2>6 DEF Stays, HasMarks
    <3> HIDE DEF q
    <3>2. Stays(q, o)
      BY <3>1, FocusStays DEF Stays
    <3> HIDE DEF o
    <3> QED BY <3>1, <3>2, BecomesHasty DEF Stays, o, q
  <2>3. Tidy(p, directives') /\ Goes(player, p) /\ directives' \in Nat
    <3>1. ~(HasMarks(p) /\ p.hasty)
      BY <2>2, <2>6, BecomesHasty
    <3> QED BY <1>0, <2>1, <2>2, <3>1, DirectiveTidy
  <2>4. CASE Becomes(p)
    BY <1>1, <2>1, <2>3, <2>4
  <2>5. ASSUME NEW f \in Focus \ {"NONE"}, Becomes(OnFocusState([p EXCEPT !.playAfterStop = TRUE], f, FALSE))
        PROVE  Done
    <3> DEFINE q == [p EXCEPT !.playAfterStop = TRUE]
               o == OnFocusState(q, f, FALSE)
    <3>1. q \in PlayerRecord /\ Same(p, q)
      BY <2>3 DEF Tidy, Good, PlayerRecord, Same
    <3>2. Becomes(o)
      BY <2>5
    <3> HIDE DEF q
    <3>3. Tidy(q, directives') /\ Goes(p, q)
      BY <2>3, <3>1, SameTidy
    <3>4. Tidy(o, directives') /\ Goes(q, o)
      <4>1. HasMarks(p)
        BY <2>3 DEF Tidy, Good, PlayerRecord, HasMarks
      <4>2. ~o.hasty
        BY <2>5, <2>6, <4>1 DEF q
      <4> QED BY <2>3, <3>3, <4>2, FocusTidy
    <3> HIDE DEF o
    <3>5. Goes(player, q)
      BY <2>3, <3>3, GoesTransitive
    <3>6. Goes(player, o)
      BY <3>4, <3>5, GoesTransitive
    <3> QED BY <1>1, <2>1, <3>2, <3>4, <3>6
  <2> QED BY <2>2, <2>4, <2>5
<1>3. ASSUME NEW f \in Focus, FocusTo(f) PROVE Done
  <2>1. directives' = directives /\ reports' = reports
    BY <1>3 DEF FocusTo
  <2>2. PICK byAip \in BOOLEAN : Becomes(OnFocusState(player, f, byAip))
    BY <1>3 DEF FocusTo
  <2>3. Tidy(OnFocusState(player, f, byAip), directives) /\ Goes(player, OnFocusState(player, f, byAip))
    <3>1. ~OnFocusState(player, f, byAip).hasty
      BY <1>7, <2>2, FocusStays, BecomesHasty DEF Stays
    <3> QED BY <1>0, <3>1, FocusTidy
  <2> QED BY <1>1, <2>1, <2>2, <2>3
<1>4. CASE StopPlaying
  <2>1. directives' = directives /\ reports' = reports /\ Active(player) /\ Becomes(Stop(player, FALSE))
    BY <1>4 DEF StopPlaying
  <2>3. player.playing # "asked"
    BY <1>7, <2>1, HurryRemembered, StopStays, BecomesHasty DEF Stays
  <2>2. Tidy(Stop(player, FALSE), directives) /\ Goes(player, Stop(player, FALSE))
    BY <1>0, <2>3, StopTidy
  <2> QED BY <1>1, <2>1, <2>2
<1>5. CASE DelayedPlay
  <2> DEFINE q == [player EXCEPT !.delayed = FALSE]
  <2>1. q \in PlayerRecord /\ Same(player, q)
    BY DEF TypeOK, HandlerTypeOK, PlayerRecord, Same
  <2>2. directives' = directives /\ reports' = reports /\ Becomes(PlayForeground(q))
    BY <1>5 DEF DelayedPlay
  <2> HIDE DEF q
  <2>3. Tidy(q, directives) /\ Goes(player, q)
    BY <1>0, <2>1, SameTidy
  <2>4. Tidy(PlayForeground(q), directives) /\ Goes(q, PlayForeground(q))
    BY <1>0, <2>3, PlayForegroundTidy
  <2>5. Goes(player, PlayForeground(q))
    BY <2>3, <2>4, GoesTransitive
  <2> QED BY <1>1, <2>2, <2>4, <2>5
<1>6. CASE GetContext
  <2> DEFINE g == GetOffset(player, player, player)
  <2>1. directives' = directives /\ reports' = reports /\ Becomes(g)
    BY <1>6 DEF GetContext
  <2>2. Goes(player, player)
    BY DEF Goes, TypeOK, HandlerTypeOK, PlayerRecord
  <2>3. Tidy(g, directives) /\ Goes(player, g)
    <3>1. player.playing = "asked" => g = player
      BY DEF GetOffset
    <3> HIDE DEF g
    <3> QED BY <1>0, <2>2, <3>1, OffsetTidy DEF g
  <2> HIDE DEF g
  <2> QED BY <1>1, <2>1, <2>3
<1> QED BY <1>2, <1>3, <1>4, <1>5, <1>6

\* The same, of what is under way.
LEMMA CallbacksKeep ==
  ASSUME TypeOK, PlayerInv, Protocol, UNCHANGED processVars, ~player'.hasty,
         Directive \/ (\E f \in Focus : FocusTo(f)) \/ StopPlaying \/ DelayedPlay \/ GetContext
  PROVE  Protocol'
<1>1. player.state \in Activity /\ [player EXCEPT !.state = player.state] = player
  BY PlayerTidy
<1>2. PICK p \in PlayerRecord : Becomes(p) /\ Tidy(p, directives') /\ Goes(player, p)
  BY CallbacksTidy
<1>3. Goes([player EXCEPT !.state = player.state], p) /\ reports' = reports
  BY <1>1, <1>2, CallbacksTidy
<1> QED BY <1>1, <1>2, <1>3, CallbackKeeps

\* A status or an offset is taken.
LEMMA MinorTidy ==
  ASSUME TypeOK, PlayerInv, Protocol, ~player'.stale,
         NEW k \in 1..Len(reports), Deliver(k), reports[k] \in {"offset", "play", "pause"}
  PROVE  \E p \in PlayerRecord, a \in Activity :
           /\ Becomes(p) /\ Tidy(p, directives') /\ Goes([player EXCEPT !.state = a], p)
           /\ reports[k] = "offset" => a = player.state
<1> DEFINE Done == \E p \in PlayerRecord, a \in Activity :
                     /\ Becomes(p) /\ Tidy(p, directives') /\ Goes([player EXCEPT !.state = a], p)
                     /\ reports[k] = "offset" => a = player.state
<1>0. /\ Tidy(player, directives) /\ player.state \in Activity /\ directives \in Nat
      /\ [player EXCEPT !.state = player.state] = player
  BY PlayerTidy
<1>2. directives' = directives /\ Hear(reports[k], k # 1) /\ reports[k] \in Report
  BY DEF Deliver, Hear, TypeOK
<1>1. ASSUME NEW p, Becomes(p), Tidy(p, directives'), NEW a \in Activity, Goes([player EXCEPT !.state = a], p),
             reports[k] = "offset" => a = player.state
      PROVE  Done
  BY <1>1 DEF Tidy, Good, Done
<1> HIDE DEF Done
<1> SUFFICES Done
  BY DEF Done
<1> DEFINE h == Hearer(k)
<1>3. h \in PlayerRecord /\ Same(player, h) /\ h.out = <<>> /\ h.wait = player.wait /\ Tidy(h, directives) /\ Goes(player, h)
  <2>1. k \in Nat
    OBVIOUS
  <2> QED BY <1>0, <2>1, HearerIsPlayer, SameTidy
<1> HIDE DEF h
<1>4. CASE reports[k] = "offset"
  <2>1. Becomes(AnswerOffset(h))
    BY <1>2, <1>4 DEF Hear, h, Hearer
  <2>2. ~AnswerOffset(h).stale
    <3>1. Stays(h, AnswerOffset(h))
      <4>1. "offset" \in Report
        BY DEF Report
      <4> QED BY <1>3, <4>1, HearStays
    <3> QED BY <2>1, <3>1 DEF Becomes, Stays, HasMarks
  <2>3. Tidy(AnswerOffset(h), directives) /\ Goes(player, AnswerOffset(h))
    BY <1>0, <1>3, <2>2, AnswerOffsetTidy, GoesTransitive
  <2> DEFINE a == AnswerOffset(h)
  <2> HIDE DEF a
  <2>4. Becomes(a) /\ Tidy(a, directives') /\ Goes([player EXCEPT !.state = player.state], a)
    BY <1>0, <1>2, <2>1, <2>3 DEF a
  <2> QED BY <1>0, <1>1, <2>4
<1>5. ASSUME NEW a \in {"PLAYING", "PAUSED"}, Becomes(ChangeActivity(h, a)), reports[k] # "offset"
      PROVE  Done
  <2> DEFINE q == [h EXCEPT !.state = a]
             b == [player EXCEPT !.state = a]
  <2>1. Becomes(q) /\ q.out = <<>>
    BY <1>3, <1>5 DEF ChangeActivity, Becomes, PlayerRecord
  <2>2. Tidy(q, directives) /\ Goes(b, q)
    <3>1. /\ q \in PlayerRecord /\ q.kind = player.kind /\ q.item = player.item /\ q.wait = player.wait
          /\ q.playing = player.playing /\ q.cancel = player.cancel /\ q.stops = player.stops
          /\ q.cut = player.cut /\ q.over = player.over /\ q.out = <<>> /\ q.state = a /\ q.stale = player.stale
      BY <1>3 DEF Same, PlayerRecord, Activity
    <3>4. /\ b.kind = player.kind /\ b.item = player.item /\ b.playing = player.playing /\ b.stale = player.stale
          /\ b.cut = player.cut /\ b.over = player.over /\ b.out = <<>> /\ b.state = a
      BY DEF TypeOK, HandlerTypeOK, PlayerRecord
    <3> HIDE DEF q, b
    <3>2. Good(q) /\ InLine(q, directives) /\ Sends(q)
      BY <1>0, <3>1 DEF Tidy, Good, Active, InLine, Sends, Has, Play, Pauses
    <3>3. Goes(b, q)
      BY <3>1, <3>4 DEF Goes
    <3> QED BY <3>2, <3>3 DEF Tidy
  <2>3. a \in Activity
    BY DEF Activity
  <2> QED BY <1>1, <1>2, <1>5, <2>1, <2>2, <2>3
<1>6. CASE reports[k] \in {"play", "pause"}
  <2>1. \E a \in {"PLAYING", "PAUSED"} : Becomes(ChangeActivity(h, a))
    BY <1>2, <1>6 DEF Hear, HearStatus, h, Hearer
  <2> QED BY <1>5, <1>6, <2>1
<1> QED BY <1>4, <1>6

\* The report of an end is taken.
LEMMA EndTidy ==
  ASSUME TypeOK, PlayerInv, Protocol, ~player'.hasty,
         NEW k \in 1..Len(reports), Deliver(k), reports[k] \in Ending
  PROVE  /\ player.playing = "known"
         /\ \E p \in PlayerRecord, a \in {"STOPPED", "FINISHED"} :
              Becomes(p) /\ Tidy(p, directives') /\ Goes([Drop(Hearer(k)) EXCEPT !.state = a], p)
<1>0. /\ Tidy(player, directives) /\ player.state \in Activity /\ directives \in Nat
      /\ [player EXCEPT !.state = player.state] = player
  BY PlayerTidy
<1>2. directives' = directives /\ Hear(reports[k], k # 1) /\ reports[k] \in Report
  BY DEF Deliver, Hear, TypeOK
<1> DEFINE h == Hearer(k)
           d == Drop(h)
<1>12. h \in PlayerRecord /\ Same(player, h) /\ h.out = <<>> /\ h.wait = player.wait
  <2>1. k \in Nat
    OBVIOUS
  <2> QED BY <2>1, HearerIsPlayer
<1> HIDE DEF h
<1>13. player.playing # "null"
  <2>1. Has(reports, Ending)
    BY DEF Has
  <2> QED BY <2>1 DEF Protocol, Nothing, Clear
<1>4. player.state \in {"PLAYING", "PAUSED"} /\ h.state = player.state
  BY <1>0, <1>12, <1>13 DEF Tidy, Good, Active, Same
<1>5. PICK a \in {"STOPPED", "FINISHED"} : Becomes(ChangeActivity(d, a))
  BY <1>2, <1>4 DEF Hear, HearStatus, Ending, h, Hearer
<1>3. player.playing = "known"
  <2>1. HasMarks(d) /\ (player.playing = "asked" => d.hasty)
    BY <1>0, <1>12 DEF Drop, HasMarks, PlayerRecord, Same, Tidy, InLine
  <2> HIDE DEF d
  <2>2. Stays(d, ChangeActivity(d, a))
    BY <2>1, ChangeStays
  <2>3. player.playing # "asked"
    BY <1>5, <2>1, <2>2, BecomesHasty DEF Stays
  <2> QED BY <1>13, <2>3 DEF TypeOK, HandlerTypeOK, PlayerRecord
<1> DEFINE q == [d EXCEPT !.state = a]
           e == Ended(q)
<1>6. /\ q \in PlayerRecord /\ q.kind = player.kind /\ q.item = player.item /\ q.wait = player.wait
      /\ q.playing = "null" /\ ~q.cancel /\ q.stops = player.stops
      /\ q.cut = player.cut /\ q.over = player.over \cup {player.item} /\ q.out = <<>>
      /\ d.state = player.state /\ player.item \in Item
  <2>1. player.item \in Item
    BY <1>0, <1>3 DEF Tidy, Good
  <2>2. player.over \cup {player.item} \in SUBSET Item
    BY <2>1 DEF TypeOK, HandlerTypeOK, PlayerRecord
  <2>3. d = [h EXCEPT !.playing = "null", !.cancel = FALSE, !.hasty = h.hasty, !.over = player.over \cup {player.item}]
    BY <1>3, <1>12 DEF Drop, Same, PlayerRecord
  <2>4. /\ d \in PlayerRecord /\ d.kind = player.kind /\ d.item = player.item /\ d.wait = player.wait
        /\ d.playing = "null" /\ ~d.cancel /\ d.stops = player.stops
        /\ d.cut = player.cut /\ d.over = player.over \cup {player.item} /\ d.out = <<>>
        /\ d.state = player.state
    BY <1>12, <2>2, <2>3 DEF Same, PlayerRecord
  <2> HIDE DEF d
  <2> QED BY <2>1, <2>4 DEF PlayerRecord, Activity
<1>7. Becomes(e)
  BY <1>4, <1>5, <1>6 DEF ChangeActivity
<1>8. \A b : Goes(q, b) => Goes([Drop(Hearer(k)) EXCEPT !.state = a], b)
  BY DEF h
<1> HIDE DEF d, q
<1>9. Tidy(q, directives)
  <2>1. Good(q) /\ Sends(q)
    BY <1>6 DEF Good, Sends
  <2>2. InLine(q, directives)
    <3>1. player.item <= player.item
      BY <1>6 DEF Item
    <3> QED BY <1>0, <1>3, <1>6, <3>1 DEF Tidy, InLine
  <2> QED BY <2>1, <2>2 DEF Tidy
<1>10. Tidy(e, directives) /\ Goes(q, e)
  BY <1>0, <1>6, <1>9, EndedTidy
<1> HIDE DEF e
<1>11. a \in Activity /\ Goes([Drop(Hearer(k)) EXCEPT !.state = a], e)
  BY <1>8, <1>10 DEF Activity
<1> QED
  <2>1. e \in PlayerRecord /\ Becomes(e) /\ Tidy(e, directives') /\ Goes([Drop(Hearer(k)) EXCEPT !.state = a], e)
    BY <1>2, <1>7, <1>10, <1>11 DEF Tidy, Good
  <2> QED BY <1>3, <1>5, <2>1

\* A report, whichever and in whatever order.
LEMMA DeliveryKeeps ==
  ASSUME TypeOK, PlayerInv, Protocol, Delivery, ~player'.stale, ~player'.hasty
  PROVE  Protocol'
<1>1. PICK k \in 1..Len(reports) : Deliver(k)
  BY DEF Delivery
<1>2. /\ UNCHANGED processVars /\ reports' = Without(reports, k) /\ directives' = directives
      /\ Hear(reports[k], k # 1) /\ reports[k] \in Report
  BY <1>1 DEF Deliver, Without, Hear, TypeOK
<1>3. CASE reports[k] = "source"
  <2>1. Becomes(KnowSource(Hearer(k)))
    BY <1>2, <1>3 DEF Hear, Hearer
  <2> QED BY <1>2, <1>3, <2>1, SourceKeeps
<1>4. CASE reports[k] \in {"offset", "play", "pause"}
  <2>1. PICK p \in PlayerRecord, a \in Activity :
          Becomes(p) /\ Tidy(p, directives') /\ Goes([player EXCEPT !.state = a], p)
    BY <1>1, <1>4, MinorTidy
  <2>2. Minor(reports[k])
    BY <1>2, <1>4 DEF Minor, Ending
  <2> QED BY <1>2, <2>1, <2>2, CallbackKeeps
<1>5. CASE reports[k] \in Ending
  <2>1. PICK p \in PlayerRecord, a \in {"STOPPED", "FINISHED"} :
          Becomes(p) /\ Tidy(p, directives') /\ Goes([Drop(Hearer(k)) EXCEPT !.state = a], p)
    BY <1>1, <1>5, EndTidy
  <2>3. player.playing # "asked"
    BY <1>1, <1>5, EndTidy
  <2>2. a \in Activity
    BY DEF Activity
  <2> QED BY <1>2, <1>5, <2>1, <2>2, <2>3, EndKeeps
<1>6. reports[k] # "error"
  BY DEF Protocol, ErrorFree, Has
<1> QED BY <1>2, <1>3, <1>4, <1>5, <1>6 DEF Report, Ending

\* What ends the calm is remembered.
LEMMA CalmWas ==
  ASSUME TypeOK, [Next]_playbackVars, Calm'
  PROVE  Calm /\ ~player'.hasty /\ ~player'.stale /\ broken' = {}
<1>1. (player.stale => player'.stale) /\ (player.hasty => player'.hasty)
  BY StepStays DEF Stays
<1>2. broken \subseteq broken'
  <2>1. CASE UNCHANGED broken
    BY <2>1
  <2>2. CASE Process /\ ~UNCHANGED broken
    BY <2>2 DEF Process, Commanded, OnSetSource, OnReportOffset, OnPlay, OnStop, OnResume, OnPause,
                Streaming, OpenStream, FailToOpen, FailInStream, FirstFrame, Complete, StopPlayThread,
                Tell, Settle, processVars
  <2> QED BY <2>1, <2>2 DEF Next, Application, Delivery, Deliver, processVars, playbackVars
<1> QED BY <1>1, <1>2 DEF Calm, Unhurried

\* As long as nothing has ended the calm, the protocol is kept.
LEMMA ProtocolHolds == Spec => []ProtocolInv
<1>1. Init => ProtocolInv
  <2> SUFFICES ASSUME Init PROVE Protocol
    BY DEF ProtocolInv
  <2>1. /\ player.playing = "null" /\ player.item = 0 /\ player.wait = <<>> /\ player.stops = {}
        /\ player.cut = {} /\ player.over = {} /\ ~player.cancel /\ directives = 0
    BY DEF Init, HandlerInit
  <2>2. InLine(player, directives)
    BY <2>1 DEF InLine
  <2>3. Untold = <<>> /\ reports = <<>> /\ cmds = <<>> /\ Untouched
    BY DEF Init, ProcessInit, Untold, Untouched
  <2>4. \A S : ~Has(Untold, S) /\ ~Has(reports, S) /\ ~Has(cmds, S)
    BY <2>3 DEF Has
  <2>5. Nothing
    BY <2>3, <2>4 DEF Init, ProcessInit, Nothing, Clear
  <2> QED BY <2>1, <2>2, <2>4, <2>5 DEF Protocol, ErrorFree
<1>2. TypeOK /\ PlayerInv /\ ProtocolInv /\ [Next]_playbackVars => ProtocolInv'
  <2> SUFFICES ASSUME TypeOK, PlayerInv, ProtocolInv, [Next]_playbackVars, Calm'
               PROVE  Protocol'
    BY DEF ProtocolInv
  <2>1. ~player'.stale /\ ~player'.hasty /\ broken' = {} /\ Protocol
    BY CalmWas DEF ProtocolInv
  <2>2. CASE UNCHANGED playbackVars
    <3>1. /\ player' = player /\ directives' = directives /\ cmds' = cmds /\ reports' = reports
          /\ stream' = stream /\ heard' = heard /\ status' = status /\ stopTid' = stopTid
          /\ notes' = notes /\ Untold' = Untold
      BY <2>2 DEF playbackVars, handlerVars, processVars, Untold
    <3>2. (Clear => Clear') /\ (ItemThere => ItemThere')
      BY <3>1 DEF Clear, ItemThere, StopIsLast
    <3> QED BY <2>1, <3>1, <3>2 DEF Protocol, ErrorFree, Nothing, Requested, Untouched, Identified, AtProcess
  <2>3. CASE /\ Directive \/ (\E f \in Focus : FocusTo(f)) \/ StopPlaying \/ DelayedPlay \/ GetContext
             /\ UNCHANGED processVars
    BY <2>1, <2>3, CallbacksKeep
  <2>4. CASE Delivery
    BY <2>1, <2>4, DeliveryKeeps
  <2>5. CASE Process
    BY <2>1, <2>5, ProcessKeeps
  <2> QED BY <2>2, <2>3, <2>4, <2>5 DEF Next, Application
<1> QED BY InvHolds, <1>1, <1>2, PTL DEF Spec

(***************************************************************************)
(* No item is skipped: whatever has been asked to play is heard, or was    *)
(* asked to stop, for any number of items and with reports in any order,   *)
(* until an item is stopped or fails before its time, or a stop hits the   *)
(* next one, which the invariant's Calm remembers.                         *)
(***************************************************************************)
THEOREM NoItemIsSkipped == Spec => []NoItemSkipped
<1>1. ProtocolInv => NoItemSkipped
  BY DEF ProtocolInv, Protocol, NoItemSkipped
<1> QED BY ProtocolHolds, <1>1, PTL

(***************************************************************************)
(* What sounds is the item the application believes to be playing, as long *)
(* as the calm lasts: the source ids that nobody compares are not missed.  *)
(***************************************************************************)
THEOREM TheRightItemSounds == Spec => []RightItemSounds
<1>1. TypeOK /\ ProtocolInv => RightItemSounds
  <2> SUFFICES ASSUME TypeOK, Protocol, Sounding PROVE player.playing # "null" /\ player.item = stream.item
    BY DEF ProtocolInv, RightItemSounds
  <2>1. stream # NoStream
    BY DEF Sounding, NoStream
  <2> QED BY <2>1, ItemOpen DEF ItemThere
<1> QED BY InvHolds, ProtocolHolds, <1>1, PTL

-------------------------------------------------------------------------------
(***************************************************************************)
(* A player that does not pause, told in order: the process.               *)
(***************************************************************************)
\* A stream that has not been started is not changed by what does not concern it.
LEMMA FreshKeeps ==
  ASSUME UNCHANGED <<stream, stopTid, sourceId, mPlaying, notes, offset, status>>, Fresh
  PROVE  Fresh'
BY DEF Fresh

\* Where nothing more is told, the process rests.
LEMMA RestedKeeps ==
  ASSUME UNCHANGED <<status, notes, telling, mPlaying>>,
         Has(reports', {"play"}) => Has(reports, {"play"}), Rested
  PROVE  Rested'
BY DEF Rested, AllTold, Untold

\* The process rests, or has an item of the player.
AtRest ==
  /\ Rested /\ Clear
  /\ player.playing = "null" \/ (player.playing = "asked" /\ Requested /\ cmds # <<>>)

AtWork ==
  /\ Underway /\ ItemThere
  /\ \/ player.playing = "asked" /\ Identified /\ cmds = <<>>
     \/ player.playing = "known" /\ AtProcess /\ Awaited

LEMMA RestOrWork ==
  ASSUME TypeOK, Protocol, Steady
  PROVE  AtRest \/ AtWork
BY DEF Protocol, Steady, AtRest, AtWork, Nothing, Requested, Identified, AtProcess,
       TypeOK, HandlerTypeOK, PlayerRecord

\* A step of the process leaves it resting, or at work.
LEMMA RestsOn ==
  ASSUME TypeOK, AtRest, player' = player, Rested', ~Has(cmds', Pauses), ~Has(reports', {"pause"}),
         player.playing = "asked" => cmds' # <<>>, Steady
  PROVE  Steady'
BY DEF AtRest, Steady

LEMMA WorksOn ==
  ASSUME TypeOK, AtWork, player' = player, Underway', ~Has(cmds', Pauses), ~Has(reports', {"pause"}),
         player.playing = "asked" => cmds' = <<>>,
         player.playing = "known" => Awaited'
  PROVE  Steady'
BY DEF AtWork, Steady

\* An offset is reported last.
LEMMA OffsetLast ==
  ASSUME TypeOK, reports' = Append(reports, "offset")
  PROVE  /\ \A S \in {{"play"}, {"pause"}, Ending} : Has(reports', S) <=> Has(reports, S)
         /\ EndIsLast => EndIsLast'
<1>1. reports \in Seq(Report) /\ "offset" \in Report /\ "offset" \notin Ending
  BY DEF TypeOK, Report, Ending
<1> DEFINE a == Append(reports, "offset")
<1>2. /\ Len(a) = Len(reports) + 1 /\ Len(reports) \in Nat /\ a[Len(reports) + 1] = "offset"
      /\ \A i \in 1..Len(reports) : a[i] = reports[i]
  BY <1>1, AppendProperties
<1>3. Has(a, Ending) <=> Has(reports, Ending)
  BY <1>1, Appended
<1>4. Has(a, {"play"}) <=> Has(reports, {"play"})
  BY <1>1, Appended
<1>5. Has(a, {"pause"}) <=> Has(reports, {"pause"})
  BY <1>1, Appended
<1> HIDE DEF a
<1>6. ASSUME EndIsLast
      PROVE  \A i, j \in 1..Len(a) : a[i] \in Ending /\ i < j => a[j] = "offset"
  <2> SUFFICES ASSUME NEW i \in 1..Len(a), NEW j \in 1..Len(a), a[i] \in Ending, i < j PROVE a[j] = "offset"
    OBVIOUS
  <2>1. CASE j = Len(reports) + 1
    BY <1>2, <2>1
  <2>2. CASE j # Len(reports) + 1
    <3>1. j \in 1..Len(reports) /\ i \in 1..Len(reports)
      BY <1>2, <2>2
    <3> QED BY <1>2, <1>6, <3>1 DEF EndIsLast
  <2> QED BY <2>1, <2>2
<1>7. reports' = a
  BY DEF a
<1>8. EndIsLast => EndIsLast'
  BY <1>6, <1>7 DEF EndIsLast
<1> QED BY <1>3, <1>4, <1>5, <1>7, <1>8

\* The first command is read, and is none that pauses.
LEMMA FirstRead ==
  ASSUME TypeOK, NEW c, NextCommand(c), ~Has(cmds, Pauses)
  PROVE  /\ ~Has(cmds', Pauses) /\ c \notin {"PAUSE", "RESUME"}
         /\ Has(cmds', Play) => Has(cmds, Play)
         /\ (\A i \in 1..Len(cmds) : cmds[i] \in Play => i = 1) =>
              /\ ~Has(cmds', Play)
              /\ Has(cmds, Play) => c = "PLAY"
         /\ c = "PLAY" => cmds[1] \in Play /\ 1 \in 1..Len(cmds)
<1>1. cmds # <<>> /\ cmds \in Seq(Command) /\ cmds' = Tail(cmds) /\ Head(cmds).op = c
  BY DEF NextCommand, TypeOK
<1>2. Head(cmds) \in Command /\ Head(cmds) = cmds[1]
  BY <1>1, HeadTailProperties
<1>3. /\ c = "PLAY" => Head(cmds) \in Play
      /\ Head(cmds) \in Play => c = "PLAY"
      /\ c \in {"PAUSE", "RESUME"} => Head(cmds) \in Pauses
  BY <1>1, <1>2 DEF Command, Control, Play, Pauses
<1> HIDE DEF Command
<1>4. /\ Len(cmds') = Len(cmds) - 1 /\ Len(cmds) \in Nat /\ Len(cmds) >= 1
      /\ \A i \in 1..Len(cmds') : cmds'[i] = cmds[i + 1] /\ i + 1 \in 1..Len(cmds)
  BY <1>1, TakenOff
<1>5. /\ Has(cmds', Pauses) => Has(cmds, Pauses)
      /\ Has(cmds', Play) => Has(cmds, Play)
  BY <1>1, TakenOff
<1>6. Head(cmds) \in Pauses => Has(cmds, Pauses)
  BY <1>1, TakenOff
<1>7. ASSUME \A i \in 1..Len(cmds) : cmds[i] \in Play => i = 1
      PROVE  ~Has(cmds', Play) /\ (Has(cmds, Play) => c = "PLAY")
  <2>1. \A i \in 1..Len(cmds') : i + 1 # 1
    BY <1>4
  <2> QED BY <1>2, <1>3, <1>4, <1>7, <2>1 DEF Has
<1>8. 1 \in 1..Len(cmds)
  BY <1>4
<1> QED BY <1>2, <1>3, <1>5, <1>6, <1>7, <1>8

\* While an item has been asked for, what is read before is not the last.
LEMMA ReadBefore ==
  ASSUME TypeOK, Requested, NEW c, c # "SET_SOURCE", NextCommand(c)
  PROVE  cmds' # <<>> /\ stopTid # "none"
<1>1. cmds # <<>> /\ cmds \in Seq(Command)
  BY DEF NextCommand, TypeOK
<1>2. cmds[Len(cmds)] \in Sources
  <2>1. Len(cmds) \in 1..Len(cmds)
    BY <1>1, EmptySeq
  <2>2. cmds[Len(cmds)] \in Command /\ cmds[Len(cmds)].op = "SET_SOURCE"
    BY <1>1, <2>1 DEF Requested, SetSource
  <2> QED BY <2>2 DEF Command, Sources, SetSource
<1>3. cmds' # <<>> /\ Len(cmds) # 1
  BY <1>2, ControlRead
<1> QED BY <1>3 DEF Requested

\* The source is set of an item that the player has asked for.
LEMMA SetSourceSteady ==
  ASSUME TypeOK, Protocol, Steady, OnSetSource, UNCHANGED handlerVars, ~slipped'
  PROVE  Steady'
<1>1. /\ cmds # <<>> /\ cmds \in Seq(Command) /\ Head(cmds).op = "SET_SOURCE"
      /\ reports' = Append(reports, "source") /\ reports \in Seq(Report) /\ "source" \in Report
  BY DEF OnSetSource, NextCommand, TypeOK, Report
<1>2. Head(cmds) \in Command
  BY <1>1, HeadTailProperties
<1>3. Head(cmds) \in Sources /\ Head(cmds).item \in Item
  BY <1>1, <1>2 DEF Command, Sources, SetSource
<1>4. Has(cmds, Sources)
  BY <1>1, <1>3, TakenOff
<1>5. player.playing = "asked" /\ AtRest /\ ~Has(reports, Ending)
  BY <1>4, RestOrWork DEF Protocol, Nothing, AtRest, AtWork, ItemThere, Clear
<1>6. player' = player /\ Protocol'
  BY SetSourceKeeps DEF handlerVars
<1>7. cmds' = <<>>
  <2>1. Requested' \/ Identified'
    BY <1>5, <1>6 DEF Protocol
  <2>2. Has(reports', {"source"})
    BY <1>1, Appended
  <2> QED BY <2>1, <2>2 DEF Requested, Clear, Identified
<1>8. ~telling /\ notes = <<>> /\ ~mPlaying /\ status \in {"IDLE", "STOPPED"} /\ stream = NoStream
  BY <1>5 DEF OnSetSource, AtRest, Rested, AllTold, Untold, Clear
<1>9. sourceId' # 0 /\ notes' = <<>> /\ ~mPlaying'
  BY <1>3, <1>8, IpcAssumption DEF OnSetSource, Item
<1>10. /\ stream' # NoStream /\ stream'.stage = "opening" /\ stopTid' = "none" /\ status' = "PREPARING"
  <2>1. PICK i \in Item, open \in MayBeOpen : Prepare(i, Sought(i, open))
    BY <1>3 DEF OnSetSource, SeekAndPrepare
  <2>2. stream' = [item |-> i, stage |-> "opening", paused |-> TRUE, fed |-> TRUE]
    BY <1>8, <2>1 DEF Prepare
  <2> QED BY <1>8, <2>1, <2>2 DEF Prepare, NoStream
<1>11. Fresh'
  BY <1>9, <1>10 DEF Fresh
<1>12. ~Has(reports', Ending) /\ ~Has(reports', {"pause"})
  <2>1. ~Has(reports, {"pause"}) /\ "source" \notin Ending /\ "source" \notin {"pause"}
    BY DEF Steady, Ending
  <2>2. Has(reports', Ending) <=> Has(reports, Ending)
    BY <1>1, <2>1, Appended
  <2>3. Has(reports', {"pause"}) <=> Has(reports, {"pause"})
    BY <1>1, <2>1, Appended
  <2> QED BY <1>5, <2>1, <2>2, <2>3
<1>13. \A S : ~Has(cmds', S)
  BY <1>7 DEF Has
<1>14. Underway'
  BY <1>7, <1>10, <1>11, <1>12 DEF Underway
<1> QED BY <1>5, <1>6, <1>7, <1>12, <1>13, <1>14 DEF Steady

\* Another command is read.
LEMMA CommandedSteady ==
  ASSUME TypeOK, Protocol, Steady, Commanded, UNCHANGED handlerVars, ~slipped'
  PROVE  Steady'
<1>1. player' = player
  BY DEF handlerVars
<1>2. PICK c : NextCommand(c)
  BY DEF Commanded, OnSetSource, OnReportOffset, OnPlay, OnStop, OnResume, OnPause
<1>3. /\ ~Has(cmds', Pauses) /\ ~NextCommand("PAUSE") /\ ~NextCommand("RESUME") /\ cmds # <<>>
      /\ Has(cmds', Play) => Has(cmds, Play)
      /\ (\A i \in 1..Len(cmds) : cmds[i] \in Play => i = 1) =>
           ~Has(cmds', Play) /\ (Has(cmds, Play) => NextCommand("PLAY"))
  <2>1. c = Head(cmds).op /\ cmds # <<>> /\ cmds' = Tail(cmds)
    BY <1>2 DEF NextCommand
  <2>2. ~Has(cmds, Pauses)
    BY DEF Steady
  <2> QED BY <1>2, <2>1, <2>2, FirstRead DEF NextCommand
<1>4. ~Has(reports, {"pause"})
  BY DEF Steady
<1>5. CASE OnReportOffset
  <2>1. UNCHANGED processVars /\ Untold' = Untold /\ reports' = Append(reports, "offset") /\ ~NextCommand("PLAY")
    BY <1>5 DEF OnReportOffset, processVars, NextCommand, Untold
  <2>2. /\ \A S \in {{"play"}, {"pause"}, Ending} : Has(reports', S) <=> Has(reports, S)
        /\ EndIsLast => EndIsLast'
    BY <2>1, OffsetLast
  <2>3. CASE AtRest
    <3>1. Rested'
      BY <2>1, <2>2, <2>3, RestedKeeps DEF AtRest, processVars
    <3>2. player.playing = "asked" => cmds' # <<>>
      BY <1>5, <2>3, ReadBefore DEF OnReportOffset, AtRest
    <3> QED BY <1>1, <1>3, <1>4, <2>2, <2>3, <3>1, <3>2, RestsOn
  <2>4. CASE AtWork
    <3>1. player.playing = "known" /\ Underway /\ Awaited /\ ~Has(cmds, Play) /\ ~Has(cmds', Play)
      BY <1>3, <2>1, <2>4 DEF AtWork, Underway
    <3>2. UNCHANGED <<stream, stopTid, sourceId, mPlaying, notes, offset, status, telling>>
      BY <2>1 DEF processVars
    <3>3. Paused' = Paused /\ (Fresh => Fresh') /\ (AllTold => AllTold')
      BY <2>1, <3>2, FreshKeeps DEF Paused, AllTold
    <3>4. Underway'
      BY <2>1, <2>2, <3>1, <3>2, <3>3 DEF Underway, Has
    <3>5. Awaited'
      BY <3>1, <3>2, <3>3 DEF Awaited
    <3> QED BY <1>1, <1>3, <1>4, <2>2, <2>4, <3>1, <3>4, <3>5, WorksOn
  <2> QED BY <2>3, <2>4, RestOrWork
<1>6. CASE OnStop
  <2>1. UNCHANGED <<stream, sourceId, mPlaying, notes, offset, status, telling, reports>> /\ StopAsync
    BY <1>6 DEF OnStop
  <2>2. Untold' = Untold /\ ~NextCommand("PLAY") /\ Paused' = Paused
    BY <1>6, <2>1 DEF OnStop, NextCommand, Untold, Paused
  <2>3. CASE AtRest
    <3>1. Rested'
      BY <2>1, <2>3, RestedKeeps DEF AtRest
    <3>2. player.playing = "asked" => cmds' # <<>>
      BY <1>6, <2>3, ReadBefore DEF OnStop, AtRest
    <3> QED BY <1>1, <1>3, <1>4, <2>1, <2>3, <3>1, <3>2, RestsOn
  <2>4. CASE AtWork
    <3>1. player.playing = "known" /\ Underway /\ Awaited /\ ~Has(cmds, Play) /\ ~Has(cmds', Play)
      BY <1>3, <2>2, <2>4 DEF AtWork, Underway
    <3>2. stopTid' = "running" \/ stopTid' = stopTid
      BY <2>1 DEF StopAsync
    <3>3. Fresh /\ stopTid' = stopTid => Fresh'
      BY <2>1, FreshKeeps
    <3>4. (AllTold => AllTold') /\ (EndIsLast => EndIsLast')
      BY <2>1, <2>2 DEF AllTold, EndIsLast
    <3>5. Underway'
      BY <2>1, <2>2, <3>1, <3>2, <3>3, <3>4 DEF Underway, Has
    <3>6. Awaited'
      BY <2>1, <2>2, <3>1, <3>2 DEF Awaited
    <3> QED BY <1>1, <1>3, <1>4, <2>1, <2>4, <3>1, <3>5, <3>6, WorksOn
  <2> QED BY <2>3, <2>4, RestOrWork
<1>7. CASE OnPlay
  <2>1. UNCHANGED <<sourceId, mPlaying, offset, stopTid, reports, notes, telling>> /\ Untold' = Untold
    BY <1>7 DEF OnPlay, Untold
  <2>2. \/ Unpause /\ stream # NoStream
        \/ NoUnpause /\ ~(~mPlaying /\ sourceId # 0 /\ offset = 0)
    BY <1>7 DEF OnPlay, Unpause
  <2>3. CASE AtRest
    <3>1. NoUnpause
      BY <2>2, <2>3 DEF AtRest, Clear
    <3>2. Rested'
      BY <2>1, <2>3, <3>1, RestedKeeps DEF AtRest, NoUnpause
    <3>3. player.playing = "asked" => cmds' # <<>>
      BY <1>7, <2>3, ReadBefore DEF OnPlay, AtRest
    <3> QED BY <1>1, <1>3, <1>4, <2>1, <2>3, <3>2, <3>3, RestsOn
  <2>4. CASE AtWork
    <3>1. player.playing = "known" /\ Underway /\ Awaited /\ ~Has(cmds', Play)
      BY <1>3, <2>4 DEF AtWork, Underway
    <3>2. (AllTold => AllTold') /\ (EndIsLast => EndIsLast')
      BY <2>1 DEF AllTold, EndIsLast
    <3>3. CASE NoUnpause /\ ~(~mPlaying /\ sourceId # 0 /\ offset = 0)
      <4>1. UNCHANGED <<stream, status>>
        BY <3>3 DEF NoUnpause
      <4>2. (Fresh => Fresh') /\ Paused' = Paused
        BY <2>1, <4>1, FreshKeeps DEF Paused
      <4>3. Underway'
        BY <2>1, <3>1, <3>2, <4>1, <4>2 DEF Underway, Has
      <4>4. Awaited'
        BY <2>1, <3>1, <3>3, <4>2 DEF Awaited, Underway, Fresh
      <4> QED BY <1>1, <1>3, <1>4, <2>1, <2>4, <3>1, <4>3, <4>4, WorksOn
    <3>4. CASE Unpause /\ stream # NoStream
      <4>1. stream' # NoStream /\ ~stream'.paused
        BY <3>4 DEF Unpause, WithPaused, NoStream, TypeOK, ProcessTypeOK, Stream
      <4>2. ~Has(reports', Ending) /\ ~Paused'
        BY <2>1, <2>4, <3>4, <4>1 DEF AtWork, ItemThere, Paused
      <4>3. Underway' /\ Awaited'
        BY <3>1, <4>1, <4>2 DEF Underway, Awaited, Has
      <4> QED BY <1>1, <1>3, <1>4, <2>1, <2>4, <3>1, <4>3, WorksOn
    <3> QED BY <2>2, <3>3, <3>4
  <2> QED BY <2>3, <2>4, RestOrWork
<1> QED BY <1>3, <1>5, <1>6, <1>7, SetSourceSteady DEF Commanded, OnResume, OnPause

\* What is open, or being closed, is used by an item of the player.
LEMMA OpenIsUsed ==
  ASSUME TypeOK, Protocol, Steady, stream # NoStream \/ stopTid = "running"
  PROVE  AtWork /\ stream # NoStream /\ ~Has(reports, Ending)
<1>1. AtWork
  BY RestOrWork DEF AtRest, Clear
<1> QED BY <1>1 DEF AtWork, ItemThere

\* The stream is opened, is heard and comes to its end, or is closed.
LEMMA StreamingSteady ==
  ASSUME TypeOK, Protocol, Steady, UNCHANGED handlerVars,
         OpenStream \/ FirstFrame \/ Complete \/ StopPlayThread
  PROVE  Steady'
<1>1. /\ player' = player /\ cmds' = cmds /\ reports' = reports /\ telling' = telling
      /\ sourceId' = sourceId /\ mPlaying' = mPlaying /\ offset' = offset
  BY DEF handlerVars, OpenStream, FirstFrame, Complete, StopPlayThread
<1>2. stream # NoStream \/ stopTid = "running"
  BY DEF OpenStream, FirstFrame, Complete, StopPlayThread, NoStream
<1>3. AtWork /\ stream # NoStream /\ ~Has(reports, Ending)
  BY <1>2, OpenIsUsed
<1>4. notes \in Seq(Note) /\ {"PREPARED", "PLAYING", "COMPLETE", "STOPED"} \subseteq Note /\ stream \in Stream
  BY DEF TypeOK, ProcessTypeOK, Note
<1>5. /\ ~Has(cmds', Pauses) /\ ~Has(reports', {"pause"}) /\ ~Has(reports', Ending)
      /\ player.playing = "asked" => cmds' = <<>>
      /\ \A i \in 1..Len(cmds') : cmds'[i] \in Play => i = 1
  BY <1>1, <1>3 DEF AtWork, Underway, Steady
<1>6. CASE OpenStream
  <2>1. /\ stream' # NoStream /\ stream'.paused = stream.paused /\ stopTid' = stopTid
        /\ stream.stage = "opening" /\ stream'.stage = "ready"
    BY <1>4, <1>6 DEF OpenStream, Stream, NoStream
  <2>2. Fresh => Fresh'
    <3> SUFFICES ASSUME Fresh PROVE Fresh'
      OBVIOUS
    <3>1. notes' = Append(notes, "PREPARED")
      BY <1>6, <2>1 DEF OpenStream, Notify, Fresh
    <3> DEFINE a == Append(notes, "PREPARED")
    <3>2. /\ Len(a) = Len(notes) + 1 /\ Len(notes) \in Nat /\ a[Len(notes) + 1] = "PREPARED"
          /\ \A i \in 1..Len(notes) : a[i] = notes[i]
      BY <1>4, AppendProperties
    <3> HIDE DEF a
    <3>3. \A i \in 1..Len(a) : a[i] = "PREPARED"
      <4> SUFFICES ASSUME NEW i \in 1..Len(a) PROVE a[i] = "PREPARED"
        OBVIOUS
      <4>1. i \in 1..Len(notes) \/ i = Len(notes) + 1
        BY <3>2
      <4> QED BY <3>2, <4>1 DEF Fresh
    <3>4. Has(a, {"PREPARED"})
      BY <3>2 DEF Has
    <3>5. notes' = a
      BY <3>1 DEF a
    <3> QED BY <1>1, <2>1, <3>3, <3>4, <3>5 DEF Fresh
  <2>3. Paused' = Paused
    BY <1>3, <2>1 DEF Paused
  <2>4. Underway'
    BY <1>3, <1>5, <2>1, <2>2, <2>3 DEF AtWork, Underway
  <2>5. player.playing = "known" => Awaited'
    BY <1>1, <1>3, <2>1, <2>3 DEF AtWork, Awaited
  <2> QED BY <1>1, <1>3, <1>5, <2>4, <2>5, WorksOn
<1>7. CASE FirstFrame \/ Complete
  <2>1. stream' # NoStream /\ ~stream'.paused
    BY <1>4, <1>7 DEF FirstFrame, Complete, Stream, NoStream
  <2>2. Underway' /\ Awaited'
    BY <1>5, <2>1 DEF Underway, Awaited, Paused
  <2> QED BY <1>1, <1>3, <1>5, <2>2, WorksOn
<1>8. CASE StopPlayThread
  <2>1. Untold' = Append(Untold, "STOPED") /\ status' = "STOPPED" /\ stream' = NoStream
    BY <1>1, <1>4, <1>8, UntoldGrows DEF StopPlayThread, Notify
  <2>2. Has(Untold', {"STOPED"})
    BY <1>4, <2>1, UntoldTyped, Appended
  <2>3. Underway' /\ Awaited'
    BY <1>5, <2>1, <2>2 DEF Underway, Awaited, Paused
  <2> QED BY <1>1, <1>3, <1>5, <2>3, WorksOn
<1> QED BY <1>6, <1>7, <1>8

\* The timer thread tells of a note.
LEMMA TellSteady ==
  ASSUME TypeOK, Protocol, Steady, UNCHANGED handlerVars, Tell
  PROVE  Steady'
<1>1. /\ player' = player /\ cmds' = cmds /\ stream' = stream /\ notes' = notes /\ telling' /\ ~telling
      /\ sourceId' = sourceId /\ mPlaying' = mPlaying /\ status' = status /\ offset' = offset
      /\ notes # <<>> /\ notes \in Seq(Note) /\ Untold = notes /\ Untold' = Tail(notes)
  BY UntoldShrinks DEF handlerVars, Tell, TypeOK, ProcessTypeOK
<1>2. Head(notes) = notes[1] /\ 1 \in 1..Len(notes) /\ Head(notes) \in Note
  BY <1>1, HeadTailProperties, EmptySeq
<1>3. AtWork /\ ~Has(reports, Ending)
  BY <1>1, RestOrWork DEF AtRest, Rested, AllTold, AtWork, Underway
<1>4. Underway /\ ItemThere /\ (Fresh => Head(notes) = "PREPARED")
  BY <1>2, <1>3 DEF AtWork, Fresh
<1>5. /\ ~Has(cmds', Pauses) /\ ~Has(reports, {"pause"}) /\ Paused' = Paused
      /\ player.playing = "asked" => cmds' = <<>>
      /\ \A i \in 1..Len(cmds') : cmds'[i] \in Play => i = 1
  BY <1>1, <1>3 DEF AtWork, Underway, Steady, Paused
<1>6. reports \in Seq(Report) /\ {"play", "stop", "finish"} \subseteq Report
  BY DEF TypeOK, Report
<1>7. \A S : Head(notes) \notin S /\ Has(Untold, S) => Has(Untold', S)
  BY <1>1, TakenOff
<1>8. stopTid' = stopTid \/ stopTid' = "running"
  BY <1>2 DEF Tell, StopAsync, Note
<1>9. player.playing = "known" => Awaited'
  BY <1>1, <1>3, <1>5, <1>8 DEF AtWork, Awaited
<1>10. CASE Head(notes) = "PREPARED"
  <2>1. stopTid' = stopTid /\ reports' = reports
    BY <1>10 DEF Tell
  <2>2. Fresh => Fresh'
    BY <1>1, <2>1, FreshKeeps
  <2>3. Underway'
    BY <1>1, <1>3, <1>4, <1>5, <1>7, <1>10, <2>1, <2>2 DEF Underway
  <2> QED BY <1>1, <1>3, <1>5, <1>9, <2>1, <2>3, WorksOn
<1>11. ASSUME Head(notes) # "PREPARED" PROVE Paused' => stopTid' = "running"
  BY <1>4, <1>5, <1>8, <1>11 DEF Underway
<1>12. CASE Head(notes) = "PLAYING"
  <2>1. reports' = Append(reports, "play") /\ "play" \notin Ending
    BY <1>12 DEF Tell, Ending
  <2>2. ~Has(reports', Ending)
    BY <1>3, <1>6, <2>1, Appended
  <2>3. ~Has(reports', {"pause"})
    BY <1>5, <1>6, <2>1, Appended
  <2>4. Underway'
    BY <1>1, <1>3, <1>4, <1>5, <1>7, <1>11, <1>12, <2>2 DEF Underway
  <2> QED BY <1>1, <1>3, <1>5, <1>9, <2>3, <2>4, WorksOn
<1>13. CASE Head(notes) = "COMPLETE"
  <2>1. reports' = reports
    BY <1>13 DEF Tell
  <2>2. Underway'
    BY <1>1, <1>3, <1>4, <1>5, <1>7, <1>11, <1>13, <2>1 DEF Underway
  <2> QED BY <1>1, <1>3, <1>5, <1>9, <2>1, <2>2, WorksOn
<1>14. CASE Head(notes) = "STOPED"
  <2>1. PICK r \in Ending : reports' = Append(reports, r)
    BY <1>14 DEF Tell, Ending
  <2>2. r \in Report /\ r \notin {"pause"} /\ r \in Ending
    BY <1>6 DEF Ending
  <2>3. Has(reports', Ending)
    BY <1>6, <2>1, <2>2, Appended
  <2>4. ~Has(reports', {"pause"})
    BY <1>5, <1>6, <2>1, <2>2, Appended
  <2>5. Untold' = <<>>
    <3>1. Len(notes) = 1
      BY <1>1, <1>2, <1>4, <1>14 DEF ItemThere, StopIsLast
    <3>2. Len(Untold') = 0 /\ Untold' \in Seq(Note)
      BY <1>1, <3>1, TakenOff
    <3> QED BY <3>2, EmptySeq
  <2>6. EndIsLast'
    <3> DEFINE a == Append(reports, r)
    <3>1. /\ Len(a) = Len(reports) + 1 /\ Len(reports) \in Nat
          /\ \A i \in 1..Len(reports) : a[i] = reports[i]
      BY <1>6, <2>2, AppendProperties
    <3> HIDE DEF a
    <3>2. ASSUME NEW i \in 1..Len(a), NEW j \in 1..Len(a), a[i] \in Ending PROVE ~(i < j)
      <4>1. i \notin 1..Len(reports)
        BY <1>3, <3>1, <3>2 DEF Has
      <4> QED BY <3>1, <4>1
    <3>3. reports' = a
      BY <2>1 DEF a
    <3> QED BY <3>2, <3>3 DEF EndIsLast
  <2>7. AllTold'
    BY <1>1, <1>14, <2>5 DEF AllTold
  <2>8. Underway'
    BY <1>1, <1>4, <1>5, <1>11, <1>14, <2>3, <2>6, <2>7 DEF Underway
  <2> QED BY <1>1, <1>3, <1>5, <1>9, <2>4, <2>8, WorksOn
<1>15. Head(notes) # "ERROR"
  BY <1>1, <1>2 DEF Protocol, ErrorFree, Has
<1> QED BY <1>2, <1>10, <1>12, <1>13, <1>14, <1>15 DEF Note

\* The timer thread ends a note, and starts a stream whose offset was kept.
LEMMA SettleSteady ==
  ASSUME TypeOK, Protocol, Steady, UNCHANGED handlerVars, Settle, ~slipped'
  PROVE  Steady'
<1>1. /\ player' = player /\ cmds' = cmds /\ reports' = reports /\ stopTid' = stopTid
      /\ telling /\ ~telling' /\ notes' = Tail(notes) /\ notes # <<>> /\ notes \in Seq(Note)
      /\ mPlaying' = (Head(notes) = "PLAYING") /\ Untold' = Untold /\ Untold = notes'
      /\ sourceId' = IF Head(notes) = "STOPED" THEN 0 ELSE sourceId
  BY UntoldShrinks DEF handlerVars, Settle, TypeOK, ProcessTypeOK, Untold
<1>2. ~Has(cmds', Pauses) /\ ~Has(reports', {"pause"})
  BY <1>1 DEF Steady
<1>3. AllTold => AllTold'
  BY <1>1 DEF AllTold
<1>4. \/ NoUnpause /\ offset' = offset /\ ~(Head(notes) = "PREPARED" /\ offset # 0)
      \/ Unpause /\ stream # NoStream
  BY DEF Settle, StartIfKept, StartAtOffset, Unpause
<1>5. CASE AtRest
  <2>1. NoUnpause
    BY <1>4, <1>5 DEF AtRest, Clear
  <2>2. Rested'
    BY <1>1, <1>3, <1>5, <2>1 DEF AtRest, Rested, NoUnpause
  <2>3. player.playing = "asked" => cmds' # <<>>
    BY <1>1, <1>5 DEF AtRest
  <2> QED BY <1>1, <1>2, <1>5, <2>2, <2>3, RestsOn
<1>6. CASE AtWork
  <2>1. /\ player.playing = "asked" => cmds' = <<>>
        /\ \A i \in 1..Len(cmds') : cmds'[i] \in Play => i = 1
        /\ Underway /\ ItemThere /\ (player.playing = "known" => Awaited)
    BY <1>1, <1>6 DEF AtWork, Underway
  <2>2. CASE Unpause /\ stream # NoStream
    <3>1. stream' # NoStream /\ ~stream'.paused
      BY <2>2 DEF Unpause, WithPaused, NoStream, TypeOK, ProcessTypeOK, Stream
    <3>2. ~Has(reports', Ending)
      BY <1>1, <2>1, <2>2 DEF ItemThere
    <3>3. Underway' /\ Awaited'
      BY <2>1, <3>1, <3>2 DEF Underway, Awaited, Paused
    <3> QED BY <1>1, <1>2, <1>6, <2>1, <3>3, WorksOn
  <2>3. CASE NoUnpause /\ offset' = offset /\ ~(Head(notes) = "PREPARED" /\ offset # 0)
    <3>1. UNCHANGED <<stream, status>> /\ Paused' = Paused
      BY <2>3 DEF NoUnpause, Paused
    <3>2. Fresh => Fresh'
      <4> SUFFICES ASSUME Fresh PROVE Fresh'
        OBVIOUS
      <4>1. Head(notes) = notes[1] /\ 1 \in 1..Len(notes)
        BY <1>1, HeadTailProperties, EmptySeq
      <4>2. Head(notes) = "PREPARED" /\ offset = 0
        BY <2>3, <4>1 DEF Fresh
      <4>3. \A i \in 1..Len(notes') : notes'[i] = notes[i + 1] /\ i + 1 \in 1..Len(notes)
        BY <1>1, TakenOff
      <4> QED BY <1>1, <2>3, <3>1, <4>2, <4>3 DEF Fresh
    <3>3. EndIsLast => EndIsLast'
      BY <1>1 DEF EndIsLast
    <3>4. Underway'
      BY <1>1, <1>3, <2>1, <3>1, <3>2, <3>3 DEF Underway
    <3>5. player.playing = "known" => Awaited'
      BY <1>1, <2>1, <2>3, <3>1 DEF Awaited
    <3> QED BY <1>1, <1>2, <1>6, <2>1, <3>4, <3>5, WorksOn
  <2> QED BY <1>4, <2>2, <2>3
<1> QED BY <1>5, <1>6, RestOrWork

\* Any step of the process.
LEMMA ProcessSteady ==
  ASSUME TypeOK, Protocol, Steady, Process, broken' = {}, ~slipped'
  PROVE  Steady'
<1>1. UNCHANGED handlerVars
  BY DEF Process, Outlived
<1>2. ~FailToOpen /\ ~FailInStream
  BY DEF FailToOpen, FailInStream
<1> QED BY <1>1, <1>2, CommandedSteady, StreamingSteady, TellSteady, SettleSteady DEF Process, Streaming
-------------------------------------------------------------------------------
(***************************************************************************)
(* A player that does not pause, told in order: the application.           *)
(***************************************************************************)
\* The order of the reports that stay.
LEMMA EndIsLastKeeps ==
  ASSUME TypeOK, EndIsLast,
         reports' = reports \/ \E k \in 1..Len(reports) : reports' = Without(reports, k)
  PROVE  EndIsLast'
<1>1. CASE reports' = reports
  BY <1>1 DEF EndIsLast
<1>2. ASSUME NEW k \in 1..Len(reports), reports' = Without(reports, k) PROVE EndIsLast'
  <2> DEFINE w == Without(reports, k)
             From(i) == IF i < k THEN i ELSE i + 1
  <2>1. reports \in Seq(Report)
    BY DEF TypeOK
  <2>2. /\ Len(w) = Len(reports) - 1 /\ Len(reports) \in Nat
        /\ \A i \in 1..(k - 1) : w[i] = reports[i]
        /\ \A i \in k..(Len(reports) - 1) : w[i] = reports[i + 1]
    BY <2>1, WithoutPlaces
  <2> HIDE DEF w
  <2>3. \A i \in 1..Len(w) : From(i) \in 1..Len(reports) /\ w[i] = reports[From(i)]
    BY <2>2
  <2>4. \A i, j \in 1..Len(w) : i < j => From(i) < From(j)
    BY <2>2
  <2> HIDE DEF From
  <2>5. \A i, j \in 1..Len(w) : w[i] \in Ending /\ i < j => w[j] = "offset"
    BY <2>3, <2>4 DEF EndIsLast
  <2>6. reports' = w
    BY <1>2 DEF w
  <2> QED BY <2>5, <2>6 DEF EndIsLast
<1> QED BY <1>1, <1>2

\* Some of the reports, one of them taken or none.
LEMMA FewerReports ==
  ASSUME TypeOK, reports' = reports \/ \E k \in 1..Len(reports) : reports' = Without(reports, k), NEW S
  PROVE  Has(reports', S) => Has(reports, S)
<1>1. reports \in Seq(Report)
  BY DEF TypeOK
<1>2. \A k \in 1..Len(reports) : Has(Without(reports, k), S) => Has(reports, S)
  BY <1>1, TakenOut
<1> QED BY <1>2

\* What an item needs of the process is not changed by a callback.
LEMMA UnderwayKeeps ==
  ASSUME TypeOK, UNCHANGED processVars, Underway,
         reports' = reports \/ \E k \in 1..Len(reports) : reports' = Without(reports, k),
         Has(reports', Ending) <=> Has(reports, Ending),
         \A i \in 1..Len(cmds') : cmds'[i] \in Play => i = 1
  PROVE  Underway' /\ (Awaited /\ (Has(cmds, Play) => Has(cmds', Play)) => Awaited')
<1>1. Untold' = Untold /\ UNCHANGED <<stream, stopTid, sourceId, mPlaying, notes, offset, status, telling>>
  BY DEF processVars, Untold
<1>2. (Fresh => Fresh') /\ (AllTold => AllTold') /\ Paused' = Paused
  BY <1>1, FreshKeeps DEF AllTold, Paused
<1>3. EndIsLast => EndIsLast'
  BY EndIsLastKeeps
<1>4. Underway'
  BY <1>1, <1>2, <1>3 DEF Underway
<1> QED BY <1>1, <1>2, <1>4 DEF Awaited

\* A callback sends what neither plays nor pauses.
LEMMA SendsQuietly ==
  ASSUME NEW p, NEW n, Tidy(p, n), VolDown(p)
  PROVE  ~Has(p.out, Play) /\ ~Has(p.out, Pauses)
<1>1. CASE p.playing = "known"
  BY <1>1 DEF Tidy, Sends
<1>2. CASE p.playing # "known"
  <2>1. p.out \in {<<>>, <<SetSource(p.item)>>}
    BY <1>2 DEF Tidy, Good, Sends, PlayerRecord
  <2>2. \A i \in 1..Len(p.out) : p.out[i] = SetSource(p.item)
    <3> HIDE DEF SetSource
    <3> QED BY <2>1
  <2>3. SetSource(p.item) \notin Play /\ SetSource(p.item) \notin Pauses
    BY DEF SetSource, Play, Pauses, Control
  <2> QED BY <2>2, <2>3 DEF Has
<1> QED BY <1>1, <1>2

\* A callback after which the same item plays, or the next one is asked for.
LEMMA CallbackSteady ==
  ASSUME TypeOK, Protocol, Steady, UNCHANGED processVars,
         NEW p, Becomes(p), Tidy(p, directives'), VolDown(p),
         NEW a \in Activity, Goes([player EXCEPT !.state = a], p),
         player.playing = "null" => a = player.state,
         reports' = reports \/ \E k \in 1..Len(reports) : Minor(reports[k]) /\ reports' = Without(reports, k)
  PROVE  Steady'
<1>1. UNCHANGED <<status, notes, telling, mPlaying>>
  BY DEF processVars
<1>2. Has(reports', Ending) <=> Has(reports, Ending)
  BY ReportTaken
<1>3. reports' = reports \/ \E k \in 1..Len(reports) : reports' = Without(reports, k)
  OBVIOUS
<1>4. /\ Has(reports', {"pause"}) => Has(reports, {"pause"})
      /\ Has(reports', {"play"}) => Has(reports, {"play"})
  BY <1>3, FewerReports
<1>5. p \in PlayerRecord
  BY DEF Tidy, Good
<1>6. player'.playing = p.playing /\ player'.state = p.state
  BY <1>5 DEF Becomes, PlayerRecord
<1> DEFINE b == [player EXCEPT !.state = a]
<1>7. b.playing = player.playing /\ b.out = <<>> /\ b.state = a /\ Goes(b, p)
  BY DEF TypeOK, HandlerTypeOK, PlayerRecord
<1> HIDE DEF b
<1>8. /\ \A S : Has(cmds', S) <=> Has(cmds, S) \/ Has(p.out, S)
      /\ p.out = <<>> => cmds' = cmds
      /\ \A c \in Command : p.out = <<c>> => cmds' # <<>>
  BY <1>5, CommandsJoin
<1>9. ~Has(p.out, Play) /\ ~Has(p.out, Pauses)
  BY SendsQuietly
<1>10. (Has(cmds, Play) => Has(cmds', Play)) /\ ~Has(cmds', Pauses) /\ ~Has(reports', {"pause"})
  BY <1>4, <1>8, <1>9 DEF Steady
<1>11. Rested => Rested'
  BY <1>1, <1>4, RestedKeeps
<1>12. CASE player.playing = "null"
  <2>1. Rested' /\ player.state # "PLAYING" /\ a = player.state
    BY <1>11, <1>12 DEF Steady
  <2>2. CASE p.playing = "null"
    BY <1>6, <1>7, <1>10, <1>12, <2>1, <2>2 DEF Goes, Steady
  <2>3. CASE p.playing # "null"
    <3>1. p.playing = "asked" /\ p.out = <<SetSource(p.item)>> /\ SetSource(p.item) \in Command
      BY <1>7, <1>12, <2>3 DEF Goes, Tidy, Good, SetSource, Command
    <3>2. cmds' # <<>>
      BY <1>8, <3>1
    <3> QED BY <1>6, <1>10, <2>1, <3>1, <3>2 DEF Steady
  <2> QED BY <2>2, <2>3
<1>13. CASE player.playing = "asked"
  <2>1. p.playing = "asked" /\ cmds' = cmds
    BY <1>7, <1>8, <1>13 DEF Goes
  <2>2. cmds # <<>> => Rested'
    BY <1>11, <1>13 DEF Steady
  <2>3. cmds = <<>> => Underway'
    <3>1. cmds = <<>> => Underway /\ \A i \in 1..Len(cmds') : cmds'[i] \in Play => i = 1
      BY <1>13, <2>1 DEF Steady, Underway
    <3> QED BY <1>2, <1>3, <3>1, UnderwayKeeps
  <2> QED BY <1>6, <1>10, <2>1, <2>2, <2>3 DEF Steady
<1>14. CASE player.playing = "known"
  <2>1. p.playing = "known" /\ Underway /\ Awaited
    BY <1>7, <1>14 DEF Goes, Steady
  <2>2. \A i \in 1..Len(cmds') : cmds'[i] \in Play => i = 1
    <3> DEFINE u == cmds \o p.out
    <3>1. /\ Len(u) = Len(cmds) + Len(p.out) /\ Len(cmds) \in Nat /\ Len(p.out) \in Nat
          /\ \A i \in 1..(Len(cmds) + Len(p.out)) : u[i] = IF i <= Len(cmds) THEN cmds[i] ELSE p.out[i - Len(cmds)]
      <4>1. cmds \in Seq(Command) /\ p.out \in Seq(Command)
        BY <1>5 DEF TypeOK, PlayerRecord
      <4> QED BY <4>1, ConcatProperties
    <3>2. cmds' = u
      BY DEF Becomes
    <3> HIDE DEF u
    <3>3. ASSUME NEW i \in 1..Len(u), u[i] \in Play PROVE i = 1
      <4>1. CASE i <= Len(cmds)
        BY <2>1, <3>1, <3>3, <4>1 DEF Underway
      <4>2. CASE ~(i <= Len(cmds))
        <5>1. i - Len(cmds) \in 1..Len(p.out) /\ u[i] = p.out[i - Len(cmds)]
          BY <3>1, <4>2
        <5> QED BY <1>9, <3>3, <5>1 DEF Has
      <4> QED BY <4>1, <4>2
    <3> QED BY <3>2, <3>3
  <2>3. Underway' /\ Awaited'
    BY <1>2, <1>3, <1>10, <2>1, <2>2, UnderwayKeeps
  <2> QED BY <1>6, <1>10, <2>1, <2>3 DEF Steady
<1> QED BY <1>12, <1>13, <1>14 DEF TypeOK, HandlerTypeOK, PlayerRecord

\* The report of an end is taken first, and nothing is left of the item.
LEMMA EndSteady ==
  ASSUME TypeOK, Protocol, Steady, UNCHANGED processVars, player.playing = "known",
         reports # <<>>, reports[1] \in Ending, reports' = Without(reports, 1),
         NEW p, Becomes(p), Tidy(p, directives'), VolDown(p),
         NEW a \in {"STOPPED", "FINISHED"}, Goes([Drop(Hearer(1)) EXCEPT !.state = a], p)
  PROVE  Steady'
<1>1. UNCHANGED <<status, notes, telling, mPlaying>> /\ Untold' = Untold
  BY DEF processVars, Untold
<1>2. p \in PlayerRecord
  BY DEF Tidy, Good
<1>3. player'.playing = p.playing /\ player'.state = p.state
  BY <1>2 DEF Becomes, PlayerRecord
<1>4. reports \in Seq(Report) /\ Len(reports) \in Nat /\ 1 \in 1..Len(reports)
  BY EmptySeq DEF TypeOK
<1>5. Has(reports, Ending)
  BY <1>4 DEF Has
<1>6. status = "STOPPED" /\ AllTold /\ EndIsLast
  BY <1>5 DEF Protocol, AtProcess, ItemThere, Steady, Underway
<1>7. ~Has(reports', {"play"}) /\ ~Has(reports', {"pause"})
  <2> DEFINE w == Without(reports, 1)
  <2>1. Len(w) = Len(reports) - 1 /\ \A i \in 1..(Len(reports) - 1) : w[i] = reports[i + 1]
    BY <1>4, WithoutPlaces
  <2> HIDE DEF w
  <2>2. \A i \in 1..Len(w) : i + 1 \in 1..Len(reports) /\ 1 < i + 1 /\ w[i] = reports[i + 1]
    BY <1>4, <2>1
  <2>3. \A i \in 1..Len(w) : w[i] = "offset"
    BY <1>4, <1>6, <2>2 DEF EndIsLast
  <2>4. reports' = w
    BY DEF w
  <2> QED BY <2>3, <2>4 DEF Has
<1>8. Rested'
  BY <1>1, <1>6, <1>7 DEF Rested, AllTold
<1> DEFINE h == Hearer(1)
           b == [Drop(h) EXCEPT !.state = a]
<1>9. h \in PlayerRecord
  BY HearerIsPlayer
<1> HIDE DEF h
<1>10. b.playing = "null" /\ b.state = a /\ Goes(b, p)
  <2>1. b.playing = "null" /\ b.state = a
    BY <1>9 DEF Drop, PlayerRecord
  <2> QED BY <2>1 DEF h
<1> HIDE DEF b
<1>11. /\ \A S : Has(cmds', S) <=> Has(cmds, S) \/ Has(p.out, S)
       /\ \A c \in Command : p.out = <<c>> => cmds' # <<>>
  BY <1>2, CommandsJoin
<1>12. ~Has(cmds', Pauses)
  BY <1>11, SendsQuietly DEF Steady
<1>13. p.playing \in {"null", "asked"} /\ (p.playing = "null" => p.state # "PLAYING")
  BY <1>10 DEF Goes
<1>14. p.playing = "asked" => cmds' # <<>>
  <2>1. p.playing = "asked" => p.out = <<SetSource(p.item)>> /\ SetSource(p.item) \in Command
    BY <1>10 DEF Goes, Tidy, Good, SetSource, Command
  <2> QED BY <1>11, <2>1
<1> QED BY <1>3, <1>7, <1>8, <1>12, <1>13, <1>14 DEF Steady

\* The source id is taken: the item is told to play.
LEMMA SourceSteady ==
  ASSUME TypeOK, Protocol, Steady, UNCHANGED processVars,
         NEW k \in 1..Len(reports), reports[k] = "source", reports' = Without(reports, k),
         Becomes(KnowSource(Hearer(k)))
  PROVE  Steady'
<1>1. Has(reports, {"source"})
  BY DEF Has
<1>2. player.playing = "asked" /\ ~player.cancel /\ cmds = <<>> /\ Underway
  BY <1>1 DEF Protocol, Nothing, Requested, Clear, AtProcess, InLine, Identified, Steady,
              TypeOK, HandlerTypeOK, PlayerRecord
<1> DEFINE h == Hearer(k)
           q == [h EXCEPT !.playing = "known"]
           p == Send(q, Control("PLAY"))
<1>3. h \in PlayerRecord /\ Same(player, h) /\ h.out = <<>>
  BY HearerIsPlayer
<1> HIDE DEF h
<1>4. KnowSource(h) = p
  BY <1>2, <1>3 DEF KnowSource, Same
<1>5. q \in PlayerRecord /\ q.playing = "known" /\ q.out = <<>> /\ Control("PLAY") \in Command
  BY <1>3 DEF PlayerRecord, Control, Command
<1> HIDE DEF q
<1>6. p \in PlayerRecord /\ p.playing = "known" /\ p.out = <<Control("PLAY")>>
  <2>1. p \in PlayerRecord
    BY <1>5, SendKeeps
  <2>2. p = [q EXCEPT !.out = <<Control("PLAY")>>]
    BY <1>5 DEF Send
  <2> HIDE DEF p
  <2> QED BY <1>5, <2>1, <2>2 DEF PlayerRecord
<1> HIDE DEF p
<1>7. Becomes(p)
  BY <1>4 DEF h
<1>8. player'.playing = "known" /\ cmds' = <<Control("PLAY")>>
  <2>1. player'.playing = "known"
    BY <1>6, <1>7 DEF Becomes, PlayerRecord
  <2>2. cmds' = <<>> \o <<Control("PLAY")>>
    BY <1>2, <1>6, <1>7 DEF Becomes
  <2>3. <<>> \o <<Control("PLAY")>> = <<Control("PLAY")>>
    <3>1. <<Control("PLAY")>> \in Seq(Command)
      <4> HIDE DEF Control, Command
      <4> QED BY <1>5
    <3> QED BY <3>1, ConcatEmptySeq
  <2> QED BY <2>1, <2>2, <2>3
<1>9. /\ \A i \in 1..Len(cmds') : i = 1 /\ cmds'[i] = Control("PLAY")
      /\ 1 \in 1..Len(cmds')
  <2> HIDE DEF Control
  <2> QED BY <1>8
<1>10. Has(cmds', Play) /\ ~Has(cmds', Pauses)
  <2>1. Control("PLAY") \in Play /\ Control("PLAY") \notin Pauses
    BY DEF Play, Pauses, Control
  <2> QED BY <1>9, <2>1 DEF Has
<1>11. ~Has(reports', {"pause"}) /\ (Has(reports', Ending) <=> Has(reports, Ending))
  <2>1. reports[k] \notin Ending /\ reports \in Seq(Report)
    BY DEF Ending, TypeOK
  <2>2. Has(Without(reports, k), Ending) <=> Has(reports, Ending)
    BY <2>1, TakenOut
  <2>3. Has(Without(reports, k), {"pause"}) => Has(reports, {"pause"})
    BY <2>1, TakenOut
  <2> QED BY <2>2, <2>3 DEF Steady
<1>12. Underway'
  BY <1>2, <1>9, <1>11, UnderwayKeeps
<1>13. Awaited'
  BY <1>10 DEF Awaited
<1> QED BY <1>8, <1>10, <1>11, <1>12, <1>13 DEF Steady

\* A directive, a focus, a stop, the timer or a request for the context.
LEMMA CallbacksSteady ==
  ASSUME TypeOK, PlayerInv, Protocol, Steady, VolDown(player), UNCHANGED processVars, ~player'.hasty,
         Directive \/ (\E f \in Focus : FocusTo(f)) \/ StopPlaying \/ DelayedPlay \/ GetContext
  PROVE  Steady'
<1>1. player.state \in Activity /\ [player EXCEPT !.state = player.state] = player
  BY PlayerTidy
<1>2. PICK p \in PlayerRecord : Becomes(p) /\ Tidy(p, directives') /\ Goes(player, p)
  BY CallbacksTidy
<1>3. Goes([player EXCEPT !.state = player.state], p) /\ reports' = reports /\ VolDown(p)
  BY <1>1, <1>2, CallbacksTidy DEF Goes, VolDown
<1> QED BY <1>1, <1>2, <1>3, CallbackSteady

\* A report that has overtaken none comes first.
LEMMA InTurn ==
  ASSUME TypeOK, NEW k \in 1..Len(reports), Deliver(k), ~player'.crossed
  PROVE  k = 1
<1> DEFINE r == reports[k]
           h == Hearer(k)
           p == CASE r = "source"                  -> KnowSource(h)
                  [] r = "offset"                  -> AnswerOffset(h)
                  [] r \notin {"source", "offset"} -> HearStatus(h, r)
<1>1. Becomes(p)
  BY DEF Deliver, Hear, Hearer
<1>2. r \in Report /\ k \in Nat
  BY DEF TypeOK
<1>3. h \in PlayerRecord /\ h.crossed = (player.crossed \/ k # 1)
  BY <1>2, HearerIsPlayer
<1> HIDE DEF r, h
<1>4. Stays(h, p)
  BY <1>2, <1>3, HearStays
<1> HIDE DEF p
<1>5. player'.crossed = p.crossed
  BY <1>1, <1>4 DEF Becomes, Stays, HasMarks
<1> QED BY <1>3, <1>4, <1>5 DEF Stays

\* A report, in its turn.
LEMMA DeliverySteady ==
  ASSUME TypeOK, PlayerInv, Protocol, Steady, VolDown(player), Delivery,
         ~player'.stale, ~player'.hasty, ~player'.crossed
  PROVE  Steady'
<1>1. PICK k \in 1..Len(reports) : Deliver(k)
  BY DEF Delivery
<1>2. /\ UNCHANGED processVars /\ reports' = Without(reports, k) /\ directives' = directives
      /\ Hear(reports[k], k # 1) /\ reports[k] \in Report /\ reports # <<>>
  BY <1>1 DEF Deliver, Without, Hear, TypeOK
<1>3. k = 1
  BY <1>1, InTurn
<1>4. CASE reports[k] = "source"
  <2>1. Becomes(KnowSource(Hearer(k)))
    BY <1>2, <1>4 DEF Hear, Hearer
  <2> QED BY <1>2, <1>4, <2>1, SourceSteady
<1>5. CASE reports[k] \in {"offset", "play", "pause"}
  <2>1. PICK p \in PlayerRecord, a \in Activity :
          /\ Becomes(p) /\ Tidy(p, directives') /\ Goes([player EXCEPT !.state = a], p)
          /\ reports[k] = "offset" => a = player.state
    BY <1>1, <1>5, MinorTidy
  <2>2. Minor(reports[k])
    BY <1>2, <1>5 DEF Minor, Ending
  <2>3. player.playing = "null" => reports[k] = "offset"
    BY <1>5 DEF Steady, Rested, Has
  <2>4. VolDown(p)
    <3>1. [player EXCEPT !.state = a].kind = player.kind
      BY DEF TypeOK, HandlerTypeOK, PlayerRecord
    <3> QED BY <2>1, <3>1 DEF Goes, VolDown
  <2> QED BY <1>2, <2>1, <2>2, <2>3, <2>4, CallbackSteady
<1>6. CASE reports[k] \in Ending
  <2>1. PICK p \in PlayerRecord, a \in {"STOPPED", "FINISHED"} :
          Becomes(p) /\ Tidy(p, directives') /\ Goes([Drop(Hearer(k)) EXCEPT !.state = a], p)
    BY <1>1, <1>6, EndTidy
  <2>2. player.playing = "known"
    BY <1>1, <1>6, EndTidy
  <2>3. VolDown(p)
    <3> DEFINE h == Hearer(k)
    <3>1. h \in PlayerRecord /\ h.kind = player.kind
      BY HearerIsPlayer DEF Same
    <3> HIDE DEF h
    <3>2. [Drop(h) EXCEPT !.state = a].kind = player.kind
      BY <3>1 DEF Drop, PlayerRecord
    <3> QED BY <2>1, <3>2 DEF Goes, VolDown, h
  <2> QED BY <1>2, <1>3, <1>6, <2>1, <2>2, <2>3, EndSteady
<1>7. reports[k] # "error"
  BY DEF Protocol, ErrorFree, Has
<1> QED BY <1>2, <1>4, <1>5, <1>6, <1>7 DEF Report, Ending

-------------------------------------------------------------------------------
\* What has come out of its order is remembered.
LEMMA OrderWas ==
  ASSUME TypeOK, [Next]_playbackVars, InOrder'
  PROVE  InOrder /\ ~player'.crossed /\ ~slipped'
<1>1. player.crossed => player'.crossed
  BY StepStays DEF Stays
<1>2. slipped => slipped'
  <2>1. CASE UNCHANGED slipped
    BY <2>1
  <2>2. CASE Process /\ ~UNCHANGED slipped
    BY <2>2 DEF Process, Commanded, OnSetSource, OnReportOffset, OnPlay, OnStop, OnResume, OnPause,
                Streaming, OpenStream, FailToOpen, FailInStream, FirstFrame, Complete, StopPlayThread,
                Tell, Settle, StartIfKept, StartAtOffset, Unpause, NoUnpause, processVars
  <2> QED BY <2>1, <2>2 DEF Next, Application, Delivery, Deliver, processVars, playbackVars
<1> QED BY <1>1, <1>2 DEF InOrder

\* As long as everything comes in its order, the protocol of a player that does not pause is kept.
LEMMA SteadyHolds == Spec => []SteadyInv
<1>1. Init => SteadyInv
  <2> SUFFICES ASSUME Init PROVE Steady
    BY DEF SteadyInv
  <2>1. /\ player.playing = "null" /\ player.state = "IDLE" /\ reports = <<>> /\ cmds = <<>>
        /\ status = "IDLE" /\ notes = <<>> /\ ~telling /\ ~mPlaying
    BY DEF Init, HandlerInit, ProcessInit
  <2>2. \A S : ~Has(reports, S) /\ ~Has(cmds, S)
    BY <2>1 DEF Has
  <2> QED BY <2>1, <2>2 DEF Steady, Rested, AllTold, Untold
<1>2. TypeOK /\ PlayerInv /\ ProtocolInv /\ SteadyInv /\ [Next]_playbackVars => SteadyInv'
  <2> SUFFICES ASSUME TypeOK, PlayerInv, ProtocolInv, SteadyInv, [Next]_playbackVars,
                      Calm', InOrder', VolDown(player)'
               PROVE  Steady'
    BY DEF SteadyInv
  <2>1. /\ ~player'.stale /\ ~player'.hasty /\ broken' = {} /\ ~player'.crossed /\ ~slipped'
        /\ VolDown(player) /\ Protocol /\ Steady
    <3>1. player'.kind = player.kind
      BY StepStays DEF Stays
    <3> QED BY <3>1, CalmWas, OrderWas DEF ProtocolInv, SteadyInv, VolDown
  <2>2. CASE UNCHANGED playbackVars
    <3>1. /\ player' = player /\ cmds' = cmds /\ reports' = reports /\ Untold' = Untold
          /\ UNCHANGED <<stream, stopTid, status, notes, telling, mPlaying, sourceId, offset>>
      BY <2>2 DEF playbackVars, processVars, handlerVars, Untold
    <3>2. Fresh' = Fresh /\ AllTold' = AllTold /\ EndIsLast' = EndIsLast /\ Paused' = Paused
      BY <3>1 DEF Fresh, AllTold, EndIsLast, Paused
    <3>3. Rested' = Rested /\ Underway' = Underway /\ Awaited' = Awaited
      BY <3>1, <3>2 DEF Rested, Underway, Awaited
    <3> QED BY <2>1, <3>1, <3>3 DEF Steady
  <2>3. CASE /\ Directive \/ (\E f \in Focus : FocusTo(f)) \/ StopPlaying \/ DelayedPlay \/ GetContext
             /\ UNCHANGED processVars
    BY <2>1, <2>3, CallbacksSteady
  <2>4. CASE Delivery
    BY <2>1, <2>4, DeliverySteady
  <2>5. CASE Process
    BY <2>1, <2>5, ProcessSteady
  <2> QED BY <2>2, <2>3, <2>4, <2>5 DEF Next, Application
<1> QED BY InvHolds, ProtocolHolds, <1>1, <1>2, PTL DEF Spec

(***************************************************************************)
(* What the application says it is playing is played, once every message   *)
(* has arrived: of a player that lowers its volume in the background, its  *)
(* item is open and not paused, or still being opened.  It is proved up to *)
(* the step that ends the calm or comes out of its order: a report that    *)
(* overtakes another one, a source that is set before the timer thread is  *)
(* done with the note of the last item, or a start that comes to nothing.  *)
(***************************************************************************)
THEOREM WhatIsSaidToPlayPlays == Spec => []PlayingIsPlayed
<1>1. TypeOK /\ ProtocolInv /\ SteadyInv => PlayingIsPlayed
  <2> SUFFICES ASSUME TypeOK, ProtocolInv, SteadyInv, Calm, InOrder, VolDown(player),
                      player.state = "PLAYING", Quiet
               PROVE  player.item = stream.item /\ (stream.paused => stream.stage = "opening")
    BY DEF PlayingIsPlayed
  <2>1. Protocol /\ Steady
    BY DEF ProtocolInv, SteadyInv
  <2>2. cmds = <<>> /\ reports = <<>> /\ notes = <<>> /\ ~telling /\ stopTid # "running"
    BY DEF Quiet, TypeOK, ProcessTypeOK
  <2>3. Untold = <<>>
    BY <2>2 DEF Untold
  <2>4. \A S : ~Has(cmds, S) /\ ~Has(reports, S) /\ ~Has(Untold, S) /\ ~Has(notes, S)
    BY <2>2, <2>3 DEF Has
  <2>5. player.playing = "known"
    BY <2>1, <2>2, <2>4 DEF Steady, Protocol, Requested, Identified, TypeOK, HandlerTypeOK, PlayerRecord
  <2>6. Underway /\ Awaited /\ ItemThere
    BY <2>1, <2>5 DEF Steady, Protocol, AtProcess
  <2>7. stream # NoStream
    BY <2>4, <2>6 DEF Underway
  <2>8. stream.paused => stream.stage = "opening"
    BY <2>2, <2>4, <2>6, <2>7 DEF Underway, Awaited, Paused, Fresh
  <2> QED BY <2>6, <2>7, <2>8 DEF ItemThere
<1> QED BY InvHolds, ProtocolHolds, SteadyHolds, <1>1, PTL

-------------------------------------------------------------------------------
(***************************************************************************)
(* What the player promises: PlayedItems.                                  *)
(***************************************************************************)
\* A callback after which the same item plays, or the next one is asked for.
LEMMA CallbackTurns ==
  ASSUME TypeOK, UNCHANGED processVars, directives' \in {directives, directives + 1},
         NEW p, Becomes(p), Tidy(p, directives'),
         NEW a \in Activity, Goes([player EXCEPT !.state = a], p)
  PROVE  Items!Turns
<1>1. p \in PlayerRecord
  BY DEF Tidy, Good
<1>2. /\ player'.playing = p.playing /\ player'.item = p.item
      /\ player'.cut = p.cut /\ player'.over = p.over
  BY <1>1 DEF Becomes, PlayerRecord
<1> DEFINE b == [player EXCEPT !.state = a]
<1>3. /\ b.playing = player.playing /\ b.item = player.item /\ b.cut = player.cut /\ b.over = player.over
      /\ Goes(b, p)
  BY DEF TypeOK, HandlerTypeOK, PlayerRecord
<1> HIDE DEF b
<1>4. stream' = stream /\ heard' = heard
  BY DEF processVars
<1>5. p.playing # "null" => /\ p.item \in 1..directives' /\ p.item # 0
                           /\ \A i \in p.over : i < p.item
  BY <1>1 DEF Tidy, Good, InLine, Item, TypeOK, HandlerTypeOK
<1> DEFINE c == IF player.playing = "null" THEN 0 ELSE player.item
<1>6. c' = IF p.playing = "null" THEN 0 ELSE p.item
  BY <1>2
<1>7. player'.over = player.over
  BY <1>2, <1>3 DEF Goes
<1>8. player'.cut = player.cut \/ (c' # 0 /\ player'.cut = player.cut \cup {c'})
  <2>1. /\ player.cut \subseteq p.cut
        /\ p.cut \subseteq IF p.playing = "null" THEN player.cut ELSE player.cut \cup {p.item}
    BY <1>3 DEF Goes
  <2>2. CASE p.playing = "null"
    BY <1>2, <2>1, <2>2
  <2>3. CASE p.playing # "null"
    <3>1. p.cut = player.cut \/ p.cut = player.cut \cup {p.item}
      BY <2>1, <2>3
    <3> QED BY <1>2, <1>5, <1>6, <2>3, <3>1
  <2> QED BY <2>2, <2>3
<1>9. \/ c = 0 /\ (c' # 0 => c' \in 1..directives' /\ \A i \in player'.over : i < c')
      \/ c' = c
  BY <1>2, <1>3, <1>5, <1>6 DEF Goes
<1>10. Sounding' = Sounding /\ stream'.item = stream.item
  BY <1>4 DEF Sounding
<1> QED BY <1>4, <1>7, <1>8, <1>9, <1>10
        DEF Items!Turns, Items!Wishes, Items!Begins, Items!GoesOn, Items!Takes

\* The report of an end is taken.
LEMMA EndTurns ==
  ASSUME TypeOK, Protocol, UNCHANGED processVars, directives' = directives,
         NEW k \in 1..Len(reports), reports[k] \in Ending, player.playing = "known",
         NEW p, Becomes(p), Tidy(p, directives'),
         NEW a \in Activity, Goes([Drop(Hearer(k)) EXCEPT !.state = a], p)
  PROVE  Items!Turns
<1>1. p \in PlayerRecord
  BY DEF Tidy, Good
<1>2. /\ player'.playing = p.playing /\ player'.item = p.item
      /\ player'.cut = p.cut /\ player'.over = p.over
  BY <1>1 DEF Becomes, PlayerRecord
<1>3. stream = NoStream /\ player.item \in heard \cup player.cut
  <2>1. Has(reports, Ending)
    BY DEF Has
  <2> QED BY <2>1, ItemOpen DEF ItemThere
<1> DEFINE h == Hearer(k)
           b == [Drop(h) EXCEPT !.state = a]
<1>4. h \in PlayerRecord /\ Same(player, h)
  BY HearerIsPlayer
<1> HIDE DEF h
<1>5. b.playing = "null" /\ b.cut = player.cut /\ b.over = player.over \cup {player.item} /\ Goes(b, p)
  <2>1. b.playing = "null" /\ b.cut = h.cut /\ b.over = h.over \cup {h.item}
    BY <1>4 DEF Drop, Same, PlayerRecord
  <2> QED BY <1>4, <2>1 DEF Same, h
<1> HIDE DEF b
<1>6. stream' = stream /\ heard' = heard
  BY DEF processVars
<1>7. p.playing # "null" => /\ p.item \in 1..directives' /\ p.item # 0
                           /\ \A i \in p.over : i < p.item
  BY <1>1 DEF Tidy, Good, InLine, Item, TypeOK, HandlerTypeOK
<1> DEFINE c == IF player.playing = "null" THEN 0 ELSE player.item
<1>8. c = player.item /\ c' = IF p.playing = "null" THEN 0 ELSE p.item
  BY <1>2
<1>9. player'.over = player.over \cup {c}
  BY <1>2, <1>5, <1>8 DEF Goes
<1>10. player'.cut = player.cut \/ (c' # 0 /\ player'.cut = player.cut \cup {c'})
  <2>1. /\ player.cut \subseteq p.cut
        /\ p.cut \subseteq IF p.playing = "null" THEN player.cut ELSE player.cut \cup {p.item}
    BY <1>5 DEF Goes
  <2>2. CASE p.playing = "null"
    BY <1>2, <2>1, <2>2
  <2>3. CASE p.playing # "null"
    <3>1. p.cut = player.cut \/ p.cut = player.cut \cup {p.item}
      BY <2>1, <2>3
    <3> QED BY <1>2, <1>7, <1>8, <2>3, <3>1
  <2> QED BY <2>2, <2>3
<1>11. c' # 0 => c' \in 1..directives' /\ \A i \in player'.over : i < c'
  BY <1>2, <1>7, <1>8
<1>12. ~Sounding /\ ~Sounding'
  BY <1>3, <1>6 DEF Sounding, NoStream
<1>13. directives' \in {directives, directives + 1} /\ c \in heard \cup player.cut
  BY <1>3, <1>8
<1> HIDE DEF c
<1>14. Items!Ends /\ Items!Wishes
  BY <1>9, <1>10, <1>11, <1>12, <1>13 DEF Items!Ends, Items!Wishes, Items!Takes, c
<1> QED BY <1>6, <1>12, <1>14 DEF Items!Turns

\* The source id is taken: nothing is seen of it.
LEMMA SourceTurns ==
  ASSUME TypeOK, Protocol, UNCHANGED processVars, directives' = directives,
         NEW k \in 1..Len(reports), reports[k] = "source", Becomes(KnowSource(Hearer(k)))
  PROVE  Items!Turns
<1>1. player.playing = "asked" /\ ~player.cancel
  <2>1. Has(reports, {"source"})
    BY DEF Has
  <2> QED BY <2>1 DEF Protocol, Nothing, Clear, AtProcess, InLine, TypeOK, HandlerTypeOK, PlayerRecord
<1> DEFINE h == Hearer(k)
<1>2. h \in PlayerRecord /\ Same(player, h)
  BY HearerIsPlayer
<1> HIDE DEF h
<1>3. Becomes(KnowSource(h))
  BY DEF h
<1>4. player' = [h EXCEPT !.playing = "known", !.out = <<>>]
  BY <1>1, <1>2, <1>3 DEF Becomes, KnowSource, Send, Same, PlayerRecord
<1>5. /\ player'.playing = "known" /\ player'.item = player.item
      /\ player'.cut = player.cut /\ player'.over = player.over
  BY <1>2, <1>4 DEF Same, PlayerRecord
<1>6. stream' = stream /\ heard' = heard /\ Sounding' = Sounding
  BY DEF processVars, Sounding
<1> QED BY <1>1, <1>5, <1>6 DEF Items!Turns, Items!Wishes, Items!GoesOn

\* A step of the process: what sounds is the item that is taken.
LEMMA ProcessSounds ==
  ASSUME TypeOK, TypeOK', Protocol', Process, broken' = {}
  PROVE  Items!Sounds
<1>1. player' = player /\ directives' = directives
  BY DEF Process, Outlived, handlerVars
<1>2. heard' = heard \/ (Sounding' /\ heard' = heard \cup {stream'.item})
  <2>1. CASE UNCHANGED heard
    BY <2>1
  <2>2. CASE FirstFrame
    BY <2>2 DEF FirstFrame, Sounding, TypeOK, ProcessTypeOK, Stream, NoStream
  <2>3. FirstFrame \/ UNCHANGED heard
    BY DEF Process, Commanded, OnSetSource, OnReportOffset, OnPlay, OnStop, OnResume, OnPause, processVars,
           Streaming, OpenStream, FailToOpen, FailInStream, Complete, StopPlayThread, Tell, Settle
  <2> QED BY <2>1, <2>2, <2>3
<1>3. Sounding' => /\ player.playing # "null" /\ stream'.item = player.item /\ player.item \in heard'
                   /\ player.item \in Item
  BY <1>1 DEF Protocol, Sounding, Nothing, Requested, Clear, Identified, AtProcess, ItemThere, NoStream,
              TypeOK, HandlerTypeOK, ProcessTypeOK, PlayerRecord, Stream
<1>4. 0 \notin Item
  BY DEF Item
<1>5. CASE Sounding'
  BY <1>1, <1>2, <1>3, <1>4, <1>5 DEF Items!Sounds
<1>6. CASE ~Sounding'
  BY <1>1, <1>2, <1>6 DEF Items!Sounds
<1> QED BY <1>5, <1>6

(***************************************************************************)
(* A player with its process implements PlayedItems: the items are taken   *)
(* in the order they were asked for, one at a time, nothing but the        *)
(* present one sounds, and none is over before it was heard or asked to    *)
(* stop.  PlayedItems promises nothing after the step that ends the calm,  *)
(* and nothing else is assumed.                                            *)
(***************************************************************************)
THEOREM PlayerImplementsItems == Spec => ImplementsItems
<1>1. Init => Items!Init
  BY DEF Init, HandlerInit, ProcessInit, Items!Init, Sounding, NoStream, Calm, Unhurried
<1>2. /\ TypeOK /\ PlayerInv /\ ProtocolInv /\ [Next]_playbackVars
      /\ TypeOK' /\ ProtocolInv'
      => [Items!Next]_(Items!vars)
  <2> SUFFICES ASSUME TypeOK, PlayerInv, ProtocolInv, [Next]_playbackVars, TypeOK', ProtocolInv'
               PROVE  [Items!Next]_(Items!vars)
    OBVIOUS
  <2>1. CASE ~Calm'
    <3>1. Calm' = FALSE
      BY <2>1 DEF Calm, Unhurried
    <3> QED BY <3>1 DEF Items!Next
  <2>2. CASE Calm'
    <3>1. Calm /\ ~player'.hasty /\ ~player'.stale /\ broken' = {} /\ Protocol /\ Protocol'
      BY <2>2, CalmWas DEF ProtocolInv
    <3>2. Items!Turns \/ Items!Sounds => Items!Next
      <4>1. Calm' = TRUE
        BY <2>2 DEF Calm, Unhurried
      <4> QED BY <3>1, <4>1 DEF Items!Next
    <3>3. CASE UNCHANGED playbackVars
      BY <3>3 DEF Items!vars, playbackVars, handlerVars, processVars, Sounding, Calm, Unhurried
    <3>4. CASE /\ Directive \/ (\E f \in Focus : FocusTo(f)) \/ StopPlaying \/ DelayedPlay \/ GetContext
               /\ UNCHANGED processVars
      <4>1. PICK p \in PlayerRecord : Becomes(p) /\ Tidy(p, directives') /\ Goes(player, p)
        BY <3>1, <3>4, CallbacksTidy
      <4>2. player.state \in Activity /\ [player EXCEPT !.state = player.state] = player
        BY <3>1, PlayerTidy
      <4>3. Goes([player EXCEPT !.state = player.state], p)
        BY <4>1, <4>2
      <4>4. directives' \in {directives, directives + 1}
        BY <3>4 DEF Directive, FocusTo, StopPlaying, DelayedPlay, GetContext
      <4>5. Items!Turns
        BY <3>4, <4>1, <4>2, <4>3, <4>4, CallbackTurns
      <4> QED BY <3>2, <4>5
    <3>5. CASE Delivery
      <4>1. PICK k \in 1..Len(reports) : Deliver(k)
        BY <3>5 DEF Delivery
      <4>2. /\ UNCHANGED processVars /\ directives' = directives
            /\ Hear(reports[k], k # 1) /\ reports[k] \in Report
        BY <4>1 DEF Deliver, Hear, TypeOK
      <4>3. CASE reports[k] = "source"
        <5>1. Becomes(KnowSource(Hearer(k)))
          BY <4>2, <4>3 DEF Hear, Hearer
        <5> QED BY <3>1, <3>2, <4>2, <4>3, <5>1, SourceTurns
      <4>4. CASE reports[k] \in {"offset", "play", "pause"}
        <5>1. PICK p \in PlayerRecord, a \in Activity :
                Becomes(p) /\ Tidy(p, directives') /\ Goes([player EXCEPT !.state = a], p)
          BY <3>1, <4>1, <4>4, MinorTidy
        <5>2. directives' \in {directives, directives + 1}
          BY <4>2
        <5>3. Items!Turns
          BY <4>2, <5>1, <5>2, CallbackTurns
        <5> QED BY <3>2, <5>3
      <4>5. CASE reports[k] \in Ending
        <5>1. PICK p \in PlayerRecord, a \in {"STOPPED", "FINISHED"} :
                Becomes(p) /\ Tidy(p, directives') /\ Goes([Drop(Hearer(k)) EXCEPT !.state = a], p)
          BY <3>1, <4>1, <4>5, EndTidy
        <5>2. a \in Activity /\ player.playing = "known"
          BY <3>1, <4>1, <4>5, EndTidy DEF Activity
        <5>3. Items!Turns
          BY <3>1, <4>2, <4>5, <5>1, <5>2, EndTurns
        <5> QED BY <3>2, <5>3
      <4>6. reports[k] # "error"
        BY <3>1 DEF Protocol, ErrorFree, Has
      <4> QED BY <4>2, <4>3, <4>4, <4>5, <4>6 DEF Report, Ending
    <3>6. CASE Process
      <4>1. Items!Sounds
        BY <3>1, <3>6, ProcessSounds
      <4> QED BY <3>2, <4>1
    <3> QED BY <3>3, <3>4, <3>5, <3>6 DEF Next, Application
  <2> QED BY <2>1, <2>2
<1> QED BY <1>1, <1>2, InvHolds, ProtocolHolds, PTL DEF Spec, ImplementsItems, Items!Spec
===============================================================================
