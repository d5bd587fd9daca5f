--------------------------- MODULE PlaybackProofs ---------------------------
(***************************************************************************)
(* Proofs about Playback, for any number of items and commands, every kind *)
(* of player, hasty applications, streams that fail, reports in any order: *)
(* the types, and what a player of the application keeps true whatever the *)
(* mediaplayer process reports.                                            *)
(***************************************************************************)
EXTENDS Playback, SequenceTheorems, TLAPS

\* What the EVSMediaPlayer plays is an item that was taken, and the player is active.
Good(p) ==
  /\ p \in PlayerRecord
  /\ p.playing # "null" => p.item \in Item /\ Active(p)

\* The channel is used; a player that does not pause in the background uses it at once.
Busy(p) == p.focus # "NONE" => Active(p) \/ (~VolDown(p) /\ p.wait # <<>>)

\* Without the channel nothing waits to be played on, and a delayed play has not been stopped.
Listed(p) ==
  /\ p.focus = "NONE" /\ p.playAfterStop => p.wait = <<>>
  /\ p.delayed => p.kind = "content" /\ p.playAfterStop

\* What has been asked for and not cancelled has the channel, and nobody has stopped it.
Claimed(p) ==
  /\ p.playing = "asked" /\ ~p.cancel => p.focus # "NONE"
  /\ p.kind = "content" /\ p.playing = "asked" /\ ~p.playAfterStop => p.cancel

\* A low volume in the foreground has its reason.
Loud(p) ==
  /\ ~VolDown(p) => p.loud
  /\ p.alive /\ p.focus = "FOREGROUND" /\ ~p.loud => p.delayed \/ p.item \in p.cut

Fit(p) == Good(p) /\ Busy(p) /\ Listed(p) /\ Claimed(p) /\ Loud(p)

-------------------------------------------------------------------------------
(***************************************************************************)
(* The pieces of the callbacks.                                            *)
(***************************************************************************)
\* What q and p have in common when q has more commands, more marks, or a cancelled item.
Alike(p, q) ==
  /\ q.kind = p.kind
  /\ q.focus = p.focus
  /\ q.state = p.state
  /\ q.wait = p.wait
  /\ q.item = p.item
  /\ q.playing = p.playing
  /\ q.playAfterStop = p.playAfterStop
  /\ q.delayed = p.delayed
  /\ q.loud = p.loud
  /\ q.alive = p.alive
  /\ p.cancel => q.cancel
  /\ p.cut \subseteq q.cut

\* Commands and marks disturb nothing.
LEMMA AlikeGood ==
  ASSUME NEW p, NEW q \in PlayerRecord, Alike(p, q)
  PROVE  (Good(p) => Good(q)) /\ (Fit(p) => Fit(q))
BY DEF Alike, Good, Fit, Busy, Listed, Claimed, Loud, Active, VolDown

\* Two changes of this sort are one.
LEMMA AlikeTransitive ==
  ASSUME NEW p, NEW q, NEW r, Alike(p, q), Alike(q, r)
  PROVE  Alike(p, r)
BY DEF Alike

\* A command is added to what a callback sends.
LEMMA SendKeeps ==
  ASSUME NEW p \in PlayerRecord, NEW c \in Command
  PROVE  Send(p, c) \in PlayerRecord /\ Alike(p, Send(p, c))
<1>1. p.out \in Seq(Command)
  BY DEF PlayerRecord
<1>2. Append(p.out, c) \in Seq(Command)
  BY <1>1, AppendProperties
<1>3. Send(p, c) = [p EXCEPT !.out = Append(p.out, c)]
  BY DEF Send
<1> HIDE DEF Command
<1>4. Send(p, c) \in PlayerRecord
  BY <1>2, <1>3 DEF PlayerRecord
<1>5. Alike(p, Send(p, c))
  BY <1>3 DEF PlayerRecord, Alike
<1> QED BY <1>4, <1>5

\* _playControl sends at most one control command.
LEMMA PlayControlKeeps ==
  ASSUME NEW p \in PlayerRecord, NEW c \in {"PLAY", "STOP", "PAUSE", "RESUME", "OFFSET"}
  PROVE  PlayControl(p, c) \in PlayerRecord /\ Alike(p, PlayControl(p, c))
<1>1. Control(c) \in Command
  BY DEF Control, Command
<1>2. Alike(p, p)
  BY DEF Alike
<1> QED BY <1>1, <1>2, SendKeeps DEF PlayControl

\* stop() leaves the player as it is, but for an item that has no source id.
LEMMA PlayerStopKeeps ==
  ASSUME NEW p, Good(p)
  PROVE  /\ Good(PlayerStop(p)) /\ Alike(p, PlayerStop(p))
         /\ p.playing = "asked" => PlayerStop(p).cancel
<1>1. p \in PlayerRecord
  BY DEF Good
<1>2. CASE p.playing = "asked"
  <2>1. PlayerStop(p) = [p EXCEPT !.cancel = TRUE]
    BY <1>2 DEF PlayerStop
  <2>2. PlayerStop(p) \in PlayerRecord /\ Alike(p, PlayerStop(p)) /\ PlayerStop(p).cancel
    BY <1>1, <2>1 DEF PlayerRecord, Alike
  <2> QED BY <2>2, AlikeGood
<1>3. CASE p.playing # "asked"
  <2>1. PlayerStop(p) = PlayControl(p, "STOP")
    BY <1>3 DEF PlayerStop
  <2> QED BY <1>1, <1>3, <2>1, PlayControlKeeps, AlikeGood
<1> QED BY <1>2, <1>3

\* What plays is marked as an item somebody asked to stop.
LEMMA CutKeeps ==
  ASSUME NEW p, Good(p)
  PROVE  /\ Good(Cut(p)) /\ Alike(p, Cut(p))
         /\ p.playing # "null" => p.item \in Cut(p).cut
<1>1. p \in PlayerRecord
  BY DEF Good
<1>2. CASE p.playing = "null"
  BY <1>2 DEF Cut, Alike
<1>3. CASE p.playing # "null"
  <2> DEFINE early == p.hasty \/ p.playing = "asked"
             q == [p EXCEPT !.cut = p.cut \cup {p.item}, !.hasty = early]
  <2>0. early \in BOOLEAN
    BY <1>1 DEF PlayerRecord
  <2>1. Cut(p) = q
    BY <1>3 DEF Cut
  <2> HIDE DEF early
  <2>2. q \in PlayerRecord /\ Alike(p, q) /\ p.item \in q.cut
    BY <1>1, <1>3, <2>0 DEF PlayerRecord, Good, Alike
  <2> HIDE DEF q
  <2> QED BY <2>1, <2>2, AlikeGood
<1> QED BY <1>2, <1>3

\* stop() of something marked.
LEMMA StopCutKeeps ==
  ASSUME NEW p, Good(p)
  PROVE  /\ Good(PlayerStop(Cut(p))) /\ Alike(p, PlayerStop(Cut(p)))
         /\ p.playing = "asked" => PlayerStop(Cut(p)).cancel
<1>1. Good(Cut(p)) /\ Alike(p, Cut(p))
  BY CutKeeps
<1>2. /\ Good(PlayerStop(Cut(p))) /\ Alike(Cut(p), PlayerStop(Cut(p)))
      /\ Cut(p).playing = "asked" => PlayerStop(Cut(p)).cancel
  BY <1>1, PlayerStopKeeps
<1>3. Cut(p).playing = p.playing
  BY <1>1 DEF Alike
<1> QED BY <1>1, <1>2, <1>3, AlikeTransitive

\* What _playNext leaves alone when it starts an item.
Started(p, q) ==
  /\ Good(q) /\ Active(q) /\ q.playing = "asked"
  /\ q.kind = p.kind
  /\ q.focus = p.focus
  /\ q.playAfterStop = p.playAfterStop
  /\ q.delayed = p.delayed
  /\ q.loud = (p.loud \/ p.focus = "FOREGROUND")

\* With something to wait for and nothing playing, _playNext starts it.
LEMMA PlayNextStarts ==
  ASSUME NEW p, Good(p), p.playing = "null"
  PROVE  /\ p.wait # <<>> => Started(p, PlayNext(p))
         /\ p.wait = <<>> => PlayNext(p) = p
<1>1. CASE p.wait = <<>>
  BY <1>1 DEF PlayNext
<1>2. CASE p.wait # <<>>
  <2> DEFINE q == [p EXCEPT !.item = Head(p.wait), !.wait = Tail(p.wait), !.loud = p.loud \/ p.focus = "FOREGROUND"]
             r == [q EXCEPT !.playing = "asked", !.cancel = FALSE, !.state = "PLAYING"]
  <2>1. p \in PlayerRecord /\ p.wait \in Seq(Item)
    BY DEF Good, PlayerRecord
  <2>2. Head(p.wait) \in Item /\ Tail(p.wait) \in Seq(Item)
    BY <1>2, <2>1, HeadTailProperties
  <2>3. /\ q \in PlayerRecord /\ q.playing = "null" /\ q.item \in Item
        /\ q.kind = p.kind /\ q.focus = p.focus /\ q.playAfterStop = p.playAfterStop
        /\ q.delayed = p.delayed /\ q.loud = (p.loud \/ p.focus = "FOREGROUND")
    BY <2>1, <2>2 DEF PlayerRecord
  <2> HIDE DEF q
  <2>4. /\ r \in PlayerRecord /\ r.item \in Item /\ r.item = q.item /\ r.state = "PLAYING" /\ r.playing = "asked"
        /\ r.kind = q.kind /\ r.focus = q.focus /\ r.playAfterStop = q.playAfterStop
        /\ r.delayed = q.delayed /\ r.loud = q.loud
    BY <2>3 DEF PlayerRecord, Activity
  <2> HIDE DEF r
  <2>5. SetSource(r.item) \in Command
    BY <2>4 DEF SetSource, Command
  <2>6. Send(r, SetSource(r.item)) \in PlayerRecord /\ Alike(r, Send(r, SetSource(r.item)))
    BY <2>4, <2>5, SendKeeps
  <2>7. PlayNext(p) = PlayItem(q)
    BY <1>2 DEF PlayNext, q
  <2>8. PlayItem(q) = Send(r, SetSource(r.item))
    BY <2>3, <2>4 DEF PlayItem, r
  <2>9. Started(p, PlayNext(p))
    BY <2>3, <2>4, <2>6, <2>7, <2>8 DEF Alike, Active, Good, Started
  <2> QED BY <1>2, <2>9
<1> QED BY <1>1, <1>2

\* A player that is told of a focus, before it acts on it.
Ready(p) ==
  /\ Good(p)
  /\ p.focus # "NONE"
  /\ Active(p) \/ p.wait # <<>>
  /\ p.delayed => p.kind = "content" /\ p.playAfterStop
  /\ p.kind = "content" => p.playAfterStop
  /\ ~VolDown(p) => p.loud

\* In the foreground it plays, loud.
LEMMA PlayForegroundFit ==
  ASSUME NEW p, Ready(p)
  PROVE  Fit(PlayForeground(p))
<1> DEFINE full == [p EXCEPT !.loud = TRUE]
<1>1. /\ Ready(full) /\ full.loud /\ full.focus = p.focus
      /\ (VolDown(full) <=> VolDown(p)) /\ (Active(full) <=> Active(p))
  BY DEF Ready, Good, PlayerRecord, Active, VolDown
<1> HIDE DEF full
<1>2. CASE ~VolDown(p) /\ p.state = "PAUSED"
  <2>1. PlayForeground(p) = PlayControl(p, "RESUME")
    BY <1>2 DEF PlayForeground, PlayerResume, Active
  <2>2. Fit(p)
    BY <1>2 DEF Ready, Fit, Busy, Listed, Claimed, Loud, Active, VolDown
  <2> QED BY <2>1, <2>2, PlayControlKeeps, AlikeGood DEF Fit, Good
<1>3. CASE ~Active(p)
  <2>1. PlayForeground(p) = PlayNext(full)
    BY <1>3 DEF PlayForeground, Active, full
  <2>2. full.playing = "null" /\ full.wait # <<>>
    BY <1>1, <1>3 DEF Ready, Good, PlayerRecord
  <2>3. Started(full, PlayNext(full))
    BY <1>1, <2>2, PlayNextStarts DEF Ready
  <2>4. Fit(PlayNext(full))
    BY <1>1, <2>3 DEF Started, Ready, Fit, Busy, Listed, Claimed, Loud, VolDown
  <2> QED BY <2>1, <2>4
<1>4. CASE Active(p) /\ ~(~VolDown(p) /\ p.state = "PAUSED")
  <2>1. PlayForeground(p) = full
    BY <1>4 DEF PlayForeground, full
  <2> QED BY <1>1, <1>4, <2>1 DEF Ready, Fit, Busy, Listed, Claimed, Loud, VolDown
<1> QED BY <1>2, <1>3, <1>4

\* In the background it pauses, or plays low.
LEMMA PlayBackgroundFit ==
  ASSUME NEW p, Ready(p), p.focus = "BACKGROUND"
  PROVE  Fit(PlayBackground(p))
<1> DEFINE low == [p EXCEPT !.loud = FALSE]
<1>1. VolDown(p) => /\ Ready(low) /\ low.focus = p.focus
                    /\ VolDown(low) /\ (Active(low) <=> Active(p))
  BY DEF Ready, Good, PlayerRecord, Active, VolDown
<1> HIDE DEF low
<1>2. CASE ~VolDown(p)
  <2>1. Fit(p)
    BY <1>2 DEF Ready, Fit, Busy, Listed, Claimed, Loud, VolDown
  <2>2. Fit(PlayControl(p, "PAUSE"))
    BY <2>1, PlayControlKeeps, AlikeGood DEF Fit, Good
  <2>3. PlayBackground(p) = PlayerPause(p)
    BY <1>2 DEF PlayBackground
  <2> QED BY <2>1, <2>2, <2>3 DEF PlayerPause
<1>3. CASE VolDown(p) /\ ~Active(p)
  <2>1. PlayBackground(p) = PlayNext(low)
    BY <1>3 DEF PlayBackground, low
  <2>2. low.playing = "null" /\ low.wait # <<>>
    BY <1>1, <1>3 DEF Ready, Good, PlayerRecord
  <2>3. Started(low, PlayNext(low))
    BY <1>1, <1>3, <2>2, PlayNextStarts DEF Ready
  <2>4. Fit(PlayNext(low))
    BY <1>1, <1>3, <2>3 DEF Started, Ready, Fit, Busy, Listed, Claimed, Loud, VolDown
  <2> QED BY <2>1, <2>4
<1>4. CASE VolDown(p) /\ Active(p)
  <2>1. PlayBackground(p) = low
    BY <1>4 DEF PlayBackground, low
  <2> QED BY <1>1, <1>4, <2>1 DEF Ready, Fit, Busy, Listed, Claimed, Loud, VolDown
<1> QED BY <1>2, <1>3, <1>4

\* Losing the channel, the player stops and waits for nothing.
LEMMA LoseFocusFit ==
  ASSUME NEW p, Good(p), ~VolDown(p) => p.loud, p.delayed => p.kind = "content" /\ p.playAfterStop,
         p.kind = "content" => p.playAfterStop
  PROVE  Fit(LoseFocus(p))
<1> DEFINE q == [p EXCEPT !.focus = "NONE", !.wait = <<>>]
<1>a. p \in PlayerRecord /\ <<>> \in Seq(Item)
  BY EmptySeq DEF Good
<1>b. q \in PlayerRecord
  BY <1>a DEF PlayerRecord, Focus
<1>c. /\ q.focus = "NONE" /\ q.wait = <<>> /\ q.kind = p.kind /\ q.state = p.state /\ q.playing = p.playing
      /\ q.item = p.item /\ q.delayed = p.delayed /\ q.playAfterStop = p.playAfterStop /\ q.loud = p.loud
  BY <1>a DEF PlayerRecord
<1> HIDE DEF q
<1>1. Good(q)
  BY <1>b, <1>c DEF Good, Active
<1>2. LoseFocus(p) = PlayerStop(Cut(q))
  BY DEF LoseFocus, q
<1>3. /\ Good(PlayerStop(Cut(q))) /\ Alike(q, PlayerStop(Cut(q)))
      /\ q.playing = "asked" => PlayerStop(Cut(q)).cancel
  BY <1>1, StopCutKeeps
<1> QED BY <1>c, <1>2, <1>3 DEF Fit, Busy, Listed, Claimed, Loud, Alike, VolDown

\* A player before it is told of another focus.
Told(p, f, byAip) ==
  /\ Good(p)
  /\ f # p.focus
  /\ f # "NONE" => Active(p) \/ (p.wait # <<>> /\ (p.kind = "content" => ~byAip))
  /\ p.delayed => p.kind = "content" /\ p.playAfterStop
  /\ ~VolDown(p) => p.loud
  /\ p.kind = "content" /\ p.playing = "asked" /\ ~p.playAfterStop => p.cancel

\* Whatever focus it gets, the player has something to do with it.
LEMMA FocusFit ==
  ASSUME NEW p, NEW f \in Focus, NEW byAip \in BOOLEAN, Told(p, f, byAip)
  PROVE  Fit(OnFocusState(p, f, byAip))
<1> DEFINE q == [p EXCEPT !.focus = f]
           r == [q EXCEPT !.delayed = FALSE]
<1>1. /\ Good(q) /\ q.focus = f /\ (Active(q) <=> Active(p)) /\ (VolDown(q) <=> VolDown(p))
      /\ q.wait = p.wait /\ q.kind = p.kind /\ q.playAfterStop = p.playAfterStop
      /\ q.delayed = p.delayed /\ q.loud = p.loud
  BY DEF Told, Good, PlayerRecord, Active, VolDown
<1>2. /\ Good(r) /\ r.focus = f /\ (Active(r) <=> Active(p)) /\ (VolDown(r) <=> VolDown(p))
      /\ r.wait = p.wait /\ r.kind = p.kind /\ r.playAfterStop = p.playAfterStop
      /\ ~r.delayed /\ r.loud = p.loud
  BY <1>1 DEF Good, PlayerRecord, Active, VolDown
<1>3. CASE p.kind # "content"
  <2>0. OnFocusState(p, f, byAip) = OnHandlerFocus(p, f)
    BY <1>3 DEF OnFocusState, Told
  <2>1. CASE f = "NONE"
    BY <1>3, <2>0, <2>1, LoseFocusFit DEF OnHandlerFocus, Told
  <2>2. CASE f # "NONE"
    <3>1. Ready(q)
      BY <1>1, <1>3, <2>2 DEF Ready, Told
    <3> HIDE DEF q
    <3>2. Fit(PlayForeground(q)) /\ (f = "BACKGROUND" => Fit(PlayBackground(q)))
      BY <1>1, <3>1, PlayForegroundFit, PlayBackgroundFit
    <3> QED BY <2>0, <2>2, <3>2 DEF OnHandlerFocus, Focus, q
  <2> QED BY <2>1, <2>2
<1>4. CASE p.kind = "content"
  <2>0. OnFocusState(p, f, byAip) = OnContentFocus(p, f, byAip)
    BY <1>4 DEF OnFocusState, Told
  <2>1. CASE ~p.playAfterStop
    <3> DEFINE s == [q EXCEPT !.focus = "NONE"]
    <3>1. OnContentFocus(p, f, byAip) = s
      BY <2>1 DEF OnContentFocus
    <3>2. /\ s \in PlayerRecord /\ s.focus = "NONE" /\ s.state = p.state /\ s.playing = p.playing /\ s.item = p.item
          /\ s.kind = p.kind /\ s.playAfterStop = p.playAfterStop /\ s.delayed = p.delayed /\ s.cancel = p.cancel
      BY <1>1 DEF Told, Good, PlayerRecord, Focus
    <3> HIDE DEF s
    <3>3. Fit(s)
      BY <1>4, <2>1, <3>2 DEF Told, Good, Fit, Busy, Listed, Claimed, Loud, Active, VolDown
    <3> QED BY <2>0, <3>1, <3>3
  <2>2. CASE p.playAfterStop /\ f = "NONE"
    <3>1. OnContentFocus(p, f, byAip) = LoseFocus(p)
      BY <2>2 DEF OnContentFocus
    <3> QED BY <1>4, <2>0, <2>2, <3>1, LoseFocusFit DEF Told
  <2>3. CASE p.playAfterStop /\ f = "FOREGROUND" /\ byAip
    <3> DEFINE t == [q EXCEPT !.delayed = TRUE]
    <3>1. OnContentFocus(p, f, byAip) = t
      BY <2>3 DEF OnContentFocus
    <3>2. /\ Good(t) /\ t.focus = f /\ (Active(t) <=> Active(p)) /\ VolDown(t) /\ t.delayed
          /\ t.kind = p.kind /\ t.playAfterStop = p.playAfterStop
      BY <1>1, <1>4 DEF Good, PlayerRecord, Active, VolDown
    <3> HIDE DEF t
    <3>3. Fit(t)
      BY <1>4, <2>3, <3>2 DEF Told, Fit, Busy, Listed, Claimed, Loud
    <3> QED BY <2>0, <3>1, <3>3
  <2>4. CASE p.playAfterStop /\ f # "NONE" /\ ~(f = "FOREGROUND" /\ byAip)
    <3>1. Ready(r)
      BY <1>2, <2>4, <1>4 DEF Ready, Told
    <3>2. OnContentFocus(p, f, byAip) = IF f = "FOREGROUND" THEN PlayForeground(r) ELSE PlayBackground(r)
      BY <2>4 DEF OnContentFocus, Focus
    <3> HIDE DEF q, r
    <3>3. Fit(PlayForeground(r)) /\ (f = "BACKGROUND" => Fit(PlayBackground(r)))
      BY <1>2, <3>1, PlayForegroundFit, PlayBackgroundFit
    <3> QED BY <2>0, <2>4, <3>2, <3>3 DEF Focus
  <2> HIDE DEF q, r
  <2> QED BY <2>1, <2>2, <2>3, <2>4 DEF Focus
<1> HIDE DEF q, r
<1> QED BY <1>3, <1>4

\* A player that has nothing to play any more, and may have something waiting.
Idle(p) ==
  /\ Good(p) /\ p.playing = "null"
  /\ Listed(p)
  /\ ~VolDown(p) => p.loud

\* An item that ended is followed by the next, or by the channel's release.
LEMMA EndedFit ==
  ASSUME NEW p, Idle(p)
  PROVE  Fit(Ended(p))
<1>1. CASE (~p.playAfterStop \/ p.wait = <<>>) /\ p.focus = "NONE"
  <2>1. Ended(p) = p
    BY <1>1 DEF Ended, ReleaseChannel, OnFocusState
  <2> QED BY <1>1, <2>1 DEF Idle, Fit, Busy, Claimed, Loud
<1>2. CASE (~p.playAfterStop \/ p.wait = <<>>) /\ p.focus # "NONE"
  <2>1. Ended(p) = OnFocusState(p, "NONE", FALSE)
    BY <1>2 DEF Ended, ReleaseChannel
  <2>2. Told(p, "NONE", FALSE)
    BY <1>2 DEF Told, Idle, Listed
  <2> QED BY <2>1, <2>2, FocusFit DEF Focus
<1>3. CASE ~(~p.playAfterStop \/ p.wait = <<>>)
  <2>1. Ended(p) = PlayNext(p) /\ p.wait # <<>> /\ p.playAfterStop
    BY <1>3 DEF Ended
  <2>2. Started(p, PlayNext(p)) /\ p.focus # "NONE"
    BY <2>1, PlayNextStarts DEF Idle, Listed
  <2> QED BY <2>1, <2>2 DEF Started, Idle, Fit, Busy, Listed, Claimed, Loud, VolDown
<1> QED BY <1>1, <1>2, <1>3

\* A change of activity, with what follows from it in the same callback.
LEMMA ChangeFit ==
  ASSUME NEW p, Fit(p),
         NEW a \in {"PLAYING", "PAUSED", "STOPPED", "FINISHED"},
         a \in {"STOPPED", "FINISHED"} => p.playing = "null"
  PROVE  Fit(ChangeActivity(p, a))
<1> DEFINE q == [p EXCEPT !.state = a]
<1>0. /\ q \in PlayerRecord /\ q.state = a /\ q.kind = p.kind /\ q.focus = p.focus /\ q.wait = p.wait
      /\ q.item = p.item /\ q.playing = p.playing /\ q.cancel = p.cancel /\ q.cut = p.cut /\ q.alive = p.alive
      /\ q.playAfterStop = p.playAfterStop /\ q.delayed = p.delayed /\ q.loud = p.loud
  BY DEF Fit, Good, PlayerRecord, Activity
<1>1. CASE a = p.state
  BY <1>1 DEF ChangeActivity
<1>2. CASE a # p.state /\ a \in {"STOPPED", "FINISHED"}
  <2>1. ChangeActivity(p, a) = Ended(q)
    BY <1>2 DEF ChangeActivity
  <2> HIDE DEF q
  <2>2. Idle(q)
    BY <1>0, <1>2 DEF Idle, Fit, Good, Listed, Loud, VolDown
  <2> QED BY <2>1, <2>2, EndedFit
<1>3. CASE a # p.state /\ a \in {"PLAYING", "PAUSED"}
  <2>1. ChangeActivity(p, a) = q
    BY <1>3 DEF ChangeActivity
  <2> HIDE DEF q
  <2>2. Fit(q)
    BY <1>0, <1>3 DEF Fit, Good, Busy, Listed, Claimed, Loud, Active, VolDown
  <2> QED BY <2>1, <2>2
<1> QED BY <1>1, <1>2, <1>3

\* playing = null
LEMMA DropFit ==
  ASSUME NEW p, Fit(p)
  PROVE  Fit(Drop(p)) /\ Drop(p).playing = "null"
<1> DEFINE past == IF p.playing = "null" THEN p.over ELSE p.over \cup {p.item}
           early == p.hasty \/ (p.playing = "asked" /\ ~p.cancel)
           q == [p EXCEPT !.playing = "null", !.cancel = FALSE, !.hasty = early, !.over = past]
<1>1. past \subseteq Item /\ early \in BOOLEAN
  BY DEF Fit, Good, PlayerRecord
<1>2. Drop(p) = q
  BY DEF Drop
<1> HIDE DEF past, early
<1>3. /\ q \in PlayerRecord /\ q.state = p.state /\ q.kind = p.kind /\ q.focus = p.focus /\ q.wait = p.wait
      /\ q.item = p.item /\ q.playing = "null" /\ q.cut = p.cut /\ q.alive = p.alive
      /\ q.playAfterStop = p.playAfterStop /\ q.delayed = p.delayed /\ q.loud = p.loud
  BY <1>1 DEF Fit, Good, PlayerRecord
<1> HIDE DEF q
<1> QED BY <1>2, <1>3 DEF Fit, Good, Busy, Listed, Claimed, Loud, Active, VolDown

\* A thrown exception changes nothing else.
LEMMA ThrowKeeps ==
  ASSUME NEW p, Good(p)
  PROVE  Good(Throw(p)) /\ (Fit(p) => Fit(Throw(p)))
<1> DEFINE q == [p EXCEPT !.alive = FALSE]
<1>1. Throw(p) = q
  BY DEF Throw
<1>2. /\ q \in PlayerRecord /\ q.state = p.state /\ q.kind = p.kind /\ q.focus = p.focus /\ q.wait = p.wait
      /\ q.item = p.item /\ q.playing = p.playing /\ q.cancel = p.cancel /\ ~q.alive
      /\ q.playAfterStop = p.playAfterStop /\ q.delayed = p.delayed /\ q.loud = p.loud
  BY DEF Good, PlayerRecord
<1> HIDE DEF q
<1> QED BY <1>1, <1>2 DEF Fit, Good, Busy, Listed, Claimed, Loud, Active, VolDown

\* The item that plays has its source id.
LEMMA KnowSourceFit ==
  ASSUME NEW p, Fit(p)
  PROVE  Fit(KnowSource(p))
<1>0. Good(p) /\ p \in PlayerRecord /\ {Control("STOP"), Control("PLAY")} \subseteq Command
  BY DEF Fit, Good, Control, Command
<1>1. CASE p.playing = "null"
  BY <1>0, <1>1, ThrowKeeps DEF KnowSource
<1>2. CASE p.playing # "null" /\ p.cancel
  <2> DEFINE q == Send(p, Control("STOP"))
  <2>1. Fit(q)
    BY <1>0, SendKeeps, AlikeGood
  <2>2. KnowSource(p) = ChangeActivity(Drop(q), "STOPPED")
    BY <1>2 DEF KnowSource
  <2> HIDE DEF q
  <2>3. Fit(Drop(q)) /\ Drop(q).playing = "null"
    BY <2>1, DropFit
  <2> QED BY <2>2, <2>3, ChangeFit
<1>3. CASE p.playing # "null" /\ ~p.cancel
  <2> DEFINE q == [p EXCEPT !.playing = "known"]
  <2>1. KnowSource(p) = Send(q, Control("PLAY"))
    BY <1>3 DEF KnowSource
  <2>2. /\ q \in PlayerRecord /\ q.state = p.state /\ q.kind = p.kind /\ q.focus = p.focus /\ q.wait = p.wait
        /\ q.item = p.item /\ q.playing = "known" /\ q.cut = p.cut /\ q.alive = p.alive
        /\ q.playAfterStop = p.playAfterStop /\ q.delayed = p.delayed /\ q.loud = p.loud
    BY <1>0 DEF PlayerRecord
  <2> HIDE DEF q
  <2>3. Fit(q)
    BY <1>3, <2>2 DEF Fit, Good, Busy, Listed, Claimed, Loud, Active, VolDown
  <2>4. Send(q, Control("PLAY")) \in PlayerRecord /\ Alike(q, Send(q, Control("PLAY")))
    BY <1>0, <2>2, SendKeeps
  <2> QED BY <2>1, <2>3, <2>4, AlikeGood
<1> QED BY <1>1, <1>2, <1>3

\* An offset is taken for the answer to a stop.
LEMMA AnswerOffsetFit ==
  ASSUME NEW p, Fit(p)
  PROVE  Fit(AnswerOffset(p))
<1>1. CASE p.stops = {}
  BY <1>1 DEF AnswerOffset
<1>2. CASE p.stops # {}
  <2> DEFINE late == p.stale \/ (p.playing # "null" /\ p.stops \ {p.item} # {})
             q == [p EXCEPT !.stops = {}, !.stale = late]
  <2>1. AnswerOffset(p) = PlayerStop(q)
    BY <1>2 DEF AnswerOffset
  <2>2. late \in BOOLEAN
    BY DEF Fit, Good, PlayerRecord
  <2> HIDE DEF late
  <2>3. q \in PlayerRecord /\ Alike(p, q)
    BY <2>2 DEF Fit, Good, PlayerRecord, Alike
  <2> HIDE DEF q
  <2>4. Fit(q)
    BY <2>3, AlikeGood
  <2> QED BY <2>1, <2>4, PlayerStopKeeps, AlikeGood DEF Fit, Good
<1> QED BY <1>1, <1>2

\* A play status, of whatever source and at whatever time.
LEMMA HearStatusFit ==
  ASSUME NEW p, Fit(p), NEW r \in Report \ {"source", "offset"}
  PROVE  Fit(HearStatus(p, r))
<1>1. Fit(Drop(p)) /\ Drop(p).playing = "null"
  BY DropFit
<1>2. \A a \in {"PLAYING", "PAUSED"} : Fit(ChangeActivity(p, a))
  BY ChangeFit
<1>3. \A a \in {"STOPPED", "FINISHED"} : Fit(ChangeActivity(Drop(p), a))
  BY <1>1, ChangeFit
<1>4. CASE r = "play"
  BY <1>2, <1>4 DEF HearStatus
<1>5. CASE r = "pause"
  BY <1>2, <1>5 DEF HearStatus
<1>6. CASE r = "finish"
  BY <1>3, <1>6 DEF HearStatus
<1>7. CASE r = "stop"
  BY <1>3, <1>7 DEF HearStatus
<1>8. CASE r = "error"
  BY <1>3, <1>8 DEF HearStatus
<1> QED BY <1>4, <1>5, <1>6, <1>7, <1>8 DEF Report

\* A player that stop() is called on.
Stoppable(p) ==
  /\ Good(p) /\ Loud(p)
  /\ p.delayed => p.kind = "content"
  /\ p.kind = "content" /\ p.focus # "NONE" => Active(p)

\* What stop() makes of it.
Stopped(p, q, after) ==
  /\ Good(q) /\ Loud(q)
  /\ ~q.delayed
  /\ q.kind = p.kind
  /\ q.focus = p.focus
  /\ q.state = p.state
  /\ q.wait = p.wait
  /\ q.playing = "asked" => q.cancel
  /\ q.playAfterStop \in {p.playAfterStop, after}

\* stop() of the handler
LEMMA HandlerStopStops ==
  ASSUME NEW p, Stoppable(p), NEW after \in BOOLEAN, p.kind # "content"
  PROVE  Stopped(p, HandlerStop(p, after), after)
<1>1. CASE ~Active(p)
  BY <1>1 DEF HandlerStop, Stoppable, Stopped, Good, PlayerRecord
<1>2. CASE Active(p)
  <2> DEFINE q == [p EXCEPT !.playAfterStop = after]
             s == PlayerStop(Cut(q))
  <2>1. HandlerStop(p, after) = s
    BY <1>2 DEF HandlerStop
  <2>2. /\ q \in PlayerRecord /\ q.state = p.state /\ q.kind = p.kind /\ q.focus = p.focus /\ q.wait = p.wait
        /\ q.item = p.item /\ q.playing = p.playing /\ q.cut = p.cut /\ q.alive = p.alive
        /\ q.playAfterStop = after /\ q.delayed = p.delayed /\ q.loud = p.loud
    BY DEF Stoppable, Good, PlayerRecord
  <2> HIDE DEF q
  <2>3. Good(q)
    BY <2>2 DEF Stoppable, Good, Active
  <2>4. Good(s) /\ Alike(q, s) /\ (q.playing = "asked" => s.cancel)
    BY <2>3, StopCutKeeps
  <2> HIDE DEF s
  <2> QED BY <2>1, <2>2, <2>4 DEF Stoppable, Stopped, Alike, Loud, VolDown
<1> QED BY <1>1, <1>2

\* stop() of the content player, which has an item to stop, or throws.
LEMMA ContentStopStops ==
  ASSUME NEW p, Stoppable(p), NEW after \in BOOLEAN, p.kind = "content"
  PROVE  Stopped(p, ContentStop(p, after), after)
<1>1. CASE ~Active(p)
  <2> DEFINE q == [p EXCEPT !.delayed = FALSE]
  <2>1. ContentStop(p, after) = q
    BY <1>1 DEF ContentStop
  <2>2. /\ q \in PlayerRecord /\ q.state = p.state /\ q.kind = p.kind /\ q.focus = p.focus /\ q.wait = p.wait
        /\ q.item = p.item /\ q.playing = p.playing /\ q.cut = p.cut /\ q.alive = p.alive
        /\ q.playAfterStop = p.playAfterStop /\ ~q.delayed /\ q.loud = p.loud
    BY DEF Stoppable, Good, PlayerRecord
  <2> HIDE DEF q
  <2> QED BY <1>1, <2>1, <2>2 DEF Stoppable, Stopped, Good, Loud, Active, VolDown
<1>2. CASE Active(p)
  <2> DEFINE m == [p EXCEPT !.delayed = FALSE, !.playAfterStop = after]
             q == Cut(m)
             t == [q EXCEPT !.stops = q.stops \cup {q.item}]
             s == GetOffset(q, t, PlayerStop(q))
  <2>1. ContentStop(p, after) = s
    BY <1>2 DEF ContentStop
  <2>2. /\ m \in PlayerRecord /\ m.state = p.state /\ m.kind = p.kind /\ m.focus = p.focus /\ m.wait = p.wait
        /\ m.item = p.item /\ m.playing = p.playing
        /\ m.playAfterStop = after /\ ~m.delayed /\ m.loud = p.loud
    BY DEF Stoppable, Good, PlayerRecord
  <2> HIDE DEF m
  <2>3. Good(m)
    BY <2>2 DEF Stoppable, Good, Active
  <2>4. Good(q) /\ Alike(m, q) /\ (m.playing # "null" => m.item \in q.cut)
    BY <2>3, CutKeeps
  <2>5. Good(PlayerStop(q)) /\ Alike(q, PlayerStop(q)) /\ (q.playing = "asked" => PlayerStop(q).cancel)
    BY <2>4, PlayerStopKeeps
  <2> HIDE DEF q
  <2>6. q \in PlayerRecord /\ q.kind = "content" /\ q.playing = p.playing /\ q.item = p.item
    BY <2>2, <2>4 DEF Alike, Good
  <2>7. CASE p.playing = "null"
    <3>1. s = [q EXCEPT !.alive = FALSE] /\ s = Throw(q)
      BY <2>6, <2>7 DEF GetOffset, Throw
    <3>2. /\ Good(s) /\ s.state = q.state /\ s.kind = q.kind /\ s.focus = q.focus /\ s.wait = q.wait
          /\ s.playing = q.playing /\ ~s.alive
          /\ s.playAfterStop = q.playAfterStop /\ s.delayed = q.delayed
      BY <2>4, <2>6, <3>1, ThrowKeeps DEF PlayerRecord
    <3> HIDE DEF s
    <3> QED BY <2>1, <2>2, <2>4, <2>6, <2>7, <3>2 DEF Alike, Stopped, Loud, VolDown
  <2>8. CASE p.playing = "asked"
    <3>1. s = PlayerStop(q)
      BY <2>6, <2>8 DEF GetOffset
    <3> HIDE DEF s
    <3> QED BY <2>1, <2>2, <2>4, <2>5, <2>6, <2>8, <3>1 DEF Alike, Stopped, Loud, VolDown
  <2>9. CASE p.playing = "known"
    <3>1. s = Send(t, Control("OFFSET"))
      BY <2>6, <2>9 DEF GetOffset
    <3>2. q.item \in Item
      BY <2>4, <2>6, <2>9 DEF Good
    <3>3. t \in PlayerRecord /\ Alike(q, t)
      BY <2>6, <3>2 DEF PlayerRecord, Alike
    <3>4. Control("OFFSET") \in Command
      BY DEF Control, Command
    <3> HIDE DEF t
    <3>5. s \in PlayerRecord /\ Alike(t, s)
      BY <3>1, <3>3, <3>4, SendKeeps
    <3>6. Alike(q, s) /\ Good(s)
      BY <2>4, <3>3, <3>5, AlikeTransitive, AlikeGood
    <3> HIDE DEF s
    <3> QED BY <2>1, <2>2, <2>4, <2>6, <2>9, <3>6 DEF Alike, Stopped, Loud, VolDown
  <2>10. p.playing \in {"null", "asked", "known"}
    BY DEF Stoppable, Good, PlayerRecord
  <2> QED BY <2>7, <2>8, <2>9, <2>10
<1> QED BY <1>1, <1>2

\* stop(), of whichever player
LEMMA StopStops ==
  ASSUME NEW p, Stoppable(p), NEW after \in BOOLEAN
  PROVE  Stopped(p, Stop(p, after), after)
BY HandlerStopStops, ContentStopStops DEF Stop

-------------------------------------------------------------------------------
(***************************************************************************)
(* The steps.                                                              *)
(***************************************************************************)
PlayerInv == Fit(player)

\* A callback that ends in p puts p's commands into the socket.
LEMMA BecomesFit ==
  ASSUME TypeOK, NEW p, Fit(p), Becomes(p)
  PROVE  player' \in PlayerRecord /\ player'.out = <<>> /\ PlayerInv' /\ cmds' \in Seq(Command)
<1> DEFINE q == [p EXCEPT !.out = <<>>]
<1>1. p \in PlayerRecord /\ <<>> \in Seq(Command)
  BY EmptySeq DEF Fit, Good
<1>2. q \in PlayerRecord /\ q.out = <<>> /\ Alike(p, q)
  BY <1>1 DEF PlayerRecord, Alike
<1>3. player' = q
  BY DEF Becomes
<1> HIDE DEF q
<1>4. Fit(q)
  BY <1>2, AlikeGood
<1>5. PlayerInv'
  BY <1>3, <1>4 DEF PlayerInv, Fit, Good, Busy, Listed, Claimed, Loud, Active, VolDown
<1>6. p.out \in Seq(Command) /\ cmds \in Seq(Command)
  BY <1>1 DEF PlayerRecord, TypeOK
<1>7. cmds' \in Seq(Command)
  BY <1>6, ConcatProperties DEF Becomes
<1> QED BY <1>2, <1>3, <1>5, <1>7

\* What replaces the item that plays waits alone, and what plays has been stopped.
LEMMA ReplaceStops ==
  ASSUME PlayerInv, NEW i \in Item
  PROVE  \E q : /\ Stopped([player EXCEPT !.wait = <<>>], q, TRUE)
                /\ Replace(i) = [q EXCEPT !.wait = <<i>>]
<1> DEFINE c == [player EXCEPT !.wait = <<>>]
<1>1. /\ c \in PlayerRecord /\ c.state = player.state /\ c.kind = player.kind /\ c.focus = player.focus
      /\ c.item = player.item /\ c.playing = player.playing /\ c.cut = player.cut /\ c.alive = player.alive
      /\ c.delayed = player.delayed /\ c.loud = player.loud
  BY EmptySeq DEF PlayerInv, Fit, Good, PlayerRecord
<1>2. Replace(i) = [Stop(c, TRUE) EXCEPT !.wait = <<i>>]
  BY DEF Replace
<1> HIDE DEF c
<1>3. Stoppable(c)
  BY <1>1 DEF PlayerInv, Fit, Good, Busy, Listed, Loud, Stoppable, Active, VolDown
<1>4. Stopped(c, Stop(c, TRUE), TRUE)
  BY <1>3, StopStops
<1> QED BY <1>2, <1>4 DEF c

\* A player that something has been asked of: with the channel it fits, and without the
\* channel it can be told of one.
Asked(p) ==
  /\ p.focus = player.focus
  /\ p.focus # "NONE" => Fit(p)
  /\ p.focus = "NONE" => \A f \in Focus \ {"NONE"} : Told([p EXCEPT !.playAfterStop = TRUE], f, FALSE)

\* An item that replaces.
LEMMA ReplaceAsked ==
  ASSUME PlayerInv, NEW i \in Item
  PROVE  Asked(Replace(i))
<1>0. PICK q : Stopped([player EXCEPT !.wait = <<>>], q, TRUE) /\ Replace(i) = [q EXCEPT !.wait = <<i>>]
  BY ReplaceStops
<1>1. /\ Good(q) /\ Loud(q) /\ ~q.delayed /\ q.kind = player.kind /\ q.focus = player.focus
      /\ q.state = player.state /\ (q.playing = "asked" => q.cancel)
  BY <1>0 DEF Stopped, PlayerInv, Fit, Good, PlayerRecord
<1>2. <<i>> \in Seq(Item) /\ <<i>> # <<>>
  OBVIOUS
<1> DEFINE r == [q EXCEPT !.wait = <<i>>]
<1>3. /\ r \in PlayerRecord /\ r.state = q.state /\ r.kind = q.kind /\ r.focus = q.focus /\ r.wait # <<>>
      /\ r.item = q.item /\ r.playing = q.playing /\ r.cut = q.cut /\ r.alive = q.alive /\ r.cancel = q.cancel
      /\ r.playAfterStop = q.playAfterStop /\ r.delayed = q.delayed /\ r.loud = q.loud
  BY <1>1, <1>2 DEF Good, PlayerRecord
<1> HIDE DEF r
<1>4. r.focus # "NONE" => Fit(r)
  BY <1>1, <1>3 DEF PlayerInv, Fit, Good, Busy, Listed, Claimed, Loud, Active, VolDown
<1> DEFINE s == [r EXCEPT !.playAfterStop = TRUE]
<1>5. /\ s \in PlayerRecord /\ s.state = r.state /\ s.kind = r.kind /\ s.focus = r.focus /\ s.wait = r.wait
      /\ s.item = r.item /\ s.playing = r.playing /\ s.delayed = r.delayed /\ s.loud = r.loud
      /\ s.playAfterStop = TRUE
  BY <1>3 DEF PlayerRecord
<1> HIDE DEF s
<1>6. r.focus = "NONE" => \A f \in Focus \ {"NONE"} : Told(s, f, FALSE)
  BY <1>1, <1>3, <1>5 DEF Told, Good, Loud, Active, VolDown
<1> QED BY <1>0, <1>1, <1>3, <1>4, <1>6 DEF Asked, r, s

\* An item that follows.
LEMMA FollowAsked ==
  ASSUME PlayerInv, NEW i \in Item
  PROVE  Asked(Follow(i))
<1> DEFINE w == IF player.kind = "content" THEN <<i>> ELSE Append(player.wait, i)
           r == [player EXCEPT !.wait = w]
<1>1. Good(player) /\ player \in PlayerRecord /\ player.wait \in Seq(Item)
  BY DEF PlayerInv, Fit, Good, PlayerRecord
<1>2. w \in Seq(Item) /\ w # <<>>
  BY <1>1, AppendProperties
<1>3. Follow(i) = r
  BY DEF Follow
<1> HIDE DEF w
<1>4. /\ r \in PlayerRecord /\ r.state = player.state /\ r.kind = player.kind /\ r.focus = player.focus
      /\ r.wait # <<>> /\ r.item = player.item /\ r.playing = player.playing /\ r.cut = player.cut
      /\ r.alive = player.alive /\ r.cancel = player.cancel
      /\ r.playAfterStop = player.playAfterStop /\ r.delayed = player.delayed /\ r.loud = player.loud
  BY <1>1, <1>2 DEF PlayerRecord
<1> HIDE DEF r
<1>5. r.focus # "NONE" => Fit(r)
  BY <1>1, <1>4 DEF PlayerInv, Fit, Good, Busy, Listed, Claimed, Loud, Active, VolDown
<1> DEFINE s == [r EXCEPT !.playAfterStop = TRUE]
<1>6. /\ s \in PlayerRecord /\ s.state = r.state /\ s.kind = r.kind /\ s.focus = r.focus /\ s.wait = r.wait
      /\ s.item = r.item /\ s.playing = r.playing /\ s.delayed = r.delayed /\ s.loud = r.loud
      /\ s.playAfterStop = TRUE
  BY <1>4 DEF PlayerRecord
<1> HIDE DEF s
<1>7. r.focus = "NONE" => \A f \in Focus \ {"NONE"} : Told(s, f, FALSE)
  BY <1>1, <1>4, <1>6 DEF PlayerInv, Fit, Listed, Told, Good, Loud, Active, VolDown
<1> QED BY <1>3, <1>4, <1>5, <1>7 DEF Asked, s

\* The directives of a player.
LEMMA DirectiveFit ==
  ASSUME TypeOK, PlayerInv, Directive
  PROVE  HandlerTypeOK' /\ PlayerInv' /\ cmds' \in Seq(Command) /\ UNCHANGED reports
<1> DEFINE i == directives + 1
<1>1. i \in Item /\ directives' \in 0..MaxItems
  BY IpcAssumption DEF Directive, Item, TypeOK, HandlerTypeOK
<1>2. PICK p \in {Replace(i), Follow(i)} :
        IF player.focus = "NONE" THEN \E f \in Granted : Becomes(AcquireChannel(p, f)) ELSE Becomes(p)
  BY DEF Directive
<1> HIDE DEF i
<1>3. Asked(p)
  BY <1>1, <1>2, ReplaceAsked, FollowAsked
<1>4. CASE player.focus # "NONE"
  <2>1. Fit(p) /\ Becomes(p)
    BY <1>2, <1>3, <1>4 DEF Asked
  <2> QED BY <1>1, <2>1, BecomesFit DEF HandlerTypeOK, Directive
<1>5. CASE player.focus = "NONE"
  <2> DEFINE q == [p EXCEPT !.playAfterStop = TRUE]
  <2>1. PICK f \in Granted : Becomes(AcquireChannel(p, f))
    BY <1>2, <1>5
  <2>2. f \in Focus \ {"NONE"}
    BY DEF Granted, Focus
  <2>3. Told(q, f, FALSE)
    BY <1>3, <1>5, <2>2 DEF Asked
  <2>4. Becomes(OnFocusState(q, f, FALSE))
    BY <2>1 DEF AcquireChannel
  <2> HIDE DEF q
  <2>5. Fit(OnFocusState(q, f, FALSE))
    BY <2>2, <2>3, FocusFit
  <2> QED BY <1>1, <2>4, <2>5, BecomesFit DEF HandlerTypeOK, Directive
<1> QED BY <1>4, <1>5

\* stop() from outside.
LEMMA StopPlayingFit ==
  ASSUME PlayerInv
  PROVE  Fit(Stop(player, FALSE))
<1>1. Stoppable(player)
  BY DEF PlayerInv, Fit, Busy, Listed, Stoppable, VolDown
<1>2. Stopped(player, Stop(player, FALSE), FALSE)
  BY <1>1, StopStops
<1> DEFINE q == Stop(player, FALSE)
<1> HIDE DEF q
<1>3. Stopped(player, q, FALSE)
  BY <1>2 DEF q
<1>4. Fit(q)
  BY <1>3 DEF Stopped, PlayerInv, Fit, Busy, Listed, Claimed, Active, VolDown
<1> QED BY <1>4 DEF q

\* The timer finds a player that plays, or nothing to play.
LEMMA DelayedPlayFit ==
  ASSUME PlayerInv, player.delayed
  PROVE  Fit(PlayForeground([player EXCEPT !.delayed = FALSE]))
<1> DEFINE q == [player EXCEPT !.delayed = FALSE]
           full == [q EXCEPT !.loud = TRUE]
<1>1. /\ q \in PlayerRecord /\ q.state = player.state /\ q.kind = player.kind
      /\ full \in PlayerRecord /\ full.state = player.state /\ full.kind = player.kind
      /\ full.focus = player.focus /\ full.wait = player.wait /\ full.item = player.item
      /\ full.playing = player.playing /\ full.cancel = player.cancel
      /\ full.playAfterStop = player.playAfterStop /\ ~full.delayed /\ full.loud
  BY DEF PlayerInv, Fit, Good, PlayerRecord
<1>2. PlayForeground(q) = IF ~Active(q) THEN PlayNext(full) ELSE full
  BY <1>1 DEF PlayerInv, Fit, Listed, PlayForeground, VolDown
<1> HIDE DEF q, full
<1>3. Fit(full)
  BY <1>1 DEF PlayerInv, Fit, Good, Busy, Listed, Claimed, Loud, Active, VolDown
<1>4. ~Active(q) => full.wait = <<>>
  BY <1>1 DEF PlayerInv, Fit, Busy, Listed, Active, VolDown
<1>5. PlayForeground(q) = full
  BY <1>2, <1>4 DEF PlayNext
<1> QED BY <1>3, <1>5 DEF q

\* The application's callbacks.
LEMMA CallbackFit ==
  ASSUME TypeOK, PlayerInv,
         Directive \/ (\E f \in Focus : FocusTo(f)) \/ StopPlaying \/ DelayedPlay \/ GetContext
  PROVE  HandlerTypeOK' /\ PlayerInv' /\ cmds' \in Seq(Command) /\ UNCHANGED reports
<1>0. directives \in 0..MaxItems
  BY DEF TypeOK, HandlerTypeOK
<1>1. CASE Directive
  BY <1>1, DirectiveFit
<1>2. CASE \E f \in Focus : FocusTo(f)
  <2>1. PICK f \in Focus : FocusTo(f)
    BY <1>2
  <2>2. PICK byAip \in BOOLEAN : Becomes(OnFocusState(player, f, byAip))
    BY <2>1 DEF FocusTo
  <2>3. Told(player, f, byAip)
    BY <2>1 DEF FocusTo, PlayerInv, Fit, Busy, Listed, Claimed, Loud, Told, VolDown
  <2>4. Fit(OnFocusState(player, f, byAip))
    BY <2>3, FocusFit
  <2> QED BY <1>0, <2>1, <2>2, <2>4, BecomesFit DEF FocusTo, HandlerTypeOK
<1>3. CASE StopPlaying
  BY <1>0, <1>3, StopPlayingFit, BecomesFit DEF StopPlaying, HandlerTypeOK
<1>4. CASE DelayedPlay
  BY <1>0, <1>4, DelayedPlayFit, BecomesFit DEF DelayedPlay, HandlerTypeOK
<1>5. CASE GetContext
  <2> DEFINE p == GetOffset(player, player, player)
  <2>1. Good(player) /\ player \in PlayerRecord /\ Control("OFFSET") \in Command
    BY DEF PlayerInv, Fit, Good, Control, Command
  <2>2. Fit(Throw(player)) /\ Fit(Send(player, Control("OFFSET")))
    BY <2>1, ThrowKeeps, SendKeeps, AlikeGood DEF PlayerInv
  <2>3. Fit(p)
    BY <2>1, <2>2 DEF GetOffset, PlayerInv, PlayerRecord
  <2>4. Becomes(p) /\ UNCHANGED <<directives, reports>>
    BY <1>5 DEF GetContext
  <2> HIDE DEF p
  <2> QED BY <1>0, <2>3, <2>4, BecomesFit DEF HandlerTypeOK
<1> QED BY <1>1, <1>2, <1>3, <1>4, <1>5

\* A report taken out of its place.
LEMMA DeliverFit ==
  ASSUME TypeOK, PlayerInv, NEW k \in 1..Len(reports), Deliver(k)
  PROVE  HandlerTypeOK' /\ PlayerInv' /\ cmds' \in Seq(Command) /\ reports' \in Seq(Report)
<1>1. reports \in Seq(Report) /\ reports[k] \in Report /\ Len(reports) \in Nat
  BY DEF TypeOK
<1>2. SubSeq(reports, 1, k - 1) \in Seq(Report) /\ SubSeq(reports, k + 1, Len(reports)) \in Seq(Report)
  BY <1>1
<1>3. reports' \in Seq(Report)
  BY <1>2, ConcatProperties DEF Deliver
<1> DEFINE r == reports[k]
           early == player.crossed \/ k # 1
           q == [player EXCEPT !.crossed = early]
           p == CASE r = "source"                  -> KnowSource(q)
                  [] r = "offset"                  -> AnswerOffset(q)
                  [] r \notin {"source", "offset"} -> HearStatus(q, r)
<1>4. Becomes(p) /\ UNCHANGED directives
  BY DEF Deliver, Hear
<1> HIDE DEF r
<1>5. r \in Report
  BY <1>1 DEF r
<1>6. Fit(p)
  <2>0. Fit(q)
    <3>1. early \in BOOLEAN
      BY DEF PlayerInv, Fit, Good, PlayerRecord
    <3> HIDE DEF early
    <3>2. q \in PlayerRecord /\ Alike(player, q)
      BY <3>1 DEF PlayerInv, Fit, Good, PlayerRecord, Alike
    <3> QED BY <3>2, AlikeGood DEF PlayerInv
  <2> HIDE DEF q
  <2>1. CASE r = "source"
    BY <2>0, <2>1, KnowSourceFit
  <2>2. CASE r = "offset"
    BY <2>0, <2>2, AnswerOffsetFit
  <2>3. CASE r \notin {"source", "offset"}
    BY <1>5, <2>0, <2>3, HearStatusFit
  <2> QED BY <2>1, <2>2, <2>3
<1> HIDE DEF p
<1> QED BY <1>3, <1>4, <1>6, BecomesFit DEF HandlerTypeOK, TypeOK

\* Pausing and unpausing keep the stream's type, also when there is none.
LEMMA StreamPaused ==
  ASSUME stream \in Stream, NEW b \in BOOLEAN
  PROVE  WithPaused(b) \in Stream
<1>1. CASE stream = NoStream
  BY <1>1 DEF WithPaused
<1>2. CASE stream # NoStream
  <2>1. [stream EXCEPT !.paused = b]
          \in [item : Item, stage : {"opening", "ready", "sounding", "ended", "broken"},
               paused : BOOLEAN, fed : BOOLEAN]
    BY <1>2 DEF Stream
  <2> QED BY <1>2, <2>1 DEF Stream, WithPaused
<1> QED BY <1>1, <1>2

\* The process's commands keep its types.
LEMMA CommandedTyped ==
  ASSUME TypeOK, Commanded, UNCHANGED handlerVars
  PROVE  TypeOK'
<1> USE DEF TypeOK, ProcessTypeOK, HandlerTypeOK, handlerVars
<1>1. cmds # <<>> /\ cmds' = Tail(cmds)
  BY DEF Commanded, OnSetSource, OnReportOffset, OnPlay, OnStop, OnResume, OnPause, NextCommand
<1>2. Head(cmds) \in Command /\ cmds' \in Seq(Command)
  BY <1>1, HeadTailProperties
<1>3. \A r \in Report : Append(reports, r) \in Seq(Report)
  BY AppendProperties
<1>4. WithPaused(FALSE) \in Stream
  BY StreamPaused
<1>5. WithPaused(TRUE) \in Stream
  BY StreamPaused
<1>6. reports' \in Seq(Report)
  BY <1>3 DEF Report, Commanded, OnSetSource, OnReportOffset, OnPlay, OnStop, OnResume, OnPause
<1>7. CASE OnSetSource
  <2>1. Head(cmds).item \in Item
    BY <1>2, <1>7 DEF OnSetSource, NextCommand, Command
  <2> DEFINE i == Head(cmds).item
             new == [item |-> i, stage |-> "opening", paused |-> TRUE, fed |-> TRUE]
  <2>2. new \in Stream
    BY <2>1 DEF Stream
  <2>3. PICK open \in MayBeOpen : offset' = KeptOffset(i, open) /\ Prepare(i, Sought(i, open))
    BY <1>7 DEF OnSetSource, SeekAndPrepare
  <2>4. Sought(i, open) \in Stream
    BY <1>4 DEF Sought
  <2>5. offset' \in Offsets \cup {0}
    BY <2>3 DEF KeptOffset
  <2>6. stream' \in Stream /\ status' \in Status /\ stopTid' \in {"none", "running", "done"}
    <3> HIDE DEF new
    <3>1. stream' \in {new, Sought(i, open)} /\ status' \in {"PREPARING", status} /\ stopTid' \in {"none", stopTid}
      BY <2>3 DEF Prepare, new
    <3> QED BY <2>2, <2>4, <3>1 DEF Status
  <2> QED BY <1>2, <1>6, <1>7, <2>1, <2>5, <2>6 DEF OnSetSource
<1>8. CASE OnPlay
  BY <1>2, <1>4, <1>6, <1>8 DEF OnPlay, Unpause, NoUnpause, Status
<1>9. CASE OnStop
  BY <1>2, <1>6, <1>9 DEF OnStop, StopAsync
<1>10. CASE OnResume
  BY <1>2, <1>4, <1>6, <1>10 DEF OnResume, Unpause, NoUnpause, Status
<1>11. CASE OnPause
  BY <1>2, <1>5, <1>6, <1>11 DEF OnPause, Status
<1>12. CASE OnReportOffset
  BY <1>2, <1>6, <1>12 DEF OnReportOffset, processVars
<1> QED BY <1>7, <1>8, <1>9, <1>10, <1>11, <1>12 DEF Commanded

\* Its stream and its stop thread do.
LEMMA StreamingTyped ==
  ASSUME TypeOK, Streaming, UNCHANGED handlerVars
  PROVE  TypeOK'
<1> USE DEF TypeOK, ProcessTypeOK, HandlerTypeOK, handlerVars
<1>1. \A n \in Note : Append(notes, n) \in Seq(Note) /\ Append(notes, n) # <<>>
  BY AppendProperties
<1>2. ASSUME stream.stage # "none", NEW st \in {"ready", "sounding", "ended", "broken"}
      PROVE  /\ stream.item \in Item /\ [stream EXCEPT !.stage = st] \in Stream
             /\ [stream EXCEPT !.stage = st, !.fed = FALSE] \in Stream /\ [stream EXCEPT !.fed = FALSE] \in Stream
  <2> DEFINE Any == [item : Item, stage : {"opening", "ready", "sounding", "ended", "broken"},
                     paused : BOOLEAN, fed : BOOLEAN]
  <2>1. stream \in Any
    BY <1>2 DEF Stream, NoStream
  <2>2. stream.item \in Item /\ [stream EXCEPT !.stage = st] \in Any
    BY <2>1
  <2>3. [stream EXCEPT !.stage = st, !.fed = FALSE] \in Any
    BY <2>1
  <2>4. [stream EXCEPT !.fed = FALSE] \in Any
    BY <2>1
  <2> HIDE DEF Any
  <2>5. Any \subseteq Stream
    BY DEF Stream, Any
  <2> QED BY <2>2, <2>3, <2>4, <2>5
<1>3. CASE OpenStream
  BY <1>1, <1>2, <1>3 DEF OpenStream, Notify, Note, Status
<1>4. CASE FailToOpen
  <2>1. <<"ERROR">> \in Seq(Note) /\ <<"ERROR", "ERROR">> \in Seq(Note)
    BY DEF Note
  <2>2. PICK n \in {<<"ERROR">>, <<"ERROR", "ERROR">>} : notes' = notes \o n
    BY <1>4 DEF FailToOpen
  <2>3. n \in Seq(Note) /\ Len(n) > 0
    <3>1. CASE n = <<"ERROR">>
      BY <2>1, <3>1
    <3>2. CASE n = <<"ERROR", "ERROR">>
      BY <2>1, <3>2
    <3> QED BY <2>2, <3>1, <3>2
  <2>4. notes' \in Seq(Note) /\ Len(notes') = Len(notes) + Len(n)
    BY <2>2, <2>3, ConcatProperties
  <2>5. notes' # <<>>
    BY <2>3, <2>4, LenProperties
  <2> QED BY <1>2, <1>4, <2>4, <2>5 DEF FailToOpen, Status
<1>5. CASE FirstFrame
  BY <1>1, <1>2, <1>5 DEF FirstFrame, Notify, Note, Status
<1>6. CASE Complete
  BY <1>1, <1>2, <1>6 DEF Complete, Notify, Note, Status
<1>7. CASE StopPlayThread
  BY <1>1, <1>7 DEF StopPlayThread, Stream, Notify, Note, Status
<1>8. CASE FailInStream
  BY <1>1, <1>2, <1>8 DEF FailInStream, Notify, Note, Status
<1> QED BY <1>3, <1>4, <1>5, <1>6, <1>7, <1>8 DEF Streaming

\* The timer thread does.
LEMMA TimerTyped ==
  ASSUME TypeOK, Tell \/ Settle, UNCHANGED handlerVars
  PROVE  TypeOK'
<1> USE DEF TypeOK, ProcessTypeOK, HandlerTypeOK, handlerVars
<1>1. CASE Tell
  <2>1. \A r \in Report : Append(reports, r) \in Seq(Report)
    BY AppendProperties
  <2>2. Head(notes) \in Note
    BY <1>1, HeadTailProperties DEF Tell
  <2>3. reports' \in Seq(Report) /\ mFinished' \in BOOLEAN /\ stopTid' \in {"none", "running", "done"}
    BY <1>1, <2>1, <2>2 DEF Tell, StopAsync, Note, Report
  <2> QED BY <1>1, <2>3 DEF Tell
<1>2. CASE Settle
  <2>1. notes # <<>>
    BY <1>2 DEF Settle
  <2>2. Tail(notes) \in Seq(Note)
    BY <2>1, HeadTailProperties
  <2>3. /\ offset' \in Offsets \cup {0} /\ status' \in Status /\ slipped' \in BOOLEAN
        /\ stream' \in {stream, WithPaused(FALSE)}
    BY <1>2 DEF Settle, StartIfKept, StartAtOffset, Unpause, NoUnpause, Status
  <2>4. stream' \in Stream
    BY <2>3, StreamPaused
  <2> QED BY <1>2, <2>2, <2>3, <2>4 DEF Settle
<1> QED BY <1>1, <1>2

-------------------------------------------------------------------------------
\* The inductive invariant: the types, and what a player keeps.
LEMMA InvHolds == Spec => [](TypeOK /\ PlayerInv)
<1>1. Init => TypeOK /\ PlayerInv
  <2> SUFFICES ASSUME Init PROVE TypeOK /\ PlayerInv
    OBVIOUS
  <2>1. <<>> \in Seq(Command) /\ <<>> \in Seq(Report) /\ <<>> \in Seq(Item) /\ <<>> \in Seq(Note)
    BY EmptySeq
  <2>2. /\ player \in PlayerRecord /\ player.out = <<>> /\ player.playing = "null" /\ player.focus = "NONE"
        /\ player.wait = <<>> /\ ~player.delayed /\ player.loud
    BY <2>1, HandlerAssumption DEF Init, HandlerInit, PlayerRecord, Focus, Activity
  <2>3. HandlerTypeOK
    BY <2>2, IpcAssumption DEF Init, HandlerInit, HandlerTypeOK
  <2>4. ProcessTypeOK
    BY <2>1 DEF Init, ProcessInit, ProcessTypeOK, Stream, Status
  <2>5. PlayerInv
    BY <2>2 DEF PlayerInv, Fit, Good, Busy, Listed, Claimed, Loud
  <2> QED BY <2>1, <2>3, <2>4, <2>5 DEF Init, TypeOK
<1>2. TypeOK /\ PlayerInv /\ [Next]_playbackVars => (TypeOK /\ PlayerInv)'
  <2> SUFFICES ASSUME TypeOK, PlayerInv, [Next]_playbackVars
               PROVE  TypeOK' /\ PlayerInv'
    OBVIOUS
  <2>0. player' = player => PlayerInv'
    BY DEF PlayerInv, Fit, Good, Busy, Listed, Claimed, Loud, Active, VolDown
  <2>1. CASE UNCHANGED playbackVars
    BY <2>0, <2>1 DEF playbackVars, handlerVars, processVars, TypeOK, HandlerTypeOK, ProcessTypeOK
  <2>2. CASE /\ Directive \/ (\E f \in Focus : FocusTo(f)) \/ StopPlaying \/ DelayedPlay \/ GetContext
             /\ UNCHANGED processVars
    BY <2>2, CallbackFit DEF TypeOK, ProcessTypeOK, processVars
  <2>3. CASE Delivery
    <3>1. PICK k \in 1..Len(reports) : Deliver(k)
      BY <2>3 DEF Delivery
    <3> QED BY <3>1, DeliverFit DEF Deliver, TypeOK, ProcessTypeOK, processVars
  <2>4. CASE Process
    <3>1. TypeOK' /\ UNCHANGED handlerVars
      BY <2>4, CommandedTyped, StreamingTyped, TimerTyped DEF Process, Outlived
    <3> QED BY <2>0, <3>1 DEF handlerVars
  <2> QED BY <2>1, <2>2, <2>3, <2>4 DEF Next, Application
<1> QED BY <1>1, <1>2, PTL DEF Spec

(***************************************************************************)
(* The player's fields, the process's fields and what is between them keep *)
(* their types, whatever the application and the threads do.               *)
(***************************************************************************)
THEOREM TypeCorrect == Spec => []TypeOK
BY InvHolds, PTL

(***************************************************************************)
(* A channel is never held for nothing, with any reports in any order: a   *)
(* player that has a focus plays or pauses an item, or has one waiting.    *)
(***************************************************************************)
THEOREM ChannelsAreUsed == Spec => []HeldForSomething
<1>1. PlayerInv => HeldForSomething
  BY DEF PlayerInv, Fit, Busy, HeldForSomething
<1> QED BY InvHolds, <1>1, PTL

(***************************************************************************)
(* EVSMediaPlayer is never asked to play while it is busy: play() cannot   *)
(* throw player_busy, with any reports in any order.                       *)
(***************************************************************************)
THEOREM PlayersAreNotBusy == Spec => []PlayingIsActive
<1>1. PlayerInv => PlayingIsActive
  BY DEF PlayerInv, Fit, Good, PlayingIsActive
<1> QED BY InvHolds, <1>1, PTL

(***************************************************************************)
(* Nothing starts without the channel: neither the timer of the content    *)
(* player, nor a list kept over a stop, nor a late report asks the process *)
(* for an item of a player that has no focus.                              *)
(***************************************************************************)
THEOREM NothingPlaysUnheld == Spec => []NothingStartsUnheld
<1>1. PlayerInv => NothingStartsUnheld
  BY DEF PlayerInv, Fit, Claimed, NothingStartsUnheld
<1> QED BY InvHolds, <1>1, PTL

(***************************************************************************)
(* The volume comes back: a player that is low in the foreground will be   *)
(* raised by its timer, or its item has been asked to stop.                *)
(***************************************************************************)
THEOREM VolumeComesBack == Spec => []LowIsTimed
<1>1. PlayerInv => LowIsTimed
  BY DEF PlayerInv, Fit, Loud, LowIsTimed
<1> QED BY InvHolds, <1>1, PTL

=============================================================================
