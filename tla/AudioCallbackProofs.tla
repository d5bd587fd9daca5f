-------------------------- MODULE AudioCallbackProofs --------------------------
(***************************************************************************)
(* Proofs about the audio channel manager whose listeners call it back in  *)
(* the middle of a call, for any table in which the channels that hand     *)
(* over come first, as they do in the source's; and about the source's     *)
(* own table.                                                              *)
(***************************************************************************)
EXTENDS AudioFocusProofs, AudioChannels

\* The channels whose loss a listener may answer by asking for another.
Handers == {c \in Channel : \E d \in Channel : <<c, d>> \in HandsOver}

\* Nobody outranks such a channel, every less important one captures it, and what it hands
\* over to is no such channel.
HandersComeFirst ==
  \A h \in Handers :
    /\ \A c \in Channel : /\ Priority[h] <= Priority[c]
                          /\ Priority[h] < Priority[c] => h \in CaptureOn[c]
    /\ \A d \in Channel : <<h, d>> \in HandsOver => d \notin Handers

\* A channel takes the foreground at once from all that are more important.
CapturesMoreImportant ==
  \A c, d \in Channel : Priority[d] < Priority[c] => d \in CaptureOn[c]

-------------------------------------------------------------------------------
(***************************************************************************)
(* The invariants.                                                         *)
(***************************************************************************)
\* A frame that neither fills a slot nor has a listener ask for a channel.
Harmless(f) ==
  \/ f.op \in {"release", "promote"}
  \/ f.op = "set" /\ f.to = "NONE"
  \/ f.op = "notify" /\ (f.to = "NONE" => f.ch \notin Handers)

\* A frame that gives a slot to a channel that hands over.
Lifts(f) ==
  \/ f.op = "acquire" /\ f.ch \in Handers
  \/ f.op = "set" /\ f.to = "FOREGROUND" /\ f.ch \in Handers

Lowers(f) == f.op = "set" /\ f.to = "BACKGROUND" /\ f.ch \in Handers

\* Such a channel is the manager's foreground channel or has no focus, ...
HandersInFront == \A h \in Handers : focus[h] # "NONE" => fg = h

\* ... it gets the foreground at the end of a call from outside, never the background, ...
LiftsLast ==
  \A i \in 1..Len(stack) : ~Lowers(stack[i]) /\ (Lifts(stack[i]) => i = Len(stack))

\* ... and whoever takes the foreground from it tells it so first.
HanderToldFirst ==
  fg \in Handers =>
    \/ \A i \in 1..Len(stack) : Harmless(stack[i])
    \/ \E n \in Channel :
         stack \in {<<Acquire(n)>>, <<Set(fg, "NONE", n), Acquire(n)>>,
                    <<Set(fg, "NONE", n), Set(n, "FOREGROUND", Nobody)>>}

HandersInv == HandersInFront /\ LiftsLast /\ HanderToldFirst

\* A frame that fills the background, and one that may run before it.
Fills(f) == f.op = "demote" \/ (f.op = "set" /\ f.to = "BACKGROUND")
Spares(f) == Harmless(f) \/ (f.op = "set" /\ f.to = "FOREGROUND")

\* Only the pointer's channel is in the background, ...
BackgroundExact == \A c \in Channel : focus[c] = "BACKGROUND" => bg = c

\* ... and the background is empty, or about to be emptied, before something fills it.
EmptiedFirst ==
  \A i \in 1..Len(stack) : Fills(stack[i]) =>
    /\ \A j \in 1..(i - 1) : Spares(stack[j])
    /\ bg = Nobody \/ (i > 1 /\ stack[1].op = "set" /\ stack[1].ch = bg)

BackgroundInv == BackgroundExact /\ EmptiedFirst

\* The last thing the call under way does is to grant what has been asked for.
GrantPending ==
  /\ stack # <<>>
  /\ stack[Len(stack)] \in {Acquire(asked), Set(asked, "FOREGROUND", Nobody), Set(asked, "BACKGROUND", Nobody)}

\* A frame that leaves the channel asked for alone.
Leaves(f) ==
  \/ f.op = "release" /\ f.ch # asked
  \/ f.op = "promote"
  \/ f.op = "set" /\ f.to = "NONE" /\ f.ch # asked
  \/ f.op = "set" /\ f.to # "NONE" /\ (f.ch = asked \/ f.ch \notin Handers)
  \/ f.op = "notify" /\ (f.to = "NONE" => f.ch \notin Handers)

GrantKept ==
  /\ focus[asked] # "NONE"
  /\ \A h \in Handers \ {asked} : focus[h] = "NONE"
  /\ \A i \in 1..Len(stack) : Leaves(stack[i])

GrantInv == asked # Nobody /\ asked \notin GivesUp => GrantPending \/ GrantKept

-------------------------------------------------------------------------------
(***************************************************************************)
(* What a step puts on the stack.                                          *)
(***************************************************************************)
\* The branches of acquireChannel(n), with what they put in place of the call.
Branch(n, frames) ==
  \/ fg # Nobody /\ frames = <<Set(fg, "NONE", n), Acquire(n)>>
  \/ fg # Nobody /\ frames = <<Set(fg, "NONE", n), Set(n, "FOREGROUND", Nobody)>>
  \/ /\ fg # Nobody /\ Priority[n] < Priority[fg]
     /\ \/ bg = Nobody /\ frames = <<Demote(n), Set(n, "FOREGROUND", Nobody)>>
        \/ bg # Nobody /\ frames = <<Set(bg, "NONE", n), Demote(n), Set(n, "FOREGROUND", Nobody)>>
  \/ /\ fg # Nobody /\ fg \notin CaptureOn[n] /\ Priority[n] > Priority[fg]
     /\ \/ bg = Nobody /\ frames = <<Set(n, "BACKGROUND", Nobody)>>
        \/ bg # Nobody /\ frames = <<Set(bg, "NONE", n), Set(n, "BACKGROUND", Nobody)>>
        \/ frames = <<>>
  \/ fg = Nobody /\ frames = <<Set(n, "FOREGROUND", Nobody)>>
  \/ fg = Nobody /\ bg # Nobody /\ frames = <<Set(bg, "NONE", n), Set(n, "FOREGROUND", Nobody)>>
  \/ /\ fg = Nobody /\ bg # Nobody /\ Priority[n] > Priority[bg]
     /\ frames = <<Set(bg, "FOREGROUND", n), Set(n, "BACKGROUND", Nobody)>>

\* A call of acquireChannel takes one of its branches.
LEMMA AcquireBranches ==
  ASSUME NEW n \in Channel,
         \/ AcquireCapturing(n) \/ AcquireFromEqual(n) \/ AcquireOverForeground(n)
         \/ AcquireBehindForeground(n) \/ AcquireWithBackground(n) \/ AcquireIdle(n)
  PROVE  Running(Acquire(n)) /\ \E frames : Branch(n, frames) /\ Expand(frames)
BY DEF AcquireCapturing, AcquireFromEqual, AcquireOverForeground, AcquireBehindForeground,
       AcquireWithBackground, AcquireIdle, Branch

\* A frame is taken off: there is nothing to do for it.
Pops ==
  /\ Expand(<<>>)
  /\ \/ \E n \in Channel : Running(Promote(n))
     \/ \E c \in Channel, to \in FocusState, by \in Channel \cup {Nobody} :
          Running(Notify(c, to, by)) \/ (Running(Set(c, to, by)) /\ focus[c] = to)

\* A frame other than acquireChannel's is replaced by others.
Continues ==
  \/ \E n \in Channel :
       \/ Running(Release(n)) /\ Expand(<<Set(n, "NONE", Nobody), Promote(n)>>)
       \/ Running(Promote(n)) /\ fg = Nobody /\ bg # Nobody /\ Expand(<<Set(bg, "FOREGROUND", n)>>)
       \/ Running(Demote(n)) /\ fg # Nobody /\ Expand(<<Set(fg, "BACKGROUND", n)>>)
  \/ \E c \in Channel, to \in FocusState, by \in Channel \cup {Nobody} :
       Running(Notify(c, to, by)) /\ c \in GivesUp /\ Expand(<<Release(c)>>)
  \/ \E c, d \in Channel, by \in Channel \cup {Nobody} :
       Running(Notify(c, "NONE", by)) /\ <<c, d>> \in HandsOver /\ Expand(<<Acquire(d)>>)

\* _setChannelFocus has something to write.
Writes(c, to, by) == SetFocus(c, to, by) /\ focus[c] # to

\* The steps of a call, by what they put on the stack.
LEMMA RunCases ==
  ASSUME Run
  PROVE  \/ \E n \in Channel : Running(Acquire(n)) /\ \E frames : Branch(n, frames) /\ Expand(frames)
         \/ Pops
         \/ Continues
         \/ \E c \in Channel, to \in FocusState, by \in Channel \cup {Nobody} : Writes(c, to, by)
<1>1. CASE Listener
  BY <1>1 DEF Listener, ListenerReturns, ListenerGivesUp, ListenerHandsOver, Pops, Continues
<1>2. ASSUME NEW n \in Channel,
             ReleaseFocus(n) \/ PromoteBackground(n) \/ DemoteForeground(n)
      PROVE  Pops \/ Continues
  BY <1>2 DEF ReleaseFocus, PromoteBackground, DemoteForeground, Pops, Continues
<1>3. ASSUME NEW c \in Channel, NEW to \in FocusState, NEW by \in Channel \cup {Nobody},
             SetFocus(c, to, by)
      PROVE  Pops \/ Writes(c, to, by)
  BY <1>3 DEF SetFocus, Pops, Writes
<1> QED BY <1>1, <1>2, <1>3, AcquireBranches DEF Run, MgrStep

\* The places of the new stack: first what was put on it, then the rest of the old one.
LEMMA Places ==
  ASSUME stack \in Seq(MgrFrame), stack # <<>>, NEW frames \in Seq(MgrFrame),
         stack' = frames \o Tail(stack)
  PROVE  /\ stack' \in Seq(MgrFrame)
         /\ Len(stack') = Len(frames) + Len(stack) - 1
         /\ \A i \in 1..Len(stack') :
              \/ i \in 1..Len(frames) /\ stack'[i] = frames[i]
              \/ /\ i > Len(frames)
                 /\ i - Len(frames) + 1 \in 2..Len(stack)
                 /\ stack'[i] = stack[i - Len(frames) + 1]
<1>1. Tail(stack) \in Seq(MgrFrame) /\ Len(Tail(stack)) = Len(stack) - 1
  BY HeadTailProperties
<1>2. \A j \in 1..Len(Tail(stack)) : Tail(stack)[j] = stack[j + 1]
  BY HeadTailProperties
<1>3. stack' \in Seq(MgrFrame) /\ Len(stack') = Len(frames) + Len(Tail(stack))
  BY <1>1, ConcatProperties
<1>4. Len(frames) \in Nat /\ Len(stack) \in Nat /\ Len(stack) # 0
  BY EmptySeq
<1>5. ASSUME NEW i \in 1..Len(stack'), i > Len(frames)
      PROVE  i - Len(frames) + 1 \in 2..Len(stack) /\ stack'[i] = stack[i - Len(frames) + 1]
  <2>1. stack'[i] = Tail(stack)[i - Len(frames)]
    BY <1>1, <1>3, <1>5, ConcatProperties
  <2>2. i - Len(frames) \in 1..Len(Tail(stack))
    BY <1>1, <1>3, <1>4, <1>5
  <2> QED BY <1>1, <1>2, <1>4, <2>1, <2>2
<1>6. ASSUME NEW i \in 1..Len(stack'), i <= Len(frames)
      PROVE  i \in 1..Len(frames) /\ stack'[i] = frames[i]
  <2>1. i \in 1..Len(frames)
    BY <1>3, <1>4, <1>6
  <2> QED BY <1>1, <1>3, <1>6, <2>1, ConcatProperties
<1>7. ASSUME NEW i \in 1..Len(stack') PROVE i > Len(frames) \/ i <= Len(frames)
  BY <1>1, <1>3, <1>4
<1> QED BY <1>1, <1>3, <1>4, <1>5, <1>6, <1>7

\* The frame on top is the first.
LEMMA TopIsFirst ==
  ASSUME stack \in Seq(MgrFrame), NEW f, Running(f)
  PROVE  Len(stack) \in Nat /\ Len(stack) >= 1 /\ stack[1] = f /\ 1 \in 1..Len(stack)
<1>1. Len(stack) \in Nat /\ Len(stack) # 0
  BY EmptySeq DEF Running
<1>2. Head(stack) = stack[1]
  BY HeadTailProperties DEF Running
<1> QED BY <1>1, <1>2 DEF Running

\* One frame, by its place.
LEMMA OnePlace ==
  ASSUME NEW a
  PROVE  Len(<<a>>) = 1 /\ \A i \in 1..Len(<<a>>) : i = 1 /\ <<a>>[i] = a
OBVIOUS

\* Two frames, by their places.
LEMMA TwoPlaces ==
  ASSUME NEW a, NEW b
  PROVE  /\ Len(<<a, b>>) = 2
         /\ \A i \in 1..Len(<<a, b>>) : \/ i = 1 /\ <<a, b>>[i] = a
                                        \/ i = 2 /\ <<a, b>>[i] = b
OBVIOUS

\* Three frames, by their places.
LEMMA ThreePlaces ==
  ASSUME NEW a, NEW b, NEW c
  PROVE  /\ Len(<<a, b, c>>) = 3
         /\ \A i \in 1..Len(<<a, b, c>>) : \/ i = 1 /\ <<a, b, c>>[i] = a
                                           \/ i = 2 /\ <<a, b, c>>[i] = b
                                           \/ i = 3 /\ <<a, b, c>>[i] = c
OBVIOUS

-------------------------------------------------------------------------------
(***************************************************************************)
(* The channels that hand over.                                            *)
(***************************************************************************)
\* What the branches put on the stack are frames.
LEMMA BranchTyped ==
  ASSUME TypeOK, NEW n \in Channel, NEW frames, Branch(n, frames)
  PROVE  frames \in Seq(MgrFrame)
<1>1. fg # Nobody => fg \in Channel
  BY DEF TypeOK, MgrTypeOK
<1>2. bg # Nobody => bg \in Channel
  BY DEF TypeOK, MgrTypeOK
<1>3. {"NONE", "FOREGROUND", "BACKGROUND"} \subseteq FocusState
  BY DEF FocusState
<1>4. Acquire(n) \in MgrFrame /\ Demote(n) \in MgrFrame
  BY <1>3, FrameType
<1>5. \A by \in Channel \cup {Nobody} :
        /\ Set(n, "FOREGROUND", by) \in MgrFrame /\ Set(n, "BACKGROUND", by) \in MgrFrame
        /\ fg # Nobody => Set(fg, "NONE", by) \in MgrFrame
        /\ bg # Nobody => Set(bg, "NONE", by) \in MgrFrame /\ Set(bg, "FOREGROUND", by) \in MgrFrame
  BY <1>1, <1>2, <1>3, FrameType
<1>6. \A f, g, h \in MgrFrame :
        /\ <<f>> \in Seq(MgrFrame) /\ <<f, g>> \in Seq(MgrFrame) /\ <<f, g, h>> \in Seq(MgrFrame)
        /\ <<>> \in Seq(MgrFrame)
  OBVIOUS
<1> QED BY <1>4, <1>5, <1>6 DEF Branch

\* Nor are the frames that follow another than acquireChannel.
LEMMA OthersTyped ==
  ASSUME TypeOK, NEW c \in Channel, NEW n \in Channel
  PROVE  /\ <<Set(n, "NONE", Nobody), Promote(n)>> \in Seq(MgrFrame)
         /\ bg # Nobody => <<Set(bg, "FOREGROUND", n)>> \in Seq(MgrFrame)
         /\ fg # Nobody => <<Set(fg, "BACKGROUND", n)>> \in Seq(MgrFrame)
         /\ <<Release(c)>> \in Seq(MgrFrame)
         /\ <<Acquire(c)>> \in Seq(MgrFrame)
         /\ <<>> \in Seq(MgrFrame)
         /\ \A to \in FocusState, by \in Channel \cup {Nobody} : <<Notify(c, to, by)>> \in Seq(MgrFrame)
<1>1. fg # Nobody => fg \in Channel
  BY DEF TypeOK, MgrTypeOK
<1>2. bg # Nobody => bg \in Channel
  BY DEF TypeOK, MgrTypeOK
<1>3. {"NONE", "FOREGROUND", "BACKGROUND"} \subseteq FocusState
  BY DEF FocusState
<1> QED BY <1>1, <1>2, <1>3, FrameType

\* The channel in the background hands nothing over.
LEMMA BackgroundIsPlain ==
  ASSUME PointersMatchStates, HandersInFront, bg # Nobody
  PROVE  bg \notin Handers
BY DEF PointersMatchStates, HandersInFront

\* A channel that waits for a more important one, or is demoted for it, hands nothing over.
LEMMA LowIsPlain ==
  ASSUME HandersComeFirst, NEW n \in Channel, NEW c \in Channel, Priority[n] < Priority[c]
  PROVE  c \notin Handers
<1>1. Priority[n] \in Nat /\ Priority[c] \in Nat
  BY ChannelAssumption
<1> QED BY <1>1 DEF HandersComeFirst

\* Frames that lift nobody keep LiftsLast, and the last frame of all may.
LEMMA LiftsLastKept ==
  ASSUME LiftsLast, stack \in Seq(MgrFrame), stack # <<>>,
         NEW frames \in Seq(MgrFrame), stack' = frames \o Tail(stack),
         \A i \in 1..Len(frames) :
           ~Lowers(frames[i]) /\ (Lifts(frames[i]) => i = Len(frames) /\ Len(stack) = 1)
  PROVE  LiftsLast'
<1>1. Len(stack) \in Nat /\ Len(frames) \in Nat /\ Len(stack') = Len(frames) + Len(stack) - 1
  BY Places
<1>2. ASSUME NEW i \in 1..Len(stack')
      PROVE  ~Lowers(stack'[i]) /\ (Lifts(stack'[i]) => i = Len(stack'))
  <2>1. CASE i \in 1..Len(frames) /\ stack'[i] = frames[i]
    BY <1>1, <2>1
  <2>2. CASE /\ i > Len(frames)
             /\ i - Len(frames) + 1 \in 2..Len(stack)
             /\ stack'[i] = stack[i - Len(frames) + 1]
    <3> DEFINE j == i - Len(frames) + 1
    <3>1. j \in 1..Len(stack) /\ stack'[i] = stack[j]
      BY <1>1, <2>2
    <3>2. j = Len(stack) => i = Len(stack')
      BY <1>1, <2>2
    <3> HIDE DEF j
    <3> QED BY <3>1, <3>2 DEF LiftsLast
  <2> QED BY <2>1, <2>2, Places
<1> QED BY <1>2 DEF LiftsLast, Lowers, Lifts

\* What acquireChannel puts on the stack lifts nobody but at the end of the only call.
LEMMA BranchLifts ==
  ASSUME TypeOK, PointersMatchStates, HandersComeFirst, HandersInFront, LiftsLast,
         NEW n \in Channel, Running(Acquire(n)), NEW frames, Branch(n, frames)
  PROVE  \A i \in 1..Len(frames) :
           ~Lowers(frames[i]) /\ (Lifts(frames[i]) => i = Len(frames) /\ Len(stack) = 1)
<1>1. n \in Handers => Len(stack) = 1
  <2>1. stack[1] = Acquire(n) /\ 1 \in 1..Len(stack)
    BY TopIsFirst DEF TypeOK
  <2>2. n \in Handers => Lifts(stack[1])
    BY <2>1 DEF Lifts, Acquire
  <2> QED BY <2>1, <2>2 DEF LiftsLast
<1>2. bg # Nobody => bg \notin Handers
  BY BackgroundIsPlain
<1>3. \A c \in Channel : Priority[n] > Priority[c] => n \notin Handers
  <2> SUFFICES ASSUME NEW c \in Channel, Priority[n] > Priority[c] PROVE n \notin Handers
    OBVIOUS
  <2>1. Priority[n] \in Nat /\ Priority[c] \in Nat
    BY ChannelAssumption
  <2> QED BY <2>1, LowIsPlain
<1>4. (fg # Nobody => fg \in Channel) /\ (bg # Nobody => bg \in Channel)
  BY DEF TypeOK, MgrTypeOK
<1>5. CASE frames = <<Set(fg, "NONE", n), Acquire(n)>>
  BY <1>1, <1>5, TwoPlaces, FrameOps DEF Lifts, Lowers
<1>6. CASE frames = <<Set(fg, "NONE", n), Set(n, "FOREGROUND", Nobody)>>
  BY <1>1, <1>6, TwoPlaces, FrameOps DEF Lifts, Lowers
<1>7. CASE frames = <<Demote(n), Set(n, "FOREGROUND", Nobody)>>
  BY <1>1, <1>7, TwoPlaces, FrameOps DEF Lifts, Lowers
<1>8. CASE frames = <<Set(bg, "NONE", n), Demote(n), Set(n, "FOREGROUND", Nobody)>>
  BY <1>1, <1>8, ThreePlaces, FrameOps DEF Lifts, Lowers
<1>9. CASE n \notin Handers /\ frames = <<Set(n, "BACKGROUND", Nobody)>>
  BY <1>9, OnePlace, FrameOps DEF Lifts, Lowers
<1>10. CASE n \notin Handers /\ frames = <<Set(bg, "NONE", n), Set(n, "BACKGROUND", Nobody)>>
  BY <1>10, TwoPlaces, FrameOps DEF Lifts, Lowers
<1>11. CASE frames = <<>>
  BY <1>11
<1>12. CASE frames = <<Set(n, "FOREGROUND", Nobody)>>
  BY <1>1, <1>12, OnePlace, FrameOps DEF Lifts, Lowers
<1>13. CASE frames = <<Set(bg, "NONE", n), Set(n, "FOREGROUND", Nobody)>>
  BY <1>1, <1>13, TwoPlaces, FrameOps DEF Lifts, Lowers
<1>14. CASE n \notin Handers /\ bg # Nobody /\ frames = <<Set(bg, "FOREGROUND", n), Set(n, "BACKGROUND", Nobody)>>
  BY <1>2, <1>14, TwoPlaces, FrameOps DEF Lifts, Lowers
<1> QED BY <1>3, <1>4, <1>5, <1>6, <1>7, <1>8, <1>9, <1>10, <1>11, <1>12, <1>13, <1>14 DEF Branch

\* What may be on top of the stack while a channel that hands over is in the foreground.
LEMMA TopWithHander ==
  ASSUME TypeOK, HanderToldFirst, fg \in Handers, NEW f, Running(f)
  PROVE  \/ Harmless(f) /\ \A i \in 1..Len(stack) : Harmless(stack[i])
         \/ \E n \in Channel : f = Acquire(n) /\ stack = <<f>>
         \/ \E n \in Channel : f = Set(fg, "NONE", n)
<1>1. stack[1] = f /\ 1 \in 1..Len(stack)
  BY TopIsFirst DEF TypeOK
<1>2. CASE \A i \in 1..Len(stack) : Harmless(stack[i])
  BY <1>1, <1>2
<1>3. ASSUME NEW n \in Channel, stack = <<Acquire(n)>>
      PROVE  f = Acquire(n) /\ stack = <<f>>
  BY <1>1, <1>3
<1>4. ASSUME NEW n \in Channel,
             \/ stack = <<Set(fg, "NONE", n), Acquire(n)>>
             \/ stack = <<Set(fg, "NONE", n), Set(n, "FOREGROUND", Nobody)>>
      PROVE  f = Set(fg, "NONE", n)
  BY <1>1, <1>4
<1> QED BY <1>2, <1>3, <1>4 DEF HanderToldFirst

\* Harmless frames on harmless frames.
LEMMA HarmlessKept ==
  ASSUME stack \in Seq(MgrFrame), stack # <<>>, \A i \in 1..Len(stack) : Harmless(stack[i]),
         NEW frames \in Seq(MgrFrame), stack' = frames \o Tail(stack),
         \A i \in 1..Len(frames) : Harmless(frames[i])
  PROVE  \A i \in 1..Len(stack') : Harmless(stack'[i])
<1> SUFFICES ASSUME NEW i \in 1..Len(stack') PROVE Harmless(stack'[i])
  OBVIOUS
<1>1. CASE i \in 1..Len(frames) /\ stack'[i] = frames[i]
  BY <1>1
<1>2. CASE /\ i - Len(frames) + 1 \in 2..Len(stack)
           /\ stack'[i] = stack[i - Len(frames) + 1]
  <2>1. i - Len(frames) + 1 \in 1..Len(stack)
    BY <1>2
  <2> QED BY <1>2, <2>1
<1> QED BY <1>1, <1>2, Places

\* A call of acquireChannel tells the channel that hands over before anything else.
LEMMA AcquireHanders ==
  ASSUME TypeOK, PointersMatchStates, HandersComeFirst, HandersInv,
         NEW n \in Channel, Running(Acquire(n)), NEW frames, Branch(n, frames), Expand(frames)
  PROVE  HandersInv'
<1>1. frames \in Seq(MgrFrame)
  BY BranchTyped
<1>2. LiftsLast'
  BY <1>1, BranchLifts, LiftsLastKept DEF HandersInv, TypeOK, Running, Expand
<1>3. HandersInFront'
  BY DEF HandersInv, HandersInFront, Expand
<1>4. ASSUME fg \in Handers PROVE HanderToldFirst'
  <2>1. ~Harmless(Acquire(n)) /\ \A m \in Channel : Acquire(n) # Set(fg, "NONE", m)
    BY DEF Harmless, Acquire, Set
  <2>2. stack = <<Acquire(n)>>
    BY <1>4, <2>1, TopWithHander DEF HandersInv
  <2>3. stack' = frames
    BY <1>1, <2>2, ConcatEmptySeq DEF Expand
  <2>4. fg \in Channel /\ fg # Nobody
    BY <1>4, ChannelAssumption DEF Handers
  <2>5. Priority[fg] \in Nat /\ Priority[n] \in Nat
    BY <2>4, ChannelAssumption
  <2>6. Priority[fg] <= Priority[n] /\ (Priority[fg] < Priority[n] => fg \in CaptureOn[n])
    BY <1>4 DEF HandersComeFirst
  <2>7. frames \in {<<Set(fg, "NONE", n), Acquire(n)>>, <<Set(fg, "NONE", n), Set(n, "FOREGROUND", Nobody)>>}
    BY <2>4, <2>5, <2>6 DEF Branch
  <2>8. fg' = fg
    BY DEF Expand
  <2> QED BY <2>3, <2>7, <2>8 DEF HanderToldFirst
<1>5. ASSUME fg \notin Handers PROVE HanderToldFirst'
  BY <1>5 DEF HanderToldFirst, Expand
<1> QED BY <1>2, <1>3, <1>4, <1>5 DEF HandersInv

\* Taking a frame off changes nothing for them.
LEMMA PopHanders ==
  ASSUME TypeOK, PointersMatchStates, HandersInv, Pops
  PROVE  HandersInv'
<1> DEFINE none == <<>>
<1>1. none \in Seq(MgrFrame) /\ stack' = none \o Tail(stack) /\ stack \in Seq(MgrFrame) /\ stack # <<>>
  BY DEF Pops, Expand, Running, TypeOK
<1>2. \A i \in 1..Len(none) : FALSE
  OBVIOUS
<1> HIDE DEF none
<1>3. LiftsLast'
  BY <1>1, <1>2, LiftsLastKept DEF HandersInv
<1>4. HandersInFront'
  BY DEF HandersInv, HandersInFront, Pops, Expand
<1>5. ASSUME fg \in Handers PROVE HanderToldFirst'
  <2>1. fg \in Channel /\ fg # Nobody /\ focus[fg] = "FOREGROUND"
    BY <1>5, ChannelAssumption DEF Handers, PointersMatchStates
  <2>2. ASSUME NEW f, Running(f), f.op # "acquire", f.op = "set" => f.ch # fg \/ f.to # "NONE"
        PROVE  \A i \in 1..Len(stack) : Harmless(stack[i])
    <3>1. \A n \in Channel : f # Acquire(n) /\ f # Set(fg, "NONE", n)
      BY <2>2 DEF Acquire, Set
    <3> QED BY <1>5, <2>2, <3>1, TopWithHander DEF HandersInv
  <2>3. \A i \in 1..Len(stack) : Harmless(stack[i])
    <3>1. ASSUME NEW n \in Channel, Running(Promote(n))
          PROVE  \A i \in 1..Len(stack) : Harmless(stack[i])
      BY <2>2, <3>1 DEF Promote
    <3>2. ASSUME NEW c \in Channel, NEW to \in FocusState, NEW by \in Channel \cup {Nobody},
                 Running(Notify(c, to, by)) \/ (Running(Set(c, to, by)) /\ focus[c] = to)
          PROVE  \A i \in 1..Len(stack) : Harmless(stack[i])
      BY <2>1, <2>2, <3>2, FrameOps
    <3> QED BY <3>1, <3>2 DEF Pops
  <2>4. \A i \in 1..Len(stack') : Harmless(stack'[i])
    BY <1>1, <1>2, <2>3, HarmlessKept
  <2> QED BY <2>4 DEF HanderToldFirst, Harmless
<1>6. ASSUME fg \notin Handers PROVE HanderToldFirst'
  BY <1>6 DEF HanderToldFirst, Pops, Expand
<1> QED BY <1>3, <1>4, <1>5, <1>6 DEF HandersInv

\* What follows another frame than acquireChannel's lifts nobody, and is harmless as long as a
\* channel that hands over is in the foreground.
LEMMA ContinueFrames ==
  ASSUME TypeOK, PointersMatchStates, HandersComeFirst, HandersInv, Continues
  PROVE  /\ stack # <<>>
         /\ fg \in Handers => \A i \in 1..Len(stack) : Harmless(stack[i])
         /\ \E frames \in Seq(MgrFrame) :
              /\ Expand(frames)
              /\ \A i \in 1..Len(frames) : /\ ~Lowers(frames[i]) /\ ~Lifts(frames[i])
                                           /\ fg \in Handers => Harmless(frames[i])
<1> DEFINE Follows(frames) ==
             /\ stack # <<>>
             /\ fg \in Handers => \A i \in 1..Len(stack) : Harmless(stack[i])
             /\ frames \in Seq(MgrFrame)
             /\ Expand(frames)
             /\ \A i \in 1..Len(frames) : /\ ~Lowers(frames[i]) /\ ~Lifts(frames[i])
                                          /\ fg \in Handers => Harmless(frames[i])
<1> SUFFICES \E frames : Follows(frames)
  OBVIOUS
<1>1. ASSUME NEW f, Running(f), f.op \notin {"acquire", "set"}
      PROVE  /\ stack # <<>>
             /\ fg \in Handers => Harmless(f) /\ \A i \in 1..Len(stack) : Harmless(stack[i])
  <2>1. \A n \in Channel : f # Acquire(n) /\ f # Set(fg, "NONE", n)
    BY <1>1 DEF Acquire, Set
  <2> QED BY <1>1, <2>1, TopWithHander DEF HandersInv, Running
<1>2. ASSUME NEW n \in Channel, Running(Release(n)), Expand(<<Set(n, "NONE", Nobody), Promote(n)>>)
      PROVE  Follows(<<Set(n, "NONE", Nobody), Promote(n)>>)
  <2>1. \A i \in 1..Len(<<Set(n, "NONE", Nobody), Promote(n)>>) :
          LET f == <<Set(n, "NONE", Nobody), Promote(n)>>[i] IN ~Lowers(f) /\ ~Lifts(f) /\ Harmless(f)
    BY TwoPlaces DEF Set, Promote, Lowers, Lifts, Harmless
  <2>2. Release(n).op \notin {"acquire", "set"}
    BY DEF Release
  <2> QED BY <1>1, <1>2, <2>1, <2>2, OthersTyped
<1>3. ASSUME NEW n \in Channel, Running(Promote(n)), fg = Nobody, bg # Nobody, Expand(<<Set(bg, "FOREGROUND", n)>>)
      PROVE  Follows(<<Set(bg, "FOREGROUND", n)>>)
  <2>1. bg \notin Handers /\ fg \notin Handers
    BY <1>3, BackgroundIsPlain, ChannelAssumption DEF HandersInv, Handers
  <2>2. \A i \in 1..Len(<<Set(bg, "FOREGROUND", n)>>) :
          LET f == <<Set(bg, "FOREGROUND", n)>>[i] IN ~Lowers(f) /\ ~Lifts(f)
    BY <2>1, OnePlace DEF Set, Lowers, Lifts
  <2> QED BY <1>3, <2>1, <2>2, OthersTyped DEF Running
<1>4. ASSUME NEW n \in Channel, Running(Demote(n)), fg # Nobody, Expand(<<Set(fg, "BACKGROUND", n)>>)
      PROVE  Follows(<<Set(fg, "BACKGROUND", n)>>)
  <2>1. Demote(n).op \notin {"acquire", "set"} /\ ~Harmless(Demote(n))
    BY DEF Demote, Harmless
  <2>2. fg \notin Handers
    BY <1>1, <1>4, <2>1
  <2>3. \A i \in 1..Len(<<Set(fg, "BACKGROUND", n)>>) :
          LET f == <<Set(fg, "BACKGROUND", n)>>[i] IN ~Lowers(f) /\ ~Lifts(f)
    BY <2>2, OnePlace DEF Set, Lowers, Lifts
  <2> QED BY <1>4, <2>2, <2>3, OthersTyped DEF Running
<1>5. ASSUME NEW c \in Channel, NEW to \in FocusState, NEW by \in Channel \cup {Nobody},
             Running(Notify(c, to, by)), Expand(<<Release(c)>>)
      PROVE  Follows(<<Release(c)>>)
  <2>1. \A i \in 1..Len(<<Release(c)>>) :
          LET f == <<Release(c)>>[i] IN ~Lowers(f) /\ ~Lifts(f) /\ Harmless(f)
    BY OnePlace DEF Release, Lowers, Lifts, Harmless
  <2>2. Notify(c, to, by).op \notin {"acquire", "set"}
    BY DEF Notify
  <2> QED BY <1>1, <1>5, <2>1, <2>2, OthersTyped
<1>6. ASSUME NEW c \in Channel, NEW d \in Channel, NEW by \in Channel \cup {Nobody},
             Running(Notify(c, "NONE", by)), <<c, d>> \in HandsOver, Expand(<<Acquire(d)>>)
      PROVE  Follows(<<Acquire(d)>>)
  <2>1. c \in Handers /\ d \notin Handers
    BY <1>6 DEF Handers, HandersComeFirst
  <2>2. Notify(c, "NONE", by).op \notin {"acquire", "set"} /\ ~Harmless(Notify(c, "NONE", by))
    BY <2>1 DEF Notify, Harmless
  <2>3. fg \notin Handers
    BY <1>1, <1>6, <2>2
  <2>4. \A i \in 1..Len(<<Acquire(d)>>) :
          LET f == <<Acquire(d)>>[i] IN ~Lowers(f) /\ ~Lifts(f)
    BY <2>1, OnePlace DEF Acquire, Lowers, Lifts
  <2> QED BY <1>6, <2>3, <2>4, OthersTyped DEF Running
<1> HIDE DEF Follows
<1> QED BY <1>2, <1>3, <1>4, <1>5, <1>6 DEF Continues

\* So the other steps of a call keep the invariant.
LEMMA ContinueHanders ==
  ASSUME TypeOK, PointersMatchStates, HandersComeFirst, HandersInv, Continues
  PROVE  HandersInv'
<1>1. stack # <<>> /\ (fg \in Handers => \A i \in 1..Len(stack) : Harmless(stack[i]))
  BY ContinueFrames
<1>2. PICK frames \in Seq(MgrFrame) :
        /\ Expand(frames)
        /\ \A i \in 1..Len(frames) : /\ ~Lowers(frames[i]) /\ ~Lifts(frames[i])
                                     /\ fg \in Handers => Harmless(frames[i])
  BY ContinueFrames
<1>3. LiftsLast'
  BY <1>1, <1>2, LiftsLastKept DEF HandersInv, TypeOK, Expand
<1>4. HandersInFront'
  BY <1>2 DEF HandersInv, HandersInFront, Expand
<1>5. ASSUME fg \in Handers PROVE \A i \in 1..Len(stack') : Harmless(stack'[i])
  BY <1>1, <1>2, <1>5, HarmlessKept DEF TypeOK, Expand
<1>6. HanderToldFirst'
  BY <1>2, <1>5 DEF HanderToldFirst, Expand, Harmless
<1> QED BY <1>3, <1>4, <1>6 DEF HandersInv

\* _setChannelFocus takes the foreground from such a channel only by telling it.
LEMMA WriteHanders ==
  ASSUME TypeOK, PointersMatchStates, HandersInv,
         NEW c \in Channel, NEW to \in FocusState, NEW by \in Channel \cup {Nobody}, Writes(c, to, by)
  PROVE  HandersInv'
<1> DEFINE f == Set(c, to, by)
           one == <<Notify(c, to, by)>>
<1>1. /\ Running(f) /\ f.op = "set" /\ f.ch = c /\ f.to = to
      /\ stack # <<>> /\ stack[1] = f /\ 1 \in 1..Len(stack)
  BY TopIsFirst, FrameOps DEF Writes, SetFocus, Running, TypeOK
<1>2. /\ one \in Seq(MgrFrame) /\ stack' = one \o Tail(stack) /\ Len(one) = 1
      /\ \A i \in 1..Len(one) : one[i].op = "notify" /\ one[i].ch = c /\ one[i].to = to
  <2>1. \A i \in 1..Len(one) : one[i] = Notify(c, to, by)
    BY OnePlace
  <2> QED BY <2>1, OthersTyped, OnePlace DEF Writes, SetFocus, Notify
<1>3. /\ focus[c] # to
      /\ fg' = IF to = "FOREGROUND" THEN c ELSE IF fg = c THEN Nobody ELSE fg
      /\ focus' = [focus EXCEPT ![c] = to]
  BY DEF Writes, SetFocus
<1>4. \A n \in Channel : f # Acquire(n)
  BY <1>1 DEF Acquire
<1>5. (\E n \in Channel : f = Set(fg, "NONE", n)) => c = fg /\ to = "NONE"
  BY <1>1, FrameOps
<1> HIDE DEF f, one
<1>6. fg \in Handers => \/ to = "NONE" /\ \A i \in 1..Len(stack) : Harmless(stack[i])
                        \/ to = "NONE" /\ c = fg
  BY <1>1, <1>4, <1>5, TopWithHander DEF HandersInv, Harmless
<1>7. c \in Handers => to # "BACKGROUND" /\ (to = "FOREGROUND" => Len(stack) = 1)
  BY <1>1 DEF HandersInv, LiftsLast, Lifts, Lowers
<1>8. HandersInFront'
  <2> SUFFICES ASSUME NEW h \in Handers, focus'[h] # "NONE" PROVE fg' = h
    BY DEF HandersInFront, Handers
  <2>1. h \in Channel
    BY DEF Handers
  <2>2. CASE h = c
    BY <1>3, <1>7, <2>1, <2>2 DEF TypeOK, MgrTypeOK, FocusState
  <2>3. CASE h # c
    <3>1. focus[h] # "NONE" /\ fg = h
      BY <1>3, <2>1, <2>3 DEF TypeOK, MgrTypeOK, HandersInv, HandersInFront
    <3> QED BY <1>3, <1>6, <2>3, <3>1
  <2> QED BY <2>2, <2>3
<1>9. LiftsLast'
  BY <1>1, <1>2, LiftsLastKept DEF HandersInv, TypeOK, Lifts, Lowers
<1>10. ASSUME fg' \in Handers PROVE \A i \in 1..Len(stack') : Harmless(stack'[i])
  <2>1. CASE to = "FOREGROUND"
    <3>1. Len(stack) = 1
      BY <1>3, <1>7, <1>10, <2>1
    <3>2. Len(stack') = 1
      <4>1. stack \in Seq(MgrFrame)
        BY DEF TypeOK
      <4>2. Len(stack') = Len(one) + Len(stack) - 1
        BY <1>1, <1>2, <4>1, Places
      <4> QED BY <1>2, <3>1, <4>2
    <3>3. \A i \in 1..Len(stack') : stack'[i] = one[i] /\ i \in 1..Len(one)
      BY <1>1, <1>2, <3>1, <3>2, Places DEF TypeOK
    <3> QED BY <1>2, <2>1, <3>3 DEF Harmless
  <2>2. CASE to # "FOREGROUND"
    <3>1. fg \in Handers /\ fg # c
      BY <1>3, <1>10, <2>2, ChannelAssumption DEF Handers
    <3>2. to = "NONE" /\ \A i \in 1..Len(stack) : Harmless(stack[i])
      BY <1>6, <3>1
    <3>3. c \notin Handers
      BY <1>3, <3>1, <3>2 DEF HandersInv, HandersInFront
    <3>4. \A i \in 1..Len(one) : Harmless(one[i])
      BY <1>2, <3>3 DEF Harmless
    <3> QED BY <1>1, <1>2, <3>2, <3>4, HarmlessKept DEF TypeOK
  <2> QED BY <2>1, <2>2
<1>11. HanderToldFirst'
  BY <1>10 DEF HanderToldFirst, Harmless
<1> QED BY <1>8, <1>9, <1>11 DEF HandersInv

\* A call from outside may ask for anything: nothing is under way.
LEMMA UserHanders ==
  ASSUME TypeOK, HandersInv, User
  PROVE  HandersInv'
<1>1. PICK c \in Channel : AskFor(c) \/ GiveUp(c)
  BY DEF User
<1>2. focus' = focus /\ fg' = fg
  BY <1>1 DEF AskFor, GiveUp
<1>3. HandersInFront'
  BY <1>2 DEF HandersInv, HandersInFront
<1>4. CASE AskFor(c)
  <2>1. stack' = <<Acquire(c)>>
    BY <1>4 DEF AskFor
  <2>2. LiftsLast'
    BY <2>1, OnePlace DEF LiftsLast, Lowers, Acquire
  <2>3. HanderToldFirst'
    BY <2>1 DEF HanderToldFirst
  <2> QED BY <1>3, <2>2, <2>3 DEF HandersInv
<1>5. CASE GiveUp(c)
  <2>1. stack' = <<Release(c)>>
    BY <1>5 DEF GiveUp
  <2>2. LiftsLast'
    BY <2>1, OnePlace DEF LiftsLast, Lowers, Lifts, Release
  <2>3. \A i \in 1..Len(stack') : Harmless(stack'[i])
    BY <2>1, OnePlace DEF Release, Harmless
  <2> QED BY <1>3, <2>2, <2>3 DEF HandersInv, HanderToldFirst, Harmless
<1> QED BY <1>1, <1>4, <1>5

\* Every step keeps it.
LEMMA StepHanders ==
  ASSUME HandersComeFirst, TypeOK, PointersMatchStates, HandersInv, [Next]_vars
  PROVE  HandersInv'
<1>1. CASE User
  BY <1>1, UserHanders
<1>2. CASE Run
  BY <1>2, RunCases, AcquireHanders, PopHanders, ContinueHanders, WriteHanders
<1>3. CASE UNCHANGED vars
  BY <1>3 DEF vars, HandersInv, HandersInFront, LiftsLast, HanderToldFirst, Lifts, Lowers, Harmless
<1> QED BY <1>1, <1>2, <1>3 DEF Next

(***************************************************************************)
(* A channel whose listener hands over loses the foreground only when the  *)
(* manager tells it so, before anything else is done to the slots: the     *)
(* callback of _onTTSFocusState finds the manager between two statements   *)
(* that do not depend on each other.                                       *)
(***************************************************************************)
THEOREM HandersAreTold ==
  ASSUME HandersComeFirst
  PROVE  Spec => []HandersInv
<1>1. Init => HandersInv
  BY DEF Init, MgrInit, HandersInv, HandersInFront, LiftsLast, HanderToldFirst, Handers
<1>2. TypeOK /\ PointersMatchStates /\ HandersInv /\ [Next]_vars => HandersInv'
  BY StepHanders
<1>3. QED
  BY <1>1, <1>2, TypeCorrect, PointersAreRight, PTL DEF Spec

-------------------------------------------------------------------------------
(***************************************************************************)
(* One channel in the background.                                          *)
(***************************************************************************)
\* Of the frames below the one on top, a filler has only frames before it that spare the slot.
LEMMA FillersBelow ==
  ASSUME EmptiedFirst, stack \in Seq(MgrFrame), NEW f, Running(f),
         NEW i \in 2..Len(stack), Fills(stack[i])
  PROVE  /\ Spares(f)
         /\ \A j \in 2..(i - 1) : Spares(stack[j])
         /\ bg = Nobody \/ (f.op = "set" /\ f.ch = bg)
<1>1. stack[1] = f /\ Len(stack) \in Nat /\ Len(stack) >= 1
  BY TopIsFirst
<1>2. i \in 1..Len(stack) /\ 1 \in 1..(i - 1) /\ \A j \in 2..(i - 1) : j \in 1..(i - 1)
  BY <1>1
<1> QED BY <1>1, <1>2 DEF EmptiedFirst

\* Frames put on top keep EmptiedFirst if they spare the fillers below them and, where they
\* fill the background themselves, empty it first.
LEMMA EmptiedFirstKept ==
  ASSUME EmptiedFirst, stack \in Seq(MgrFrame), NEW f, Running(f),
         NEW frames \in Seq(MgrFrame), stack' = frames \o Tail(stack),
         \A i \in 1..Len(frames) : Fills(frames[i]) =>
           /\ \A j \in 1..(i - 1) : Spares(frames[j])
           /\ bg' = Nobody \/ (i > 1 /\ frames[1].op = "set" /\ frames[1].ch = bg'),
         Spares(f) /\ (bg = Nobody \/ (f.op = "set" /\ f.ch = bg)) =>
           bg' = Nobody /\ \A i \in 1..Len(frames) : Spares(frames[i])
  PROVE  EmptiedFirst'
<1>1. /\ Len(stack) \in Nat /\ Len(frames) \in Nat
      /\ Len(stack') = Len(frames) + Len(stack) - 1 /\ Len(stack) >= 1
  BY Places, TopIsFirst DEF Running
<1> DEFINE At(i) == i - Len(frames) + 1
<1>2. \A i \in 1..Len(stack') :
        \/ i \in 1..Len(frames) /\ stack'[i] = frames[i]
        \/ i > Len(frames) /\ At(i) \in 2..Len(stack) /\ stack'[i] = stack[At(i)]
  BY Places DEF Running
<1>3. ASSUME NEW i \in 1..Len(stack'), Fills(stack'[i]), NEW j \in 1..(i - 1)
      PROVE  Spares(stack'[j])
  <2>1. j \in 1..Len(stack') /\ j < i
    BY <1>1
  <2>2. CASE i \in 1..Len(frames) /\ stack'[i] = frames[i]
    BY <1>1, <1>2, <1>3, <2>1, <2>2
  <2>3. CASE i > Len(frames) /\ At(i) \in 2..Len(stack) /\ stack'[i] = stack[At(i)]
    <3>1. /\ Spares(f) /\ (bg = Nobody \/ (f.op = "set" /\ f.ch = bg))
          /\ \A k \in 2..(At(i) - 1) : Spares(stack[k])
      BY <1>3, <2>3, FillersBelow
    <3>2. CASE j \in 1..Len(frames) /\ stack'[j] = frames[j]
      BY <3>1, <3>2
    <3>3. CASE At(j) \in 2..Len(stack) /\ stack'[j] = stack[At(j)]
      <4>1. At(j) \in 2..(At(i) - 1)
        BY <1>1, <2>1, <3>3
      <4> QED BY <3>1, <3>3, <4>1
    <3> QED BY <1>2, <2>1, <3>2, <3>3
  <2> QED BY <1>2, <2>2, <2>3
<1>4. ASSUME NEW i \in 1..Len(stack'), Fills(stack'[i])
      PROVE  bg' = Nobody \/ (i > 1 /\ stack'[1].op = "set" /\ stack'[1].ch = bg')
  <2>1. CASE i \in 1..Len(frames) /\ stack'[i] = frames[i]
    <3>1. 1 \in 1..Len(frames) /\ 1 \in 1..Len(stack') /\ stack'[1] = frames[1]
      BY <1>1, <1>2, <2>1
    <3> QED BY <1>4, <2>1, <3>1
  <2>2. CASE At(i) \in 2..Len(stack) /\ stack'[i] = stack[At(i)]
    BY <1>4, <2>2, FillersBelow
  <2> QED BY <1>2, <2>1, <2>2
<1> QED BY <1>3, <1>4 DEF EmptiedFirst, Fills, Spares, Harmless

\* acquireChannel empties the background before it fills it.
LEMMA AcquireBackground ==
  ASSUME TypeOK, BackgroundInv,
         NEW n \in Channel, Running(Acquire(n)), NEW frames, Branch(n, frames), Expand(frames)
  PROVE  BackgroundInv'
<1>1. frames \in Seq(MgrFrame)
  BY BranchTyped
<1>2. ~Spares(Acquire(n))
  BY DEF Spares, Harmless, Acquire
<1> DEFINE Empties(s) ==
             \A i \in 1..Len(s) : Fills(s[i]) =>
               /\ \A j \in 1..(i - 1) : Spares(s[j])
               /\ bg = Nobody \/ (i > 1 /\ s[1].op = "set" /\ s[1].ch = bg)
<1>3. Empties(frames)
  <2> USE DEF Fills, Spares, Harmless
  <2>1. Empties(<<Set(fg, "NONE", n), Acquire(n)>>)
    BY TwoPlaces DEF Set, Acquire
  <2>2. Empties(<<Set(fg, "NONE", n), Set(n, "FOREGROUND", Nobody)>>)
    BY TwoPlaces DEF Set
  <2>3. bg = Nobody => Empties(<<Demote(n), Set(n, "FOREGROUND", Nobody)>>)
    BY TwoPlaces DEF Set, Demote
  <2>4. Empties(<<Set(bg, "NONE", n), Demote(n), Set(n, "FOREGROUND", Nobody)>>)
    BY ThreePlaces DEF Set, Demote
  <2>5. bg = Nobody => Empties(<<Set(n, "BACKGROUND", Nobody)>>)
    BY OnePlace DEF Set
  <2>6. Empties(<<Set(bg, "NONE", n), Set(n, "BACKGROUND", Nobody)>>)
    BY TwoPlaces DEF Set
  <2>7. Empties(<<>>)
    OBVIOUS
  <2>8. Empties(<<Set(n, "FOREGROUND", Nobody)>>)
    BY OnePlace DEF Set
  <2>9. Empties(<<Set(bg, "NONE", n), Set(n, "FOREGROUND", Nobody)>>)
    BY TwoPlaces DEF Set
  <2>10. Empties(<<Set(bg, "FOREGROUND", n), Set(n, "BACKGROUND", Nobody)>>)
    BY TwoPlaces DEF Set
  <2> HIDE DEF Empties
  <2> QED BY <2>1, <2>2, <2>3, <2>4, <2>5, <2>6, <2>7, <2>8, <2>9, <2>10 DEF Branch
<1>4. bg' = bg /\ focus' = focus /\ stack' = frames \o Tail(stack)
  BY DEF Expand
<1>5. EmptiedFirst'
  BY <1>1, <1>2, <1>3, <1>4, EmptiedFirstKept DEF BackgroundInv, TypeOK
<1> QED BY <1>4, <1>5 DEF BackgroundInv, BackgroundExact

\* The frames that call nothing of acquireChannel's leave the fillers below them as they are.
LEMMA ContinueBackground ==
  ASSUME TypeOK, PointersMatchStates, BackgroundInv, Pops \/ Continues
  PROVE  BackgroundInv'
<1> DEFINE Follows(f, frames) ==
             /\ Running(f)
             /\ Expand(frames)
             /\ frames \in Seq(MgrFrame)
             /\ \A i \in 1..Len(frames) : Fills(frames[i]) => bg = Nobody
             /\ \A i \in 1..Len(frames) : \A j \in 1..(i - 1) : Spares(frames[j])
             /\ Spares(f) /\ (bg = Nobody \/ (f.op = "set" /\ f.ch = bg)) =>
                  bg = Nobody /\ \A i \in 1..Len(frames) : Spares(frames[i])
<1>1. ASSUME NEW f, NEW frames, Follows(f, frames) PROVE BackgroundInv'
  <2>1. bg' = bg /\ focus' = focus /\ stack' = frames \o Tail(stack)
    BY <1>1 DEF Expand
  <2>2. EmptiedFirst'
    BY <1>1, <2>1, EmptiedFirstKept DEF BackgroundInv, TypeOK
  <2> QED BY <2>1, <2>2 DEF BackgroundInv, BackgroundExact
<1>2. (bg # Nobody => bg \in Channel /\ focus[bg] = "BACKGROUND") /\ (fg # Nobody => fg \in Channel)
  BY DEF TypeOK, MgrTypeOK, PointersMatchStates
<1>3. ASSUME Pops PROVE \E f, frames : Follows(f, frames)
  <2>1. <<>> \in Seq(MgrFrame) /\ \A i \in 1..Len(<<>>) : FALSE
    OBVIOUS
  <2>2. ASSUME NEW n \in Channel, Running(Promote(n)) PROVE Follows(Promote(n), <<>>)
    BY <1>3, <2>1, <2>2 DEF Pops, Promote
  <2>3. ASSUME NEW c \in Channel, NEW to \in FocusState, NEW by \in Channel \cup {Nobody},
               Running(Notify(c, to, by))
        PROVE  Follows(Notify(c, to, by), <<>>)
    BY <1>3, <2>1, <2>3 DEF Pops, Notify
  <2>4. ASSUME NEW c \in Channel, NEW to \in FocusState, NEW by \in Channel \cup {Nobody},
               Running(Set(c, to, by)), focus[c] = to
        PROVE  Follows(Set(c, to, by), <<>>)
    <3>1. Spares(Set(c, to, by)) => to # "BACKGROUND"
      BY DEF Set, Spares, Harmless
    <3>2. Set(c, to, by).ch = c
      BY FrameOps
    <3> QED BY <1>2, <1>3, <2>1, <2>4, <3>1, <3>2 DEF Pops
  <2> HIDE DEF Follows
  <2> QED BY <1>3, <2>2, <2>3, <2>4 DEF Pops
<1>4. ASSUME Continues PROVE \E f, frames : Follows(f, frames)
  <2>1. ASSUME NEW n \in Channel, Running(Release(n)), Expand(<<Set(n, "NONE", Nobody), Promote(n)>>)
        PROVE  Follows(Release(n), <<Set(n, "NONE", Nobody), Promote(n)>>)
    <3>1. \A i \in 1..Len(<<Set(n, "NONE", Nobody), Promote(n)>>) :
            LET f == <<Set(n, "NONE", Nobody), Promote(n)>>[i] IN ~Fills(f) /\ Spares(f)
      BY TwoPlaces DEF Set, Promote, Fills, Spares, Harmless
    <3>2. \A i \in 1..Len(<<Set(n, "NONE", Nobody), Promote(n)>>) :
            \A j \in 1..(i - 1) : j \in 1..Len(<<Set(n, "NONE", Nobody), Promote(n)>>)
      OBVIOUS
    <3>3. Release(n).op # "set"
      BY DEF Release
    <3> QED BY <2>1, <3>1, <3>2, <3>3, OthersTyped
  <2>2. ASSUME NEW n \in Channel, Running(Promote(n)), bg # Nobody, Expand(<<Set(bg, "FOREGROUND", n)>>)
        PROVE  Follows(Promote(n), <<Set(bg, "FOREGROUND", n)>>)
    <3>1. \A i \in 1..Len(<<Set(bg, "FOREGROUND", n)>>) :
            ~Fills(<<Set(bg, "FOREGROUND", n)>>[i]) /\ \A j \in 1..(i - 1) : FALSE
      BY OnePlace DEF Set, Fills
    <3>2. Promote(n).op # "set"
      BY DEF Promote
    <3> QED BY <2>2, <3>1, <3>2, OthersTyped
  <2>3. ASSUME NEW n \in Channel, Running(Demote(n)), fg # Nobody, Expand(<<Set(fg, "BACKGROUND", n)>>)
        PROVE  Follows(Demote(n), <<Set(fg, "BACKGROUND", n)>>)
    <3>1. \A i \in 1..Len(<<Set(fg, "BACKGROUND", n)>>) : \A j \in 1..(i - 1) : FALSE
      BY OnePlace
    <3>2. ~Spares(Demote(n)) /\ Fills(Demote(n)) /\ Demote(n).op # "set"
      BY DEF Demote, Spares, Harmless, Fills
    <3>3. bg = Nobody
      BY <2>3, <3>2, TopIsFirst DEF BackgroundInv, EmptiedFirst, TypeOK
    <3> QED BY <2>3, <3>1, <3>2, <3>3, OthersTyped
  <2>4. ASSUME NEW c \in Channel, NEW to \in FocusState, NEW by \in Channel \cup {Nobody},
               Running(Notify(c, to, by)), Expand(<<Release(c)>>)
        PROVE  Follows(Notify(c, to, by), <<Release(c)>>)
    <3>1. \A i \in 1..Len(<<Release(c)>>) :
            /\ ~Fills(<<Release(c)>>[i]) /\ Spares(<<Release(c)>>[i])
            /\ \A j \in 1..(i - 1) : FALSE
      BY OnePlace DEF Release, Fills, Spares, Harmless
    <3>2. Notify(c, to, by).op # "set"
      BY DEF Notify
    <3> QED BY <2>4, <3>1, <3>2, OthersTyped
  <2>5. ASSUME NEW c \in Channel, NEW d \in Channel, NEW by \in Channel \cup {Nobody},
               Running(Notify(c, "NONE", by)), <<c, d>> \in HandsOver, Expand(<<Acquire(d)>>)
        PROVE  Follows(Notify(c, "NONE", by), <<Acquire(d)>>)
    <3>1. \A i \in 1..Len(<<Acquire(d)>>) :
            ~Fills(<<Acquire(d)>>[i]) /\ \A j \in 1..(i - 1) : FALSE
      BY OnePlace DEF Acquire, Fills
    <3>2. ~Spares(Notify(c, "NONE", by))
      BY <2>5 DEF Notify, Spares, Harmless, Handers
    <3> QED BY <2>5, <3>1, <3>2, OthersTyped
  <2> HIDE DEF Follows
  <2> QED BY <1>4, <2>1, <2>2, <2>3, <2>4, <2>5 DEF Continues
<1> HIDE DEF Follows
<1> QED BY <1>1, <1>3, <1>4

\* _setChannelFocus fills the background only when nobody is there.
LEMMA WriteBackground ==
  ASSUME TypeOK, PointersMatchStates, HandersInv, BackgroundInv,
         NEW c \in Channel, NEW to \in FocusState, NEW by \in Channel \cup {Nobody}, Writes(c, to, by)
  PROVE  BackgroundInv'
<1> DEFINE f == Set(c, to, by)
           one == <<Notify(c, to, by)>>
<1>1. /\ Running(f) /\ f.op = "set" /\ f.ch = c /\ f.to = to
      /\ stack # <<>> /\ stack[1] = f /\ 1 \in 1..Len(stack)
  BY TopIsFirst, FrameOps DEF Writes, SetFocus, Running, TypeOK
<1>2. /\ one \in Seq(MgrFrame) /\ stack' = one \o Tail(stack)
      /\ \A i \in 1..Len(one) : one[i].op = "notify" /\ one[i].ch = c /\ one[i].to = to
  <2>1. \A i \in 1..Len(one) : one[i] = Notify(c, to, by)
    BY OnePlace
  <2> QED BY <2>1, OthersTyped DEF Writes, SetFocus, Notify
<1>3. /\ focus[c] # to
      /\ bg' = IF to = "BACKGROUND" THEN c
               ELSE IF bg = c /\ (fg # c \/ to = "FOREGROUND") THEN Nobody ELSE bg
      /\ focus' = [focus EXCEPT ![c] = to]
  BY DEF Writes, SetFocus
<1>5. c # Nobody /\ (bg = c => fg # c)
  BY ChannelAssumption DEF PointersMatchStates
<1> HIDE DEF f, one
<1>6. to = "BACKGROUND" => bg = Nobody
  BY <1>1 DEF BackgroundInv, EmptiedFirst, Fills
<1>7. BackgroundExact'
  <2> SUFFICES ASSUME NEW d \in Channel, focus'[d] = "BACKGROUND" PROVE bg' = d
    BY DEF BackgroundExact
  <2>1. CASE d = c
    BY <1>3, <2>1 DEF TypeOK, MgrTypeOK
  <2>2. CASE d # c
    <3>1. focus[d] = "BACKGROUND" /\ bg = d /\ d # Nobody
      BY <1>3, <2>2, ChannelAssumption DEF TypeOK, MgrTypeOK, BackgroundInv, BackgroundExact
    <3> QED BY <1>3, <1>6, <2>2, <3>1
  <2> QED BY <2>1, <2>2
<1>8. ASSUME NEW i \in 2..Len(stack), Fills(stack[i])
      PROVE  bg' = Nobody /\ Spares(Notify(c, to, by))
  <2>1. Spares(f) /\ (bg = Nobody \/ c = bg)
    <3>1. EmptiedFirst /\ stack \in Seq(MgrFrame)
      BY DEF BackgroundInv, TypeOK
    <3>2. Spares(f) /\ (bg = Nobody \/ (f.op = "set" /\ f.ch = bg))
      BY <1>1, <1>8, <3>1, FillersBelow
    <3> QED BY <1>1, <3>2
  <2>2. to # "BACKGROUND"
    BY <1>1, <2>1 DEF Spares, Harmless
  <2>3. bg' = Nobody
    BY <1>3, <1>5, <2>1, <2>2
  <2>4. to = "NONE" => c \notin Handers
    <3>1. SUFFICES ASSUME to = "NONE", c \in Handers PROVE FALSE
      OBVIOUS
    <3>2. fg = c
      BY <1>3, <3>1 DEF HandersInv, HandersInFront
    <3>3. i \in 1..Len(stack) /\ ~Harmless(stack[i])
      BY <1>1, <1>8 DEF Fills, Harmless
    <3>4. PICK n \in Channel :
            stack \in {<<Acquire(n)>>, <<Set(fg, "NONE", n), Acquire(n)>>,
                       <<Set(fg, "NONE", n), Set(n, "FOREGROUND", Nobody)>>}
      BY <3>1, <3>2, <3>3 DEF HandersInv, HanderToldFirst
    <3>5. \A j \in 1..Len(stack) : ~Fills(stack[j])
      BY <3>4, OnePlace, TwoPlaces DEF Fills, Acquire, Set
    <3> QED BY <1>8, <3>3, <3>5
  <2> QED BY <2>3, <2>4 DEF Spares, Harmless, Notify
<1>9. EmptiedFirst'
  <2>1. CASE \E i \in 2..Len(stack) : Fills(stack[i])
    <3>1. bg' = Nobody /\ \A i \in 1..Len(one) : Spares(one[i]) /\ ~Fills(one[i])
      BY <1>2, <1>8, <2>1 DEF Spares, Harmless, Fills, Notify
    <3> QED BY <1>1, <1>2, <3>1, EmptiedFirstKept DEF BackgroundInv, TypeOK
  <2>2. CASE \A i \in 2..Len(stack) : ~Fills(stack[i])
    <3>1. \A i \in 1..Len(stack') : ~Fills(stack'[i])
      BY <1>1, <1>2, <2>2, Places DEF Fills, TypeOK
    <3> QED BY <3>1 DEF EmptiedFirst, Fills
  <2> QED BY <2>1, <2>2
<1> QED BY <1>7, <1>9 DEF BackgroundInv

\* Every step keeps the background exact.
LEMMA StepBackground ==
  ASSUME TypeOK, PointersMatchStates, HandersInv, BackgroundInv, [Next]_vars
  PROVE  BackgroundInv'
<1>1. CASE User
  <2>1. PICK c \in Channel : AskFor(c) \/ GiveUp(c)
    BY <1>1 DEF User
  <2>2. (stack' = <<Acquire(c)>> \/ stack' = <<Release(c)>>) /\ bg' = bg /\ focus' = focus
    BY <2>1 DEF AskFor, GiveUp
  <2>3. EmptiedFirst'
    <3>1. PICK f : f \in {Acquire(c), Release(c)} /\ stack' = <<f>>
      BY <2>2
    <3>2. \A i \in 1..Len(stack') : stack'[i] = f
      BY <3>1, OnePlace
    <3>3. ~Fills(f)
      BY <3>1, FrameOps DEF Fills
    <3> QED BY <3>2, <3>3 DEF EmptiedFirst
  <2> QED BY <2>2, <2>3 DEF BackgroundInv, BackgroundExact
<1>2. CASE Run
  BY <1>2, RunCases, AcquireBackground, ContinueBackground, WriteBackground
<1>3. CASE UNCHANGED vars
  BY <1>3 DEF vars, BackgroundInv, BackgroundExact, EmptiedFirst, Fills, Spares, Harmless
<1> QED BY <1>1, <1>2, <1>3 DEF Next

(***************************************************************************)
(* Two channels are never in the background together, though listeners ask *)
(* for channels and give them up in the middle of calls: what would put a  *)
(* second one there finds the place emptied by the statement before it.    *)
(***************************************************************************)
THEOREM BackgroundStaysExclusive ==
  ASSUME HandersComeFirst
  PROVE  Spec => []SingleBackground
<1>1. Init => BackgroundInv
  BY DEF Init, MgrInit, BackgroundInv, BackgroundExact, EmptiedFirst
<1>2. TypeOK /\ PointersMatchStates /\ HandersInv /\ BackgroundInv /\ [Next]_vars => BackgroundInv'
  BY StepBackground
<1>3. BackgroundInv => SingleBackground
  BY DEF BackgroundInv, BackgroundExact, SingleBackground
<1>4. QED
  BY <1>1, <1>2, <1>3, TypeCorrect, PointersAreRight, HandersAreTold, PTL DEF Spec

-------------------------------------------------------------------------------
(***************************************************************************)
(* What has been asked for is granted.                                     *)
(***************************************************************************)
\* What is put on top of the stack leaves the last thing of the call as it is.
LEMMA PendingKept ==
  ASSUME GrantPending, stack \in Seq(MgrFrame), asked' = asked,
         NEW frames \in Seq(MgrFrame), stack' = frames \o Tail(stack),
         Len(stack) # 1
           \/ /\ frames # <<>>
              /\ frames[Len(frames)] \in {Acquire(asked), Set(asked, "FOREGROUND", Nobody),
                                          Set(asked, "BACKGROUND", Nobody)}
  PROVE  GrantPending'
<1>1. /\ stack # <<>> /\ Len(stack) \in Nat /\ Len(stack) >= 1 /\ Len(frames) \in Nat
      /\ stack' \in Seq(MgrFrame) /\ Len(stack') = Len(frames) + Len(stack) - 1
  <2>1. Len(stack) \in Nat /\ Len(stack) # 0
    BY EmptySeq DEF GrantPending
  <2> QED BY <2>1, Places DEF GrantPending
<1>2. frames # <<>> => Len(frames) >= 1
  BY EmptySeq
<1>3. CASE Len(stack) # 1
  <2>1. Len(stack') \in 1..Len(stack') /\ Len(stack') > Len(frames)
    <3>1. Len(stack) >= 2
      <4>1. \A k \in Nat : k >= 1 /\ k # 1 => k >= 2
        OBVIOUS
      <4> QED BY <1>1, <1>3, <4>1, Zenon
    <3>2. Len(stack') \in Nat /\ Len(stack') >= 1 /\ Len(stack') > Len(frames)
      BY <1>1, <3>1
    <3> QED BY <3>2
  <2>2. stack'[Len(stack')] = stack[Len(stack') - Len(frames) + 1]
    <3>1. ~(Len(stack') \in 1..Len(frames))
      BY <1>1, <2>1
    <3> QED BY <1>1, <2>1, <3>1, Places
  <2>3. Len(stack') - Len(frames) + 1 = Len(stack)
    BY <1>1
  <2>4. stack' # <<>>
    BY <1>1, <2>1
  <2> QED BY <2>2, <2>3, <2>4 DEF GrantPending, Acquire, Set
<1>4. CASE Len(stack) = 1 /\ frames # <<>>
  <2>1. Len(stack') = Len(frames) /\ Len(stack') \in 1..Len(stack') /\ stack' # <<>>
    BY <1>1, <1>2, <1>4
  <2>2. stack'[Len(stack')] = frames[Len(frames)]
    BY <1>1, <2>1, Places
  <2> QED BY <1>4, <2>1, <2>2 DEF GrantPending, Acquire, Set
<1> QED BY <1>3, <1>4

\* Frames that leave the channel alone, on frames that do.
LEMMA LeavesKept ==
  ASSUME stack \in Seq(MgrFrame), stack # <<>>, \A i \in 1..Len(stack) : Leaves(stack[i]),
         NEW frames \in Seq(MgrFrame), stack' = frames \o Tail(stack),
         \A i \in 1..Len(frames) : Leaves(frames[i])
  PROVE  \A i \in 1..Len(stack') : Leaves(stack'[i])
<1> SUFFICES ASSUME NEW i \in 1..Len(stack') PROVE Leaves(stack'[i])
  OBVIOUS
<1>1. CASE i \in 1..Len(frames) /\ stack'[i] = frames[i]
  BY <1>1
<1>2. CASE /\ i - Len(frames) + 1 \in 2..Len(stack)
           /\ stack'[i] = stack[i - Len(frames) + 1]
  <2>1. i - Len(frames) + 1 \in 1..Len(stack)
    BY <1>2
  <2> QED BY <1>2, <2>1
<1> QED BY <1>1, <1>2, Places

\* When a slot is about to be given to a channel, no channel that hands over has the focus.
LEMMA HandersSilent ==
  ASSUME TypeOK, HandersInv, NEW f, Running(f), f.op = "set", f.to # "NONE"
  PROVE  \A h \in Handers : focus[h] = "NONE"
<1>1. ~Harmless(f) /\ \A n \in Channel : f # Acquire(n) /\ f # Set(fg, "NONE", n)
  BY DEF Harmless, Acquire, Set
<1>2. fg \notin Handers
  BY <1>1, TopWithHander DEF HandersInv
<1> QED BY <1>2 DEF HandersInv, HandersInFront

\* Every branch of acquireChannel ends by granting, if a channel captures from all that are
\* more important.
LEMMA BranchGrants ==
  ASSUME TypeOK, CapturesMoreImportant, NEW n \in Channel, NEW frames, Branch(n, frames)
  PROVE  /\ frames # <<>>
         /\ frames[Len(frames)] \in {Acquire(n), Set(n, "FOREGROUND", Nobody), Set(n, "BACKGROUND", Nobody)}
<1>1. ~(fg # Nobody /\ fg \notin CaptureOn[n] /\ Priority[n] > Priority[fg])
  <2> SUFFICES ASSUME fg # Nobody, Priority[n] > Priority[fg] PROVE fg \in CaptureOn[n]
    OBVIOUS
  <2>1. fg \in Channel /\ Priority[n] \in Nat /\ Priority[fg] \in Nat
    BY ChannelAssumption DEF TypeOK, MgrTypeOK
  <2>2. Priority[fg] < Priority[n]
    BY <2>1
  <2> QED BY <2>1, <2>2 DEF CapturesMoreImportant
<1>2. \A a, b, c : /\ <<a>> # <<>> /\ <<a>>[Len(<<a>>)] = a
                   /\ <<a, b>> # <<>> /\ <<a, b>>[Len(<<a, b>>)] = b
                   /\ <<a, b, c>> # <<>> /\ <<a, b, c>>[Len(<<a, b, c>>)] = c
  OBVIOUS
<1>3. \/ \E a : frames = <<a, Acquire(n)>>
      \/ \E a : frames = <<a, Set(n, "FOREGROUND", Nobody)>> \/ frames = <<a, Set(n, "BACKGROUND", Nobody)>>
      \/ \E a, b : frames = <<a, b, Set(n, "FOREGROUND", Nobody)>>
      \/ frames = <<Set(n, "FOREGROUND", Nobody)>>
  BY <1>1, Zenon DEF Branch
<1>4. ASSUME NEW a, NEW f, frames = <<a, f>>
      PROVE  frames # <<>> /\ frames[Len(frames)] = f
  BY <1>2, <1>4
<1>5. ASSUME NEW a, NEW b, NEW f, frames = <<a, b, f>>
      PROVE  frames # <<>> /\ frames[Len(frames)] = f
  BY <1>2, <1>5
<1>6. ASSUME NEW f, frames = <<f>>
      PROVE  frames # <<>> /\ frames[Len(frames)] = f
  BY <1>2, <1>6
<1> QED BY <1>3, <1>4, <1>5, <1>6

\* The frames Continues replaces.
LEMMA ContinueTop ==
  ASSUME Continues
  PROVE  \E f : Running(f) /\ f.op \in {"release", "promote", "demote", "notify"}
<1>1. \A n, to, by : /\ Release(n).op = "release" /\ Promote(n).op = "promote"
                     /\ Demote(n).op = "demote" /\ Notify(n, to, by).op = "notify"
  BY DEF Release, Promote, Demote, Notify
<1>2. \/ \E n \in Channel : Running(Release(n)) \/ Running(Promote(n)) \/ Running(Demote(n))
      \/ \E c, to, by : Running(Notify(c, to, by))
  BY DEF Continues
<1> QED BY <1>1, <1>2

\* A step of a call that is to end in a grant brings it nearer, or grants.
LEMMA PendingStep ==
  ASSUME HandersComeFirst, CapturesMoreImportant, TypeOK, PointersMatchStates, HandersInv,
         asked \in Channel, GrantPending, Run
  PROVE  GrantPending' \/ GrantKept'
<1> DEFINE Grants(n) == {Acquire(n), Set(n, "FOREGROUND", Nobody), Set(n, "BACKGROUND", Nobody)}
<1>1. stack \in Seq(MgrFrame) /\ asked' = asked
  BY DEF TypeOK, Run
<1>2. ASSUME NEW f, Running(f), Len(stack) = 1
      PROVE  f \in Grants(asked)
  BY <1>1, <1>2, TopIsFirst DEF GrantPending
<1>3. \A f \in Grants(asked) : f.op \in {"acquire", "set"} /\ f.ch = asked /\ (f.op = "set" => f.to # "NONE")
  BY DEF Acquire, Set
<1>4. Len(stack) = 1 => Tail(stack) = <<>>
  <2>1. stack # <<>>
    BY DEF GrantPending
  <2>2. Tail(stack) \in Seq(MgrFrame) /\ Len(Tail(stack)) = Len(stack) - 1
    BY <1>1, <2>1, HeadTailProperties
  <2>3. Len(Tail(stack)) = 0 => Tail(stack) = <<>>
    BY <2>2, EmptySeq
  <2> QED BY <2>2, <2>3
<1> HIDE DEF Grants
<1>5. ASSUME NEW n \in Channel, Running(Acquire(n)), NEW frames, Branch(n, frames), Expand(frames)
      PROVE  GrantPending'
  <2>1. frames \in Seq(MgrFrame) /\ frames # <<>> /\ frames[Len(frames)] \in Grants(n)
    BY <1>5, BranchTyped, BranchGrants DEF Grants
  <2>2. Len(stack) = 1 => n = asked
    BY <1>2, <1>3, <1>5 DEF Acquire
  <2> QED BY <1>1, <1>5, <2>1, <2>2, PendingKept DEF Expand, Grants
<1>6. ASSUME Pops PROVE GrantPending' \/ GrantKept'
  <2>1. <<>> \in Seq(MgrFrame) /\ stack' = <<>> \o Tail(stack) /\ focus' = focus
    BY <1>6 DEF Pops, Expand
  <2>2. CASE Len(stack) # 1
    BY <1>1, <2>1, <2>2, PendingKept
  <2>3. CASE Len(stack) = 1
    <3>1. PICK c \in Channel, to \in FocusState, by \in Channel \cup {Nobody} :
            Running(Set(c, to, by)) /\ focus[c] = to
      <4>1. \A n \in Channel : ~Running(Promote(n))
        BY <1>2, <1>3, <2>3 DEF Promote
      <4>2. \A c \in Channel, to \in FocusState, by \in Channel \cup {Nobody} : ~Running(Notify(c, to, by))
        BY <1>2, <1>3, <2>3 DEF Notify
      <4> QED BY <1>6, <4>1, <4>2 DEF Pops
    <3>2. /\ Set(c, to, by).op = "set" /\ Set(c, to, by).ch = c /\ Set(c, to, by).to = to
      BY FrameOps
    <3>3. c = asked /\ to # "NONE"
      BY <1>2, <1>3, <2>3, <3>1, <3>2
    <3>4. \A h \in Handers : focus[h] = "NONE"
      BY <3>1, <3>2, <3>3, HandersSilent
    <3>5. stack' = <<>> /\ \A i \in 1..Len(stack') : FALSE
      BY <1>4, <2>1, <2>3, ConcatEmptySeq
    <3>6. Handers' = Handers
      BY DEF Handers
    <3> QED BY <1>1, <2>1, <3>1, <3>3, <3>4, <3>5, <3>6 DEF GrantKept
  <2> QED BY <2>2, <2>3
<1>7. ASSUME Continues PROVE GrantPending'
  <2>1. PICK frames \in Seq(MgrFrame) : Expand(frames)
    BY <1>7, ContinueFrames
  <2>2. Len(stack) # 1
    BY <1>2, <1>3, <1>7, ContinueTop
  <2> QED BY <1>1, <2>1, <2>2, PendingKept DEF Expand
<1>8. ASSUME NEW c \in Channel, NEW to \in FocusState, NEW by \in Channel \cup {Nobody}, Writes(c, to, by)
      PROVE  GrantPending' \/ GrantKept'
  <2>1. /\ <<Notify(c, to, by)>> \in Seq(MgrFrame) /\ stack' = <<Notify(c, to, by)>> \o Tail(stack)
        /\ focus' = [focus EXCEPT ![c] = to] /\ Running(Set(c, to, by))
    BY <1>8, OthersTyped DEF Writes, SetFocus
  <2>2. CASE Len(stack) # 1
    BY <1>1, <2>1, <2>2, PendingKept
  <2>3. CASE Len(stack) = 1
    <3>2. /\ Set(c, to, by).op = "set" /\ Set(c, to, by).ch = c /\ Set(c, to, by).to = to
      BY FrameOps
    <3>3. c = asked /\ to # "NONE"
      BY <1>2, <1>3, <2>1, <2>3, <3>2
    <3>4. \A h \in Handers : focus[h] = "NONE"
      BY <2>1, <3>2, <3>3, HandersSilent
    <3>5. stack' = <<Notify(c, to, by)>>
      BY <1>4, <2>1, <2>3, ConcatEmptySeq
    <3>6. Leaves(Notify(c, to, by)) /\ Handers' = Handers
      BY <3>3 DEF Leaves, Handers, Notify
    <3>7. \A i \in 1..Len(stack') : stack'[i] = Notify(c, to, by)
      BY <3>5, OnePlace
    <3>8. \A i \in 1..Len(stack') : Leaves(stack'[i])
      BY <3>6, <3>7
    <3>9. focus'[asked] # "NONE" /\ \A h \in Handers \ {asked} : focus'[h] = "NONE"
      BY <1>1, <2>1, <3>3, <3>4 DEF TypeOK, MgrTypeOK, Handers
    <3> QED BY <1>1, <3>6, <3>8, <3>9 DEF GrantKept, Leaves, Handers
  <2> QED BY <2>2, <2>3
<1> QED BY <1>5, <1>6, <1>7, <1>8, RunCases

\* What has been granted is left alone until the next call from outside.
LEMMA KeptStep ==
  ASSUME HandersComeFirst, TypeOK, PointersMatchStates, HandersInv,
         asked \in Channel, asked \notin GivesUp, GrantKept, Run
  PROVE  GrantKept'
<1>1. stack \in Seq(MgrFrame) /\ asked' = asked
  BY DEF TypeOK, Run
<1>2. ASSUME NEW f, Running(f) PROVE Leaves(f) /\ stack # <<>>
  BY <1>1, <1>2, TopIsFirst DEF GrantKept, Running
<1>3. ASSUME NEW frames \in Seq(MgrFrame), stack' = frames \o Tail(stack), stack # <<>>,
             \A i \in 1..Len(frames) : Leaves(frames[i]),
             focus'[asked] # "NONE", \A h \in Handers \ {asked} : focus'[h] = "NONE"
      PROVE  GrantKept'
  <2>1. \A i \in 1..Len(stack') : Leaves(stack'[i])
    BY <1>1, <1>3, LeavesKept DEF GrantKept
  <2> QED BY <1>1, <1>3, <2>1 DEF GrantKept, Handers, Leaves
<1>4. ASSUME NEW frames \in Seq(MgrFrame), Expand(frames), stack # <<>>,
             \A i \in 1..Len(frames) : Leaves(frames[i])
      PROVE  GrantKept'
  BY <1>3, <1>4 DEF Expand, GrantKept
<1>5. ASSUME NEW n \in Channel, Running(Acquire(n)) PROVE FALSE
  BY <1>2, <1>5 DEF Leaves, Acquire
<1>6. CASE Pops
  <2>1. <<>> \in Seq(MgrFrame) /\ \A i \in 1..Len(<<>>) : FALSE
    OBVIOUS
  <2> QED BY <1>4, <1>6, <2>1 DEF Pops, Running
<1>7. CASE Continues
  <2>1. ASSUME NEW n \in Channel, Running(Release(n)), Expand(<<Set(n, "NONE", Nobody), Promote(n)>>)
        PROVE  GrantKept'
    <3>1. n # asked
      BY <1>2, <2>1 DEF Leaves, Release
    <3>2. \A i \in 1..Len(<<Set(n, "NONE", Nobody), Promote(n)>>) :
            Leaves(<<Set(n, "NONE", Nobody), Promote(n)>>[i])
      BY <3>1, TwoPlaces DEF Leaves, Set, Promote
    <3> QED BY <1>4, <2>1, <3>2, OthersTyped DEF Running
  <2>2. ASSUME NEW n \in Channel, Running(Promote(n)), bg # Nobody, Expand(<<Set(bg, "FOREGROUND", n)>>)
        PROVE  GrantKept'
    <3>1. bg \notin Handers
      BY <2>2, BackgroundIsPlain DEF HandersInv
    <3>2. \A i \in 1..Len(<<Set(bg, "FOREGROUND", n)>>) : Leaves(<<Set(bg, "FOREGROUND", n)>>[i])
      BY <3>1, OnePlace DEF Leaves, Set
    <3> QED BY <1>4, <2>2, <3>2, OthersTyped DEF Running
  <2>3. ASSUME NEW n \in Channel, Running(Demote(n)) PROVE FALSE
    BY <1>2, <2>3 DEF Leaves, Demote
  <2>4. ASSUME NEW c \in Channel, NEW to \in FocusState, NEW by \in Channel \cup {Nobody},
               Running(Notify(c, to, by)), c \in GivesUp, Expand(<<Release(c)>>)
        PROVE  GrantKept'
    <3>1. \A i \in 1..Len(<<Release(c)>>) : Leaves(<<Release(c)>>[i])
      BY <2>4, OnePlace DEF Leaves, Release
    <3> QED BY <1>4, <2>4, <3>1, OthersTyped DEF Running
  <2>5. ASSUME NEW c \in Channel, NEW d \in Channel, NEW by \in Channel \cup {Nobody},
               Running(Notify(c, "NONE", by)), <<c, d>> \in HandsOver
        PROVE  FALSE
    BY <1>2, <2>5 DEF Leaves, Notify, Handers
  <2> QED BY <1>7, <2>1, <2>2, <2>3, <2>4, <2>5 DEF Continues
<1>8. ASSUME NEW c \in Channel, NEW to \in FocusState, NEW by \in Channel \cup {Nobody}, Writes(c, to, by)
      PROVE  GrantKept'
  <2>1. /\ <<Notify(c, to, by)>> \in Seq(MgrFrame) /\ stack' = <<Notify(c, to, by)>> \o Tail(stack)
        /\ focus[c] # to /\ focus' = [focus EXCEPT ![c] = to] /\ Running(Set(c, to, by))
    BY <1>8, OthersTyped DEF Writes, SetFocus
  <2>2. \/ to = "NONE" /\ c # asked
        \/ to # "NONE" /\ (c = asked \/ c \notin Handers)
    BY <1>2, <2>1 DEF Leaves, Set
  <2>3. focus'[asked] # "NONE" /\ \A h \in Handers \ {asked} : focus'[h] = "NONE"
    BY <2>1, <2>2 DEF GrantKept, TypeOK, MgrTypeOK, Handers
  <2>4. to = "NONE" => c \notin Handers
    BY <2>1, <2>2 DEF GrantKept
  <2>5. \A i \in 1..Len(<<Notify(c, to, by)>>) : Leaves(<<Notify(c, to, by)>>[i])
    BY <2>4, OnePlace DEF Leaves, Notify
  <2> QED BY <1>2, <1>3, <2>1, <2>3, <2>5
<1> QED BY <1>5, <1>6, <1>7, <1>8, RunCases

\* Every step keeps what RequestGranted rests on.
LEMMA StepGrant ==
  ASSUME HandersComeFirst, CapturesMoreImportant, TypeOK, PointersMatchStates, HandersInv,
         GrantInv, asked \in Channel \cup {Nobody}, [Next]_vars
  PROVE  GrantInv'
<1>1. ASSUME NEW c \in Channel, AskFor(c) PROVE GrantInv'
  <2>1. stack' = <<Acquire(c)>> /\ asked' = c
    BY <1>1 DEF AskFor
  <2>2. stack' # <<>> /\ stack'[Len(stack')] = Acquire(c)
    BY <2>1
  <2> QED BY <2>1, <2>2 DEF GrantInv, GrantPending, Acquire
<1>2. ASSUME NEW c \in Channel, GiveUp(c), asked' # Nobody, asked' \notin GivesUp PROVE GrantKept'
  <2>1. stack' = <<Release(c)>> /\ asked' = asked /\ asked # c /\ focus' = focus /\ stack = <<>>
    BY <1>2 DEF GiveUp
  <2>2. GrantKept
    BY <1>2, <2>1 DEF GrantInv, GrantPending
  <2>3. \A i \in 1..Len(stack') : Leaves(stack'[i])
    BY <2>1, OnePlace DEF Leaves, Release
  <2> QED BY <2>1, <2>2, <2>3 DEF GrantKept, Handers, Leaves
<1>3. CASE Run
  <2> SUFFICES ASSUME asked' # Nobody, asked' \notin GivesUp PROVE GrantPending' \/ GrantKept'
    BY DEF GrantInv
  <2>1. asked' = asked /\ asked \in Channel
    BY <1>3 DEF Run
  <2>2. asked # Nobody /\ asked \notin GivesUp
    BY <2>1
  <2> QED BY <1>3, <2>1, <2>2, PendingStep, KeptStep DEF GrantInv
<1>4. CASE UNCHANGED vars
  BY <1>4 DEF vars, GrantInv, GrantPending, GrantKept, Leaves, Handers, Acquire, Set
<1> QED BY <1>1, <1>2, <1>3, <1>4 DEF Next, User, GrantInv

(***************************************************************************)
(* A request is granted, though listeners hand channels over and give them *)
(* up in the middle of the call: acquireChannel(c) returns with c in a     *)
(* slot, and c is there until another channel is asked for, unless it is   *)
(* a channel that its own listener may give up.                            *)
(***************************************************************************)
THEOREM RequestsAreGranted ==
  ASSUME HandersComeFirst, CapturesMoreImportant
  PROVE  Spec => []RequestGranted
<1> DEFINE GInv == GrantInv /\ asked \in Channel \cup {Nobody}
<1>1. Init => GInv
  BY DEF Init, GrantInv
<1>2. TypeOK /\ PointersMatchStates /\ HandersInv /\ GInv /\ [Next]_vars => GInv'
  <2> SUFFICES ASSUME TypeOK, PointersMatchStates, HandersInv, GInv, [Next]_vars PROVE GInv'
    OBVIOUS
  <2>1. GrantInv'
    BY StepGrant
  <2>2. asked' \in Channel \cup {Nobody}
    BY DEF Next, User, AskFor, GiveUp, Run, vars
  <2> QED BY <2>1, <2>2
<1>3. GInv => RequestGranted
  BY DEF GrantInv, GrantPending, GrantKept, RequestGranted, Idle
<1> HIDE DEF GInv
<1>4. QED
  BY <1>1, <1>2, <1>3, TypeCorrect, PointersAreRight, HandersAreTold, PTL DEF Spec

-------------------------------------------------------------------------------
(***************************************************************************)
(* The table and the listeners of the source.                              *)
(***************************************************************************)
SourceTable ==
  /\ Channel = EvsChannel /\ Priority = EvsPriority /\ CaptureOn = EvsCaptureOn
  /\ HandsOver = EvsHandsOver /\ GivesUp = EvsGivesUp

\* In the table of the EVSAudioMgr constructor only TTS hands over, nobody is more important,
\* and every channel captures those that are more important.
LEMMA SourceTableConditions ==
  ASSUME SourceTable
  PROVE  HandersComeFirst /\ CapturesMoreImportant
<1>1. Handers = {"TTS"} /\ \A d \in Channel : <<"TTS", d>> \in HandsOver => d \notin {"TTS"}
  BY DEF SourceTable, Handers, EvsHandsOver, EvsChannel
<1>2. /\ Priority["AIP"] = 30 /\ Priority["ALERT"] = 40 /\ Priority["CONTENT"] = 50
      /\ Priority["TTS"] = 10 /\ Priority["LOCAL"] = 10
  BY DEF SourceTable, EvsPriority, EvsChannel
<1>3. /\ CaptureOn["AIP"] = {"TTS", "LOCAL", "ALERT"}
      /\ CaptureOn["ALERT"] = {"TTS", "LOCAL", "AIP"}
      /\ CaptureOn["CONTENT"] = {"ALERT", "TTS", "LOCAL", "AIP"}
  BY DEF SourceTable, EvsCaptureOn, EvsChannel
<1>4. Channel = {"AIP", "TTS", "ALERT", "CONTENT", "LOCAL"}
  BY DEF SourceTable, EvsChannel
<1>5. CapturesMoreImportant
  BY <1>2, <1>3, <1>4 DEF CapturesMoreImportant
<1>6. HandersComeFirst
  BY <1>1, <1>2, <1>3, <1>4 DEF HandersComeFirst
<1> QED BY <1>5, <1>6

(***************************************************************************)
(* With the table and the listeners of the source every request is granted *)
(* and the background holds one channel, callbacks included.               *)
(***************************************************************************)
THEOREM SourceTableGrants ==
  ASSUME SourceTable
  PROVE  Spec => [](RequestGranted /\ SingleBackground)
<1>1. HandersComeFirst /\ CapturesMoreImportant
  BY SourceTableConditions
<1>2. (Spec => []RequestGranted) /\ (Spec => []SingleBackground)
  BY <1>1, RequestsAreGranted, BackgroundStaysExclusive
<1>3. QED
  BY <1>2, PTL
===============================================================================
