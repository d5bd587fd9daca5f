--------------------------- MODULE AudioFocusProofs ---------------------------
(***************************************************************************)
(* Proofs about the audio channel manager, for any set of channels, any    *)
(* priorities and any captures.                                            *)
(***************************************************************************)
EXTENDS AudioFocus, SequenceTheorems, TLAPS

-------------------------------------------------------------------------------
(***************************************************************************)
(* The call stack.                                                         *)
(***************************************************************************)

\* A frame put on top of a stack is the head of the new stack, the stack its tail.
LEMMA PushFrame ==
  ASSUME NEW S, NEW f \in S, NEW s \in Seq(S)
  PROVE  /\ <<f>> \o s \in Seq(S)
         /\ <<f>> \o s # <<>>
         /\ Head(<<f>> \o s) = f
         /\ Tail(<<f>> \o s) = s
<1>1. <<f>> \in Seq(S)
  OBVIOUS
<1>2. <<f>> \o s \in Seq(S) /\ Len(<<f>> \o s) = 1 + Len(s)
  BY <1>1, ConcatProperties
<1>3. Head(<<f>> \o s) = f
  BY <1>1, <1>2, ConcatProperties
<1>4. Len(s) \in Nat /\ Len(<<f>> \o s) # 0
  BY <1>2
<1>5. Tail(<<f>> \o s) \in Seq(S) /\ Len(Tail(<<f>> \o s)) = Len(s)
  BY <1>2, <1>4, HeadTailProperties
<1>6. ASSUME NEW i \in 1 .. Len(s) PROVE Tail(<<f>> \o s)[i] = s[i]
  BY <1>1, <1>2, <1>4, <1>5, ConcatProperties, HeadTailProperties
<1>7. QED
  BY <1>2, <1>3, <1>4, <1>5, <1>6, SeqEqual

\* Two frames, one after the other.
LEMMA ConcatSingle ==
  ASSUME NEW a, NEW b
  PROVE  <<a>> \o <<b>> = <<a, b>>
<1> DEFINE S == {a, b}
<1>1. <<a>> \in Seq(S) /\ <<b>> \in Seq(S) /\ <<a, b>> \in Seq(S)
  OBVIOUS
<1> HIDE DEF S
<1>2. <<a>> \o <<b>> \in Seq(S) /\ Len(<<a>> \o <<b>>) = 2
  BY <1>1, ConcatProperties
<1>3. \A i \in 1 .. 2 : (<<a>> \o <<b>>)[i] = <<a, b>>[i]
  BY <1>1, ConcatProperties
<1>4. QED
  BY <1>1, <1>2, <1>3, SeqEqual

\* Every frame the manager builds is a frame.
LEMMA FrameType ==
  ASSUME NEW c \in Channel, NEW to \in FocusState, NEW by \in Channel \cup {Nobody}
  PROVE  /\ Acquire(c) \in MgrFrame
         /\ Release(c) \in MgrFrame
         /\ Demote(c) \in MgrFrame
         /\ Promote(c) \in MgrFrame
         /\ Set(c, to, by) \in MgrFrame
         /\ Notify(c, to, by) \in MgrFrame
BY DEF MgrFrame

-------------------------------------------------------------------------------
(***************************************************************************)
(* Type correctness and the pointers, whatever the listeners do.           *)
(***************************************************************************)

\* Frames of the right type in place of the frame on top keep the stack typed.
LEMMA ExpandType ==
  ASSUME TypeOK, stack # <<>>, NEW frames \in Seq(MgrFrame), Expand(frames), calm' \in BOOLEAN
  PROVE  TypeOK'
<1>1. Tail(stack) \in Seq(MgrFrame)
  BY HeadTailProperties DEF TypeOK
<1>2. frames \o Tail(stack) \in Seq(MgrFrame)
  BY <1>1, ConcatProperties
<1>3. QED
  BY <1>2 DEF TypeOK, MgrTypeOK, Expand

\* One frame of the manager keeps the types.
LEMMA MgrStepType ==
  ASSUME TypeOK, MgrStep, calm' = calm
  PROVE  TypeOK'
<1> USE ChannelAssumption
<1>a. {"NONE", "FOREGROUND", "BACKGROUND"} \subseteq FocusState
  BY DEF FocusState
<1>c. calm' \in BOOLEAN
  BY DEF TypeOK
<1>1. ASSUME NEW n \in Channel, AcquireCapturing(n)
      PROVE  TypeOK'
  <2>1. <<Set(fg, "NONE", n), Acquire(n)>> \in Seq(MgrFrame)
    BY <1>1, <1>a, FrameType DEF AcquireCapturing, TypeOK, MgrTypeOK
  <2>2. QED
    BY <1>1, <2>1, <1>c, ExpandType DEF AcquireCapturing, Running
<1>2. ASSUME NEW n \in Channel, AcquireFromEqual(n)
      PROVE  TypeOK'
  <2>1. <<Set(fg, "NONE", n), Set(n, "FOREGROUND", Nobody)>> \in Seq(MgrFrame)
    BY <1>2, <1>a, FrameType DEF AcquireFromEqual, TypeOK, MgrTypeOK
  <2>2. QED
    BY <1>2, <2>1, <1>c, ExpandType DEF AcquireFromEqual, Running
<1>3. ASSUME NEW n \in Channel, AcquireOverForeground(n)
      PROVE  TypeOK'
  <2>1. <<Demote(n), Set(n, "FOREGROUND", Nobody)>> \in Seq(MgrFrame)
    BY <1>a, FrameType
  <2>2. bg # Nobody =>
          <<Set(bg, "NONE", n), Demote(n), Set(n, "FOREGROUND", Nobody)>> \in Seq(MgrFrame)
    BY <1>a, FrameType DEF TypeOK, MgrTypeOK
  <2>3. QED
    BY <1>3, <2>1, <2>2, <1>c, ExpandType DEF AcquireOverForeground, Running
<1>4. ASSUME NEW n \in Channel, AcquireBehindForeground(n)
      PROVE  TypeOK'
  <2>1. <<>> \in Seq(MgrFrame) /\ <<Set(n, "BACKGROUND", Nobody)>> \in Seq(MgrFrame)
    BY <1>a, FrameType
  <2>2. bg # Nobody => <<Set(bg, "NONE", n), Set(n, "BACKGROUND", Nobody)>> \in Seq(MgrFrame)
    BY <1>a, FrameType DEF TypeOK, MgrTypeOK
  <2>3. QED
    BY <1>4, <2>1, <2>2, <1>c, ExpandType DEF AcquireBehindForeground, Running
<1>5. ASSUME NEW n \in Channel, AcquireWithBackground(n)
      PROVE  TypeOK'
  <2>1. <<Set(n, "FOREGROUND", Nobody)>> \in Seq(MgrFrame)
    BY <1>a, FrameType
  <2>2. bg # Nobody =>
          /\ <<Set(bg, "NONE", n), Set(n, "FOREGROUND", Nobody)>> \in Seq(MgrFrame)
          /\ <<Set(bg, "FOREGROUND", n), Set(n, "BACKGROUND", Nobody)>> \in Seq(MgrFrame)
    BY <1>a, FrameType DEF TypeOK, MgrTypeOK
  <2>3. QED
    BY <1>5, <2>1, <2>2, <1>c, ExpandType DEF AcquireWithBackground, Running
<1>6. ASSUME NEW n \in Channel, AcquireIdle(n)
      PROVE  TypeOK'
  <2>1. <<Set(n, "FOREGROUND", Nobody)>> \in Seq(MgrFrame)
    BY <1>a, FrameType
  <2>2. QED
    BY <1>6, <2>1, <1>c, ExpandType DEF AcquireIdle, Running
<1>7. ASSUME NEW n \in Channel, ReleaseFocus(n)
      PROVE  TypeOK'
  <2>1. <<Set(n, "NONE", Nobody), Promote(n)>> \in Seq(MgrFrame)
    BY <1>a, FrameType
  <2>2. QED
    BY <1>7, <2>1, <1>c, ExpandType DEF ReleaseFocus, Running
<1>8. ASSUME NEW n \in Channel, PromoteBackground(n)
      PROVE  TypeOK'
  <2>1. (IF fg = Nobody /\ bg # Nobody THEN <<Set(bg, "FOREGROUND", n)>> ELSE <<>>)
          \in Seq(MgrFrame)
    BY <1>a, FrameType DEF TypeOK, MgrTypeOK
  <2>2. QED
    BY <1>8, <2>1, <1>c, ExpandType DEF PromoteBackground, Running
<1>9. ASSUME NEW n \in Channel, DemoteForeground(n)
      PROVE  TypeOK'
  <2>1. <<Set(fg, "BACKGROUND", n)>> \in Seq(MgrFrame)
    BY <1>9, <1>a, FrameType DEF DemoteForeground, TypeOK, MgrTypeOK
  <2>2. QED
    BY <1>9, <2>1, <1>c, ExpandType DEF DemoteForeground, Running
<1>10. ASSUME NEW c \in Channel, NEW to \in FocusState, NEW by \in Channel \cup {Nobody},
              SetFocus(c, to, by)
       PROVE  TypeOK'
  <2>1. CASE focus[c] = to
    <3>1. <<>> \in Seq(MgrFrame)
      OBVIOUS
    <3>2. QED
      BY <1>10, <2>1, <3>1, <1>c, ExpandType DEF SetFocus, Running
  <2>2. CASE focus[c] # to
    <3>1. Tail(stack) \in Seq(MgrFrame)
      BY <1>10, HeadTailProperties DEF SetFocus, Running, TypeOK
    <3>2. Notify(c, to, by) \in MgrFrame
      BY <1>10, FrameType
    <3>3. <<Notify(c, to, by)>> \o Tail(stack) \in Seq(MgrFrame)
      BY <3>1, <3>2, PushFrame
    <3>4. QED
      BY <1>10, <1>c, <2>2, <3>3 DEF SetFocus, TypeOK, MgrTypeOK
  <2>3. QED
    BY <2>1, <2>2
<1>11. QED
  BY <1>1, <1>2, <1>3, <1>4, <1>5, <1>6, <1>7, <1>8, <1>9, <1>10 DEF MgrStep

\* One listener keeps the types.
LEMMA ListenerType ==
  ASSUME TypeOK, Listener
  PROVE  TypeOK'
<1>c. calm' \in BOOLEAN
  BY Zenon DEF Listener, ListenerReturns, ListenerGivesUp, ListenerHandsOver, CallsBack, TypeOK
<1>1. ASSUME NEW c \in Channel, NEW by \in Channel \cup {Nobody}, NEW to \in FocusState,
             ListenerReturns(c, to, by)
      PROVE  TypeOK'
  <2>1. <<>> \in Seq(MgrFrame)
    OBVIOUS
  <2>2. QED
    BY <1>1, <2>1, <1>c, ExpandType DEF ListenerReturns, Running
<1>2. ASSUME NEW c \in Channel, NEW by \in Channel \cup {Nobody}, NEW to \in FocusState,
             ListenerGivesUp(c, to, by)
      PROVE  TypeOK'
  <2>1. <<Release(c)>> \in Seq(MgrFrame)
    BY FrameType DEF FocusState
  <2>2. QED
    BY <1>2, <2>1, <1>c, ExpandType DEF ListenerGivesUp, Running
<1>3. ASSUME NEW c \in Channel, NEW by \in Channel \cup {Nobody}, NEW d \in Channel,
             ListenerHandsOver(c, by, d)
      PROVE  TypeOK'
  <2>1. <<Acquire(d)>> \in Seq(MgrFrame)
    BY FrameType DEF FocusState
  <2>2. QED
    BY <1>3, <2>1, <1>c, ExpandType DEF ListenerHandsOver, Running
<1>4. QED
  BY <1>1, <1>2, <1>3 DEF Listener

\* A new call on the empty stack keeps the types.
LEMMA UserType ==
  ASSUME TypeOK, User
  PROVE  TypeOK'
<1>1. PICK c \in Channel : AskFor(c) \/ GiveUp(c)
  BY DEF User
<1>2. <<Acquire(c)>> \in Seq(MgrFrame) /\ <<Release(c)>> \in Seq(MgrFrame)
  BY FrameType DEF FocusState
<1>3. QED
  BY <1>1, <1>2 DEF AskFor, GiveUp, TypeOK, MgrTypeOK

\* The manager's fields and the call stack are of their types in every state,
\* for any channels, priorities, captures and listeners.
THEOREM TypeCorrect == Spec => []TypeOK
<1>1. Init => TypeOK
  BY DEF Init, MgrInit, TypeOK, MgrTypeOK, FocusState
<1>2. TypeOK /\ [Next]_vars => TypeOK'
  <2>1. TypeOK /\ UNCHANGED vars => TypeOK'
    BY DEF vars, TypeOK, MgrTypeOK
  <2>2. QED
    BY <2>1, MgrStepType, ListenerType, UserType DEF Next, Run
<1>3. QED
  BY <1>1, <1>2, PTL DEF Spec

\* Only SetFocus writes the states and the pointers.
LEMMA OnlySetFocusWrites ==
  ASSUME Next
  PROVE  \/ \E c \in Channel, to \in FocusState, by \in Channel \cup {Nobody} :
              SetFocus(c, to, by) /\ focus[c] # to
         \/ UNCHANGED <<focus, fg, bg>>
BY DEF Next, User, AskFor, GiveUp, Run, Listener, ListenerReturns, ListenerGivesUp,
       ListenerHandsOver, MgrStep, AcquireCapturing, AcquireFromEqual, AcquireOverForeground,
       AcquireBehindForeground, AcquireWithBackground, AcquireIdle, ReleaseFocus,
       PromoteBackground, DemoteForeground, SetFocus, Expand

\* The channel a pointer names is in the state the pointer stands for, in every
\* state and however the listeners call the manager back.
THEOREM PointersAreRight == Spec => []PointersMatchStates
<1>1. Init => PointersMatchStates
  BY DEF Init, MgrInit, PointersMatchStates
<1>2. TypeOK /\ PointersMatchStates /\ [Next]_vars => PointersMatchStates'
  <2> SUFFICES ASSUME TypeOK, PointersMatchStates, [Next]_vars
               PROVE  PointersMatchStates'
    OBVIOUS
  <2>1. CASE UNCHANGED <<focus, fg, bg>>
    BY <2>1 DEF PointersMatchStates
  <2>2. ASSUME NEW c \in Channel, NEW to \in FocusState, NEW by \in Channel \cup {Nobody},
               SetFocus(c, to, by), focus[c] # to
        PROVE  PointersMatchStates'
    BY <2>2, ChannelAssumption
    DEF SetFocus, PointersMatchStates, TypeOK, MgrTypeOK, FocusState
  <2>3. QED
    BY <2>1, <2>2, OnlySetFocusWrites DEF vars
<1>3. QED
  BY <1>1, <1>2, TypeCorrect, PTL DEF Spec

-------------------------------------------------------------------------------
(***************************************************************************)
(* The slots are exclusive until a listener comes before a change already  *)
(* chosen.                                                                 *)
(***************************************************************************)

\* The frames, told apart by their operation.
LEMMA FrameOps ==
  ASSUME NEW c, NEW to, NEW by
  PROVE  /\ Acquire(c).op = "acquire" /\ Acquire(c).ch = c
         /\ Release(c).op = "release" /\ Release(c).ch = c
         /\ Demote(c).op = "demote" /\ Demote(c).by = c
         /\ Promote(c).op = "promote" /\ Promote(c).by = c
         /\ Set(c, to, by).op = "set" /\ Set(c, to, by).ch = c
         /\ Set(c, to, by).to = to /\ Set(c, to, by).by = by
         /\ Notify(c, to, by).op = "notify"
BY DEF Acquire, Release, Demote, Promote, Set, Notify

\* Where a stack made of two parts is cut.
LEMMA Cut ==
  ASSUME NEW t \in Seq(MgrFrame), NEW r \in Seq(MgrFrame)
  PROVE  /\ t \o r \in Seq(MgrFrame)
         /\ Len(t) \in 0..Len(t \o r)
         /\ SubSeq(t \o r, 1, Len(t)) = t
         /\ SubSeq(t \o r, Len(t) + 1, Len(t \o r)) = r
<1> DEFINE s == t \o r
<1>1. s \in Seq(MgrFrame) /\ Len(s) = Len(t) + Len(r) /\ Len(t) \in Nat /\ Len(r) \in Nat
  BY ConcatProperties
<1>2. \A i \in 1..Len(s) : s[i] = IF i <= Len(t) THEN t[i] ELSE r[i - Len(t)]
  BY ConcatProperties
<1> HIDE DEF s
<1>3. SubSeq(s, 1, Len(t)) = t
  <2>1. SubSeq(s, 1, Len(t)) \in Seq(MgrFrame) /\ Len(SubSeq(s, 1, Len(t))) = Len(t)
    BY <1>1, SubSeqProperties
  <2>2. \A i \in 1..Len(t) : SubSeq(s, 1, Len(t))[i] = t[i]
    BY <1>1, <1>2, SubSeqProperties
  <2>3. QED
    BY <2>1, <2>2, SeqEqual
<1>4. SubSeq(s, Len(t) + 1, Len(s)) = r
  <2>1. /\ SubSeq(s, Len(t) + 1, Len(s)) \in Seq(MgrFrame)
        /\ Len(SubSeq(s, Len(t) + 1, Len(s))) = Len(r)
    BY <1>1, SubSeqProperties
  <2>2. \A i \in 1..Len(r) : SubSeq(s, Len(t) + 1, Len(s))[i] = r[i]
    BY <1>1, <1>2, SubSeqProperties
  <2>3. QED
    BY <2>1, <2>2, SeqEqual
<1>5. QED
  BY <1>1, <1>3, <1>4 DEF s

\* A stack that stands is a continuation and undecided frames behind it.
LEMMA StandsInTwo ==
  ASSUME NEW s \in Seq(MgrFrame), Stands(s)
  PROVE  \E t, r \in Seq(MgrFrame) : s = t \o r /\ Continuation(t) /\ Undecidedly(r)
<1>1. PICK k \in 0..Len(s) :
        Continuation(SubSeq(s, 1, k)) /\ Undecidedly(SubSeq(s, k + 1, Len(s)))
  BY DEF Stands
<1> DEFINE t == SubSeq(s, 1, k)
           r == SubSeq(s, k + 1, Len(s))
<1>2. k \in Nat /\ Len(s) \in Nat /\ k <= Len(s)
  OBVIOUS
<1>3. /\ t \in Seq(MgrFrame) /\ Len(t) = k
      /\ r \in Seq(MgrFrame) /\ Len(r) = Len(s) - k
  BY <1>2, SubSeqProperties
<1>4. \A i \in 1..k : t[i] = s[i]
  BY <1>2, SubSeqProperties
<1>5. \A i \in 1..(Len(s) - k) : r[i] = s[k + i]
  BY <1>2, SubSeqProperties
<1> HIDE DEF t, r
<1>6. t \o r \in Seq(MgrFrame) /\ Len(t \o r) = Len(s)
  <2>1. t \o r \in Seq(MgrFrame) /\ Len(t \o r) = Len(t) + Len(r)
    BY <1>3, ConcatProperties
  <2>2. QED
    BY <1>2, <1>3, <2>1
<1>7. \A i \in 1..Len(s) : (t \o r)[i] = s[i]
  <2> SUFFICES ASSUME NEW i \in 1..Len(s) PROVE (t \o r)[i] = s[i]
    OBVIOUS
  <2>1. (t \o r)[i] = IF i <= k THEN t[i] ELSE r[i - k]
    BY <1>2, <1>3, ConcatProperties
  <2>2. CASE i <= k
    BY <1>2, <1>4, <2>1, <2>2
  <2>3. CASE ~(i <= k)
    <3>1. i - k \in 1..(Len(s) - k) /\ k + (i - k) = i
      BY <1>2, <2>3
    <3>2. r[i - k] = s[k + (i - k)]
      BY <1>5, <3>1
    <3>3. QED
      BY <2>1, <2>3, <3>1, <3>2
  <2>4. QED
    BY <2>2, <2>3
<1>8. s = t \o r
  BY <1>6, <1>7, SeqEqual
<1>9. Continuation(t) /\ Undecidedly(r)
  BY <1>1 DEF t, r
<1>10. QED
  BY <1>3, <1>8, <1>9

\* The other way round, for the stack after a step.
LEMMA StandsAfter ==
  ASSUME NEW s \in Seq(MgrFrame), NEW t \in Seq(MgrFrame), NEW r \in Seq(MgrFrame),
         s = t \o r, Continuation(t)', Undecidedly(r)
  PROVE  Stands(s)'
<1>1. /\ Len(t) \in 0..Len(s)
      /\ SubSeq(s, 1, Len(t)) = t
      /\ SubSeq(s, Len(t) + 1, Len(s)) = r
  BY Cut
<1>2. Continuation(SubSeq(s, 1, Len(t)))' /\ Undecidedly(SubSeq(s, Len(t) + 1, Len(s)))
  BY <1>1
<1>3. QED
  BY <1>1, <1>2 DEF Stands

\* Undecided frames of a stack, taken apart.
LEMMA UndecidedParts ==
  ASSUME NEW t \in Seq(MgrFrame), NEW r \in Seq(MgrFrame)
  PROVE  Undecidedly(t \o r) <=> Undecidedly(t) /\ Undecidedly(r)
<1>1. Len(t \o r) = Len(t) + Len(r) /\ Len(t) \in Nat /\ Len(r) \in Nat
  BY ConcatProperties
<1>2. \A i \in 1..Len(t \o r) : (t \o r)[i] = IF i <= Len(t) THEN t[i] ELSE r[i - Len(t)]
  BY ConcatProperties
<1>3. ASSUME Undecidedly(t \o r) PROVE Undecidedly(t) /\ Undecidedly(r)
  <2>1. Undecidedly(t)
    BY <1>1, <1>2, <1>3 DEF Undecidedly
  <2>2. ASSUME NEW i \in 1..Len(r) PROVE Undecided(r[i])
    <3>1. Len(t) + i \in 1..Len(t \o r) /\ ~(Len(t) + i <= Len(t)) /\ (Len(t) + i) - Len(t) = i
      BY <1>1
    <3>2. Undecided((t \o r)[Len(t) + i])
      BY <1>3, <3>1 DEF Undecidedly
    <3>3. (t \o r)[Len(t) + i] = r[(Len(t) + i) - Len(t)]
      BY <1>2, <3>1
    <3>4. QED
      BY <3>1, <3>2, <3>3
  <2>3. QED
    BY <2>1, <2>2 DEF Undecidedly
<1>4. ASSUME Undecidedly(t), Undecidedly(r) PROVE Undecidedly(t \o r)
  <2> SUFFICES ASSUME NEW i \in 1..Len(t \o r) PROVE Undecided((t \o r)[i])
    BY DEF Undecidedly
  <2>1. CASE i <= Len(t)
    BY <1>1, <1>2, <1>4, <2>1 DEF Undecidedly
  <2>2. CASE i > Len(t)
    <3>1. i - Len(t) \in 1..Len(r) /\ ~(i <= Len(t))
      BY <1>1, <2>2
    <3>2. (t \o r)[i] = r[i - Len(t)]
      BY <1>2, <3>1
    <3>3. QED
      BY <1>4, <3>1, <3>2 DEF Undecidedly
  <2>3. QED
    BY <1>1, <2>1, <2>2
<1>5. QED
  BY <1>3, <1>4

\* A continuation whose frames are all undecided only knows the ranking.
LEMMA UndecidedRanked ==
  ASSUME NEW t \in Seq(MgrFrame), Continuation(t), Undecidedly(t)
  PROVE  Ranked
<1>1. t # <<>> => Undecided(t[1]) /\ t[1] = Head(t)
  <2>1. ASSUME t # <<>> PROVE 1 \in 1..Len(t)
    BY <2>1, EmptySeq
  <2>2. QED
    BY <2>1 DEF Undecidedly
<1>2. ASSUME NEW n \in Channel PROVE ~ForegroundPending(n, t) /\ ~BackgroundPending(n, t)
  BY <1>1, FrameOps DEF ForegroundPending, BackgroundPending, Undecided
<1>3. ASSUME NEW n \in Channel, AcquirePending(n, t) PROVE Ranked
  BY <1>3 DEF AcquirePending
<1>4. ASSUME NEW n \in Channel, ReleasePending(n, t) PROVE Ranked
  BY <1>1, <1>4, FrameOps DEF ReleasePending, Undecided
<1>5. QED
  BY <1>2, <1>3, <1>4 DEF Continuation

\* The undecided frames.
LEMMA UndecidedKinds ==
  ASSUME NEW f \in MgrFrame, Undecided(f)
  PROVE  \E n \in Channel : f \in {Acquire(n), Release(n), Promote(n)}
BY FrameOps DEF MgrFrame, Undecided

\* An undecided frame is a continuation as soon as the ranking is right.
LEMMA UndecidedContinues ==
  ASSUME NEW f \in MgrFrame, Undecided(f), Ranked
  PROVE  Continuation(<<f>>)
<1>1. PICK n \in Channel : f \in {Acquire(n), Release(n), Promote(n)}
  BY UndecidedKinds
<1>2. AcquirePending(n, <<f>>) \/ ReleasePending(n, <<f>>)
  BY <1>1 DEF AcquirePending, ReleasePending
<1>3. QED
  BY <1>2 DEF Continuation

\* Two parts of which the first is not empty.
LEMMA FirstPart ==
  ASSUME NEW t \in Seq(MgrFrame), NEW r \in Seq(MgrFrame), t # <<>>
  PROVE  /\ t \o r # <<>>
         /\ Head(t \o r) = Head(t)
         /\ Tail(t) \in Seq(MgrFrame)
         /\ Tail(t \o r) = Tail(t) \o r
<1>1. Len(t) \in Nat \ {0} /\ Len(r) \in Nat /\ Tail(t) \in Seq(MgrFrame) /\ Len(Tail(t)) = Len(t) - 1
  BY HeadTailProperties, EmptySeq
<1>2. t \o r \in Seq(MgrFrame) /\ Len(t \o r) = Len(t) + Len(r)
  BY ConcatProperties
<1>3. \A i \in 1..Len(t \o r) : (t \o r)[i] = IF i <= Len(t) THEN t[i] ELSE r[i - Len(t)]
  BY ConcatProperties
<1>4. t \o r # <<>> /\ Head(t \o r) = Head(t)
  <2>1. t \o r # <<>>
    BY <1>1, <1>2
  <2>2. Head(t \o r) = (t \o r)[1] /\ Head(t) = t[1]
    BY <1>1, <1>2, <2>1, HeadTailProperties
  <2>3. QED
    BY <1>1, <1>2, <1>3, <2>1, <2>2
<1>5. /\ Tail(t \o r) \in Seq(MgrFrame) /\ Len(Tail(t \o r)) = Len(t) + Len(r) - 1
      /\ \A i \in 1..(Len(t) + Len(r) - 1) : Tail(t \o r)[i] = (t \o r)[i + 1]
  BY <1>1, <1>2, <1>4, HeadTailProperties
<1>6. /\ Tail(t) \o r \in Seq(MgrFrame) /\ Len(Tail(t) \o r) = Len(t) - 1 + Len(r)
      /\ \A i \in 1..(Len(t) - 1 + Len(r)) :
           (Tail(t) \o r)[i] = IF i <= Len(t) - 1 THEN Tail(t)[i] ELSE r[i - (Len(t) - 1)]
  BY <1>1, ConcatProperties
<1>7. \A i \in 1..(Len(t) - 1) : Tail(t)[i] = t[i + 1]
  BY <1>1, HeadTailProperties
<1>8. ASSUME NEW i \in 1..(Len(t) + Len(r) - 1)
      PROVE  Tail(t \o r)[i] = (Tail(t) \o r)[i]
  <2>1. i + 1 \in 1..Len(t \o r) /\ Tail(t \o r)[i] = (t \o r)[i + 1]
    BY <1>1, <1>2, <1>5
  <2>2. CASE i <= Len(t) - 1
    BY <1>1, <1>3, <1>6, <1>7, <2>1, <2>2
  <2>3. CASE i > Len(t) - 1
    <3>1. (t \o r)[i + 1] = r[i + 1 - Len(t)]
      BY <1>1, <1>3, <2>1, <2>3
    <3>2. (Tail(t) \o r)[i] = r[i - (Len(t) - 1)]
      BY <1>1, <1>6, <2>3
    <3>3. i + 1 - Len(t) = i - (Len(t) - 1)
      BY <1>1
    <3>4. QED
      BY <2>1, <3>1, <3>2, <3>3
  <2>4. QED
    BY <1>1, <2>2, <2>3
<1>9. Tail(t \o r) = Tail(t) \o r
  BY <1>1, <1>5, <1>6, <1>8, SeqEqual
<1>10. QED
  BY <1>1, <1>4, <1>9

\* A sequence is its head and its tail.
LEMMA SameParts ==
  ASSUME NEW u \in Seq(MgrFrame), NEW v \in Seq(MgrFrame), u # <<>>, v # <<>>,
         Head(u) = Head(v), Tail(u) = Tail(v)
  PROVE  u = v
<1>1. Len(u) \in Nat /\ Len(u) # 0 /\ Len(v) \in Nat /\ Len(v) # 0
  BY EmptySeq
<1>2. Len(u) = Len(v)
  BY <1>1, HeadTailProperties
<1>3. ASSUME NEW i \in 1..Len(u) PROVE u[i] = v[i]
  <2>1. CASE i = 1
    BY <1>1, <2>1, HeadTailProperties
  <2>2. CASE i # 1
    <3>1. i - 1 \in 1..(Len(u) - 1) /\ (i - 1) + 1 = i
      BY <1>1, <2>2
    <3>2. Tail(u)[i - 1] = u[(i - 1) + 1] /\ Tail(v)[i - 1] = v[(i - 1) + 1]
      BY <1>1, <1>2, <3>1, HeadTailProperties
    <3>3. QED
      BY <3>1, <3>2
  <2>3. QED
    BY <2>1, <2>2
<1>4. QED
  BY <1>2, <1>3, SeqEqual

\* Unless a listener is being told, the stack is one of the continuations that
\* are not finished, and undecided frames behind it.
LEMMA NotTelling ==
  ASSUME TypeOK, CallInv, stack # <<>>, Head(stack).op # "notify"
  PROVE  /\ PointersExact
         /\ \E t, r \in Seq(MgrFrame) :
              /\ t # <<>> /\ Head(t) = Head(stack)
              /\ Tail(t) \in Seq(MgrFrame) /\ Tail(stack) = Tail(t) \o r
              /\ Continuation(t) /\ Undecidedly(r)
<1>1. PointersExact /\ Stands(stack) /\ stack \in Seq(MgrFrame)
  BY DEF CallInv, TypeOK
<1>2. PICK t, r \in Seq(MgrFrame) : stack = t \o r /\ Continuation(t) /\ Undecidedly(r)
  BY <1>1, StandsInTwo
<1>3. CASE t # <<>>
  BY <1>1, <1>2, <1>3, FirstPart
<1>4. CASE t = <<>>
  <2>1. stack = r
    BY <1>2, <1>4, ConcatEmptySeq
  <2>2. /\ Head(stack) \in MgrFrame /\ Tail(stack) \in Seq(MgrFrame)
        /\ Head(stack) = stack[1] /\ 1 \in 1..Len(stack)
        /\ stack = <<Head(stack)>> \o Tail(stack)
    <3>1. /\ Head(stack) \in MgrFrame /\ Tail(stack) \in Seq(MgrFrame)
          /\ Head(stack) = stack[1] /\ 1 \in 1..Len(stack)
      BY <1>1, HeadTailProperties, EmptySeq
    <3>2. stack = <<Head(stack)>> \o Tail(stack)
      <4> DEFINE u == <<Head(stack)>> \o Tail(stack)
      <4>1. u \in Seq(MgrFrame) /\ u # <<>> /\ Head(u) = Head(stack) /\ Tail(u) = Tail(stack)
        BY <3>1, PushFrame
      <4> HIDE DEF u
      <4>2. u = stack
        BY <1>1, <3>1, <4>1, SameParts
      <4>3. QED
        BY <4>2 DEF u
    <3>3. QED
      BY <3>1, <3>2
  <2>3. Undecided(Head(stack))
    BY <1>2, <2>1, <2>2 DEF Undecidedly
  <2>4. <<Head(stack)>> \in Seq(MgrFrame)
    BY <2>2
  <2>5. Undecidedly(Tail(stack))
    BY <1>2, <2>1, <2>2, <2>4, UndecidedParts
  <2>6. Ranked
    <3>1. Len(t) = 0
      BY <1>4
    <3>2. Undecidedly(t)
      BY <3>1 DEF Undecidedly
    <3>3. QED
      BY <1>2, <3>2, UndecidedRanked
  <2>7. Continuation(<<Head(stack)>>)
    BY <2>2, <2>3, <2>6, UndecidedContinues
  <2>8. /\ <<Head(stack)>> # <<>> /\ Head(<<Head(stack)>>) = Head(stack)
        /\ Tail(<<Head(stack)>>) = <<>> /\ <<>> \in Seq(MgrFrame)
        /\ Tail(stack) = <<>> \o Tail(stack)
    BY <2>2, ConcatEmptySeq
  <2>9. QED
    BY <1>1, <2>2, <2>4, <2>5, <2>7, <2>8
<1>5. QED
  BY <1>3, <1>4

\* A stack that stands after a step, and one under the frame of a listener.
LEMMA StackStands ==
  ASSUME NEW t \in Seq(MgrFrame), NEW r \in Seq(MgrFrame), Continuation(t)', Undecidedly(r)
  PROVE  /\ stack' = t \o r => Stands(stack)'
         /\ Tail(stack') = t \o r => Stands(Tail(stack))'
<1> DEFINE s == t \o r
<1>1. s \in Seq(MgrFrame)
  BY Cut
<1>2. Stands(s)'
  BY <1>1, StandsAfter
<1> HIDE DEF s
<1>3. PICK k \in 0..Len(s) :
        Continuation(SubSeq(s, 1, k))' /\ Undecidedly(SubSeq(s, k + 1, Len(s)))
  BY <1>2 DEF Stands
<1>4. ASSUME stack' = s PROVE Stands(stack)'
  <2>1. Continuation(SubSeq(stack, 1, k))'
    BY <1>3, <1>4 DEF Continuation, AcquirePending, ForegroundPending, BackgroundPending,
       ReleasePending, Waited, Ranked, Acquire, Release, Set, Demote, Promote
  <2>2. QED
    BY <1>3, <1>4, <2>1 DEF Stands
<1>5. ASSUME Tail(stack') = s PROVE Stands(Tail(stack))'
  <2>1. Continuation(SubSeq(Tail(stack), 1, k))'
    BY <1>3, <1>5 DEF Continuation, AcquirePending, ForegroundPending, BackgroundPending,
       ReleasePending, Waited, Ranked, Acquire, Release, Set, Demote, Promote
  <2>2. QED
    BY <1>3, <1>5, <2>1 DEF Stands
<1>6. QED
  BY <1>4, <1>5 DEF s

\* An acquireChannel about to run has undecided frames behind it.
LEMMA AcquireAlone ==
  ASSUME TypeOK, CallInv, NEW n \in Channel, Running(Acquire(n))
  PROVE  Tail(stack) \in Seq(MgrFrame) /\ Undecidedly(Tail(stack)) /\ Ranked /\ PointersExact
<1>o. stack # <<>> /\ Head(stack) = Acquire(n) /\ Head(stack).op # "notify"
  BY FrameOps DEF Running
<1>1. PICK t, r \in Seq(MgrFrame) :
        /\ t # <<>> /\ Head(t) = Acquire(n)
        /\ Tail(t) \in Seq(MgrFrame) /\ Tail(stack) = Tail(t) \o r
        /\ Continuation(t) /\ Undecidedly(r)
  BY <1>o, NotTelling
<1>h. Head(t) = Acquire(n)
  BY <1>1
<1>2. PICK m \in Channel : \/ AcquirePending(m, t)
                           \/ ForegroundPending(m, t)
                           \/ BackgroundPending(m, t)
                           \/ ReleasePending(m, t)
  BY <1>1 DEF Continuation
<1>3. ~ForegroundPending(m, t) /\ ~BackgroundPending(m, t) /\ ~ReleasePending(m, t)
  BY <1>h, FrameOps DEF ForegroundPending, BackgroundPending, ReleasePending
<1>4. AcquirePending(m, t)
  BY <1>2, <1>3
<1>5. t = <<Acquire(m)>> /\ Ranked
  BY <1>h, <1>4, FrameOps DEF AcquirePending
<1>6. Tail(stack) = r
  <2>1. \E g : t = <<g>>
    BY <1>5
  <2>2. Tail(t) = <<>>
    BY <2>1
  <2>3. QED
    BY <1>1, <2>2, ConcatEmptySeq
<1>7. PointersExact
  BY DEF CallInv
<1>8. QED
  BY <1>1, <1>5, <1>6, <1>7

\* So has a releaseChannel about to run, or its tail.
LEMMA ReleaseAlone ==
  ASSUME TypeOK, CallInv, NEW n \in Channel, NEW f \in {Release(n), Promote(n)}, Running(f)
  PROVE  Tail(stack) \in Seq(MgrFrame) /\ Undecidedly(Tail(stack)) /\ Ranked /\ PointersExact
<1>o. stack # <<>> /\ Head(stack) = f /\ Head(stack).op # "notify"
  BY FrameOps DEF Running
<1>1. PICK t, r \in Seq(MgrFrame) :
        /\ t # <<>> /\ Head(t) = f
        /\ Tail(t) \in Seq(MgrFrame) /\ Tail(stack) = Tail(t) \o r
        /\ Continuation(t) /\ Undecidedly(r)
  BY <1>o, NotTelling
<1>h. Head(t) = f
  BY <1>1
<1>2. PICK m \in Channel : \/ AcquirePending(m, t)
                           \/ ForegroundPending(m, t)
                           \/ BackgroundPending(m, t)
                           \/ ReleasePending(m, t)
  BY <1>1 DEF Continuation
<1>3. ~ForegroundPending(m, t) /\ ~BackgroundPending(m, t) /\ ~AcquirePending(m, t)
  BY <1>h, FrameOps DEF ForegroundPending, BackgroundPending, AcquirePending
<1>4. ReleasePending(m, t)
  BY <1>2, <1>3
<1>5. (t = <<Release(m)>> \/ t = <<Promote(m)>>) /\ Ranked
  BY <1>h, <1>4, FrameOps DEF ReleasePending
<1>6. Tail(stack) = r
  <2>1. \E g : t = <<g>>
    BY <1>5
  <2>2. Tail(t) = <<>>
    BY <2>1
  <2>3. QED
    BY <1>1, <2>2, ConcatEmptySeq
<1>7. PointersExact
  BY DEF CallInv
<1>8. QED
  BY <1>1, <1>5, <1>6, <1>7

\* The foreground channel about to be demoted makes room for a more important one.
LEMMA DemoteThenForeground ==
  ASSUME TypeOK, CallInv, NEW n \in Channel, Running(Demote(n))
  PROVE  /\ PointersExact /\ fg # Nobody /\ bg = Nobody /\ Priority[n] < Priority[fg]
         /\ \E r \in Seq(MgrFrame) :
              Undecidedly(r) /\ Tail(stack) = <<Set(n, "FOREGROUND", Nobody)>> \o r
<1>o. stack # <<>> /\ Head(stack) = Demote(n) /\ Head(stack).op # "notify"
  BY FrameOps DEF Running
<1>1. PICK t, r \in Seq(MgrFrame) :
        /\ t # <<>> /\ Head(t) = Demote(n)
        /\ Tail(t) \in Seq(MgrFrame) /\ Tail(stack) = Tail(t) \o r
        /\ Continuation(t) /\ Undecidedly(r)
  BY <1>o, NotTelling
<1>h. Head(t) = Demote(n)
  BY <1>1
<1>2. PICK m \in Channel : \/ AcquirePending(m, t)
                           \/ ForegroundPending(m, t)
                           \/ BackgroundPending(m, t)
                           \/ ReleasePending(m, t)
  BY <1>1 DEF Continuation
<1>3. ~AcquirePending(m, t) /\ ~BackgroundPending(m, t) /\ ~ReleasePending(m, t)
  BY <1>h, FrameOps DEF AcquirePending, BackgroundPending, ReleasePending
<1>4. ForegroundPending(m, t)
  BY <1>2, <1>3
<1>5. /\ t = <<Demote(m), Set(m, "FOREGROUND", Nobody)>>
      /\ fg # Nobody /\ bg = Nobody /\ Priority[m] < Priority[fg]
  BY <1>h, <1>4, FrameOps DEF ForegroundPending
<1>6. n = m
  BY <1>h, <1>5, FrameOps
<1>7. Tail(t) = <<Set(n, "FOREGROUND", Nobody)>>
  BY <1>5, <1>6
<1>8. PointersExact
  BY DEF CallInv
<1>9. QED
  BY <1>1, <1>5, <1>6, <1>7, <1>8

\* Frames that are a continuation, put in front of undecided ones.
LEMMA ExpandStands ==
  ASSUME TypeOK, PointersExact, Tail(stack) \in Seq(MgrFrame), Undecidedly(Tail(stack)),
         NEW t \in Seq(MgrFrame), Expand(t), Continuation(t)'
  PROVE  CallInv'
<1>1. PICK r \in Seq(MgrFrame) : r = Tail(stack)
  OBVIOUS
<1>2. stack' = t \o r /\ UNCHANGED <<focus, fg, bg>> /\ Undecidedly(r)
  BY <1>1 DEF Expand
<1>3. Stands(stack)'
  BY <1>2, StackStands
<1>4. QED
  BY <1>2, <1>3 DEF CallInv, PointersExact

\* Every branch of acquireChannel leaves a continuation.
LEMMA AcquireKeepsCallInv ==
  ASSUME TypeOK, CallInv, NEW n \in Channel,
         \/ AcquireCapturing(n) \/ AcquireFromEqual(n) \/ AcquireOverForeground(n)
         \/ AcquireBehindForeground(n) \/ AcquireWithBackground(n) \/ AcquireIdle(n)
  PROVE  CallInv'
<1> USE ChannelAssumption
<1>1. /\ Tail(stack) \in Seq(MgrFrame) /\ Undecidedly(Tail(stack))
      /\ Ranked /\ PointersExact
  BY AcquireAlone DEF AcquireCapturing, AcquireFromEqual, AcquireOverForeground,
     AcquireBehindForeground, AcquireWithBackground, AcquireIdle
<1>2. UNCHANGED <<focus, fg, bg>>
  BY DEF AcquireCapturing, AcquireFromEqual, AcquireOverForeground,
     AcquireBehindForeground, AcquireWithBackground, AcquireIdle, Expand
<1>3. PICK f \in Channel \cup {Nobody}, b \in Channel \cup {Nobody} :
        f = fg /\ b = bg /\ f = fg' /\ b = bg'
  BY <1>2 DEF TypeOK, MgrTypeOK
<1>4. /\ {"FOREGROUND", "BACKGROUND", "NONE"} \subseteq FocusState
      /\ Set(n, "FOREGROUND", Nobody) \in MgrFrame /\ Set(n, "BACKGROUND", Nobody) \in MgrFrame
      /\ Acquire(n) \in MgrFrame /\ Demote(n) \in MgrFrame
      /\ f # Nobody => Set(f, "NONE", n) \in MgrFrame
      /\ b # Nobody => Set(b, "NONE", n) \in MgrFrame /\ Set(b, "FOREGROUND", n) \in MgrFrame
  <2>1. {"FOREGROUND", "BACKGROUND", "NONE"} \subseteq FocusState
    BY DEF FocusState
  <2>2. QED
    BY <2>1, FrameType
<1>5. ASSUME NEW t \in Seq(MgrFrame), Expand(t),
             \/ AcquirePending(n, t)' \/ ForegroundPending(n, t)' \/ BackgroundPending(n, t)'
      PROVE  CallInv'
  <2>1. Continuation(t)'
    BY <1>5 DEF Continuation
  <2>2. QED
    BY <1>1, <1>5, <2>1, ExpandStands
<1>6. CASE AcquireCapturing(n)
  <2>a. <<Set(f, "NONE", n), Acquire(n)>> \in Seq(MgrFrame)
    BY <1>3, <1>4, <1>6 DEF AcquireCapturing
  <2>1. Expand(<<Set(f, "NONE", n), Acquire(n)>>)
    BY <1>3, <2>a, <1>6 DEF AcquireCapturing
  <2>2. AcquirePending(n, <<Set(f, "NONE", n), Acquire(n)>>)'
    BY <1>1, <1>3, <1>6 DEF AcquirePending, AcquireCapturing, Ranked, Acquire, Set
  <2>3. QED
    BY <1>5, <2>a, <2>1, <2>2
<1>7. CASE AcquireFromEqual(n)
  <2>a. <<Set(f, "NONE", n), Set(n, "FOREGROUND", Nobody)>> \in Seq(MgrFrame)
    BY <1>3, <1>4, <1>7 DEF AcquireFromEqual
  <2>1. Expand(<<Set(f, "NONE", n), Set(n, "FOREGROUND", Nobody)>>)
    BY <1>3, <2>a, <1>7 DEF AcquireFromEqual
  <2>2. ForegroundPending(n, <<Set(f, "NONE", n), Set(n, "FOREGROUND", Nobody)>>)'
    BY <1>1, <1>3, <1>7 DEF ForegroundPending, AcquireFromEqual, Ranked, Set
  <2>3. QED
    BY <1>5, <2>a, <2>1, <2>2
<1>8. CASE AcquireOverForeground(n)
  <2>1. CASE bg = Nobody
    <3>a. <<Demote(n), Set(n, "FOREGROUND", Nobody)>> \in Seq(MgrFrame)
      BY <1>3, <1>4, <1>8, <2>1 DEF AcquireOverForeground
    <3>1. Expand(<<Demote(n), Set(n, "FOREGROUND", Nobody)>>)
      BY <1>3, <3>a, <1>8, <2>1 DEF AcquireOverForeground
    <3>2. ForegroundPending(n, <<Demote(n), Set(n, "FOREGROUND", Nobody)>>)'
      BY <1>1, <1>3, <1>8, <2>1 DEF ForegroundPending, AcquireOverForeground, Set, Demote
    <3>3. QED
      BY <1>5, <3>a, <3>1, <3>2
  <2>2. CASE bg # Nobody
    <3>a. <<Set(b, "NONE", n), Demote(n), Set(n, "FOREGROUND", Nobody)>> \in Seq(MgrFrame)
      BY <1>3, <1>4, <1>8, <2>2 DEF AcquireOverForeground
    <3>1. Expand(<<Set(b, "NONE", n), Demote(n), Set(n, "FOREGROUND", Nobody)>>)
      BY <1>3, <3>a, <1>8, <2>2 DEF AcquireOverForeground
    <3>2. ForegroundPending(n, <<Set(b, "NONE", n), Demote(n), Set(n, "FOREGROUND", Nobody)>>)'
      BY <1>1, <1>3, <1>8, <2>2 DEF ForegroundPending, AcquireOverForeground, Set, Demote
    <3>3. QED
      BY <1>5, <3>a, <3>1, <3>2
  <2>3. QED
    BY <1>8, <2>1, <2>2 DEF AcquireOverForeground
<1>9. CASE AcquireBehindForeground(n)
  <2>1. CASE bg = Nobody
    <3>a. <<Set(n, "BACKGROUND", Nobody)>> \in Seq(MgrFrame)
      BY <1>3, <1>4, <1>9, <2>1 DEF AcquireBehindForeground
    <3>1. Expand(<<Set(n, "BACKGROUND", Nobody)>>)
      BY <1>3, <3>a, <1>9, <2>1 DEF AcquireBehindForeground
    <3>2. BackgroundPending(n, <<Set(n, "BACKGROUND", Nobody)>>)'
      BY <1>1, <1>3, <1>9, <2>1 DEF BackgroundPending, AcquireBehindForeground, Set
    <3>3. QED
      BY <1>5, <3>a, <3>1, <3>2
  <2>2. CASE bg # Nobody /\ Priority[n] <= Priority[bg]
    <3>a. <<Set(b, "NONE", n), Set(n, "BACKGROUND", Nobody)>> \in Seq(MgrFrame)
      BY <1>3, <1>4, <1>9, <2>2 DEF AcquireBehindForeground
    <3>1. Expand(<<Set(b, "NONE", n), Set(n, "BACKGROUND", Nobody)>>)
      BY <1>3, <3>a, <1>9, <2>2 DEF AcquireBehindForeground
    <3>2. BackgroundPending(n, <<Set(b, "NONE", n), Set(n, "BACKGROUND", Nobody)>>)'
      BY <1>1, <1>3, <1>9, <2>2 DEF BackgroundPending, AcquireBehindForeground, Set
    <3>3. QED
      BY <1>5, <3>a, <3>1, <3>2
  <2>3. CASE bg # Nobody /\ Priority[n] > Priority[bg]
    <3>a. <<>> \in Seq(MgrFrame)
      BY <1>3, <1>4, <1>9, <2>3 DEF AcquireBehindForeground
    <3>1. Expand(<<>>)
      BY <1>3, <3>a, <1>9, <2>3 DEF AcquireBehindForeground
    <3>2. Continuation(<<>>)'
      BY <1>1, <1>3, <1>9, <2>3 DEF Continuation, Waited, Ranked, AcquireBehindForeground
    <3>3. QED
      BY <1>1, <3>a, <3>1, <3>2, ExpandStands
  <2>4. QED
    BY <1>9, <2>1, <2>2, <2>3 DEF AcquireBehindForeground
<1>10. CASE AcquireWithBackground(n)
  <2>w. b # Nobody
    BY <1>3, <1>10 DEF AcquireWithBackground
  <2>p. Priority[n] \in Nat /\ Priority[bg] \in Nat
    BY <2>w, <1>3
  <2>1. CASE Priority[n] < Priority[bg]
    <3>a. <<Set(n, "FOREGROUND", Nobody)>> \in Seq(MgrFrame)
      BY <1>3, <1>4, <1>10, <2>1, <2>w, <2>p DEF AcquireWithBackground
    <3>1. Expand(<<Set(n, "FOREGROUND", Nobody)>>)
      BY <1>3, <3>a, <1>10, <2>1, <2>w, <2>p DEF AcquireWithBackground
    <3>2. ForegroundPending(n, <<Set(n, "FOREGROUND", Nobody)>>)'
      BY <1>1, <1>3, <1>10, <2>1, <2>w, <2>p DEF ForegroundPending, AcquireWithBackground, Set
    <3>3. QED
      BY <1>5, <3>a, <3>1, <3>2
  <2>2. CASE Priority[n] = Priority[bg]
    <3>a. <<Set(b, "NONE", n), Set(n, "FOREGROUND", Nobody)>> \in Seq(MgrFrame)
      BY <1>3, <1>4, <1>10, <2>2, <2>w, <2>p DEF AcquireWithBackground
    <3>1. Expand(<<Set(b, "NONE", n), Set(n, "FOREGROUND", Nobody)>>)
      <4>1. Expand(<<Set(bg, "NONE", n), Set(n, "FOREGROUND", Nobody)>>)
        BY <1>10, <2>2, <2>w, <2>p DEF AcquireWithBackground
      <4>2. QED
        BY <1>3, <4>1
    <3>2. ForegroundPending(n, <<Set(b, "NONE", n), Set(n, "FOREGROUND", Nobody)>>)'
      BY <1>1, <1>3, <1>10, <2>2, <2>w, <2>p DEF ForegroundPending, AcquireWithBackground, Set
    <3>3. QED
      BY <1>5, <3>a, <3>1, <3>2
  <2>3. CASE Priority[n] > Priority[bg]
    <3>a. <<Set(b, "FOREGROUND", n), Set(n, "BACKGROUND", Nobody)>> \in Seq(MgrFrame)
      BY <1>3, <1>4, <1>10, <2>3, <2>w, <2>p DEF AcquireWithBackground
    <3>1. Expand(<<Set(b, "FOREGROUND", n), Set(n, "BACKGROUND", Nobody)>>)
      BY <1>3, <3>a, <1>10, <2>3, <2>w, <2>p DEF AcquireWithBackground
    <3>2. BackgroundPending(n, <<Set(b, "FOREGROUND", n), Set(n, "BACKGROUND", Nobody)>>)'
      BY <1>1, <1>3, <1>10, <2>3, <2>w, <2>p DEF BackgroundPending, AcquireWithBackground, Set
    <3>3. QED
      BY <1>5, <3>a, <3>1, <3>2
  <2>4. QED
    BY <1>10, <2>1, <2>2, <2>3 DEF AcquireWithBackground
<1>11. CASE AcquireIdle(n)
  <2>a. <<Set(n, "FOREGROUND", Nobody)>> \in Seq(MgrFrame)
    BY <1>3, <1>4, <1>11 DEF AcquireIdle
  <2>1. Expand(<<Set(n, "FOREGROUND", Nobody)>>)
    BY <1>3, <2>a, <1>11 DEF AcquireIdle
  <2>2. ForegroundPending(n, <<Set(n, "FOREGROUND", Nobody)>>)'
    BY <1>1, <1>3, <1>11 DEF ForegroundPending, AcquireIdle, Set
  <2>3. QED
    BY <1>5, <2>a, <2>1, <2>2
<1>12. QED
  BY <1>6, <1>7, <1>8, <1>9, <1>10, <1>11

\* Two frames put on a stack one after the other.
LEMMA TwoInFront ==
  ASSUME NEW d \in MgrFrame, NEW e \in MgrFrame, NEW r \in Seq(MgrFrame)
  PROVE  <<d>> \o (<<e>> \o r) = <<d, e>> \o r
<1> DEFINE u == <<d, e>> \o r
           v == <<d>> \o (<<e>> \o r)
<1>1. <<d, e>> \in Seq(MgrFrame) /\ <<d, e>> # <<>> /\ Head(<<d, e>>) = d /\ Tail(<<d, e>>) = <<e>>
  OBVIOUS
<1>2. u \in Seq(MgrFrame) /\ u # <<>> /\ Head(u) = d /\ Tail(u) = <<e>> \o r
  BY <1>1, FirstPart, Cut
<1>3. v \in Seq(MgrFrame) /\ v # <<>> /\ Head(v) = d /\ Tail(v) = <<e>> \o r
  BY PushFrame
<1>4. u = v
  BY <1>2, <1>3, SameParts
<1>5. QED
  BY <1>4

\* releaseChannel, its tail and the demotion leave a continuation.
LEMMA ReleaseKeepsCallInv ==
  ASSUME TypeOK, CallInv, NEW n \in Channel,
         ReleaseFocus(n) \/ PromoteBackground(n) \/ DemoteForeground(n)
  PROVE  CallInv'
<1> USE ChannelAssumption
<1>1. UNCHANGED <<focus, fg, bg>>
  BY DEF ReleaseFocus, PromoteBackground, DemoteForeground, Expand
<1>2. {"FOREGROUND", "BACKGROUND", "NONE"} \subseteq FocusState
  BY DEF FocusState
<1>3. CASE ReleaseFocus(n)
  <2> DEFINE t == <<Set(n, "NONE", Nobody), Promote(n)>>
  <2>1. /\ Tail(stack) \in Seq(MgrFrame) /\ Undecidedly(Tail(stack))
        /\ Ranked /\ PointersExact
    BY <1>3, ReleaseAlone DEF ReleaseFocus
  <2>2. t \in Seq(MgrFrame) /\ Expand(t)
    BY <1>2, <1>3, FrameType DEF ReleaseFocus
  <2>3. ReleasePending(n, t)'
    BY <1>1, <2>1 DEF ReleasePending, Ranked, Set, Promote
  <2>4. Continuation(t)'
    BY <2>3 DEF Continuation
  <2>5. QED
    BY <2>1, <2>2, <2>4, ExpandStands
<1>4. CASE PromoteBackground(n)
  <2>1. /\ Tail(stack) \in Seq(MgrFrame) /\ Undecidedly(Tail(stack))
        /\ Ranked /\ PointersExact
    BY <1>4, ReleaseAlone DEF PromoteBackground
  <2>2. CASE fg = Nobody /\ bg # Nobody
    <3>1. PICK b \in Channel : b = bg /\ b = bg'
      BY <1>1, <2>2 DEF TypeOK, MgrTypeOK
    <3> DEFINE t == <<Set(b, "FOREGROUND", n)>>
    <3>2. t \in Seq(MgrFrame) /\ Expand(t)
      BY <1>2, <1>4, <2>2, <3>1, FrameType DEF PromoteBackground
    <3>3. ReleasePending(n, t)'
      BY <1>1, <2>2, <3>1 DEF ReleasePending, Set
    <3>4. Continuation(t)'
      BY <3>3 DEF Continuation
    <3>5. QED
      BY <2>1, <3>2, <3>4, ExpandStands
  <2>3. CASE ~(fg = Nobody /\ bg # Nobody)
    <3>1. <<>> \in Seq(MgrFrame) /\ Expand(<<>>)
      BY <1>4, <2>3 DEF PromoteBackground
    <3>2. Continuation(<<>>)'
      BY <1>1, <2>1, <2>3 DEF Continuation, Waited, Ranked
    <3>3. QED
      BY <2>1, <3>1, <3>2, ExpandStands
  <2>4. QED
    BY <2>2, <2>3
<1>5. CASE DemoteForeground(n)
  <2>1. PointersExact /\ fg # Nobody /\ bg = Nobody /\ Priority[n] < Priority[fg]
    BY <1>5, DemoteThenForeground DEF DemoteForeground
  <2>2. PICK r \in Seq(MgrFrame) :
          Undecidedly(r) /\ Tail(stack) = <<Set(n, "FOREGROUND", Nobody)>> \o r
    BY <1>5, DemoteThenForeground DEF DemoteForeground
  <2>3. PICK f \in Channel : f = fg /\ f = fg'
    BY <1>1, <2>1 DEF TypeOK, MgrTypeOK
  <2> DEFINE d == Set(f, "BACKGROUND", n)
             e == Set(n, "FOREGROUND", Nobody)
  <2>4. d \in MgrFrame /\ e \in MgrFrame
    BY <1>2, FrameType
  <2>5. stack' = <<d>> \o (<<e>> \o r)
    BY <1>5, <2>2, <2>3 DEF DemoteForeground, Expand
  <2>6. ForegroundPending(n, <<d, e>>)'
    BY <1>1, <2>1, <2>3 DEF ForegroundPending, Set
  <2>7. Continuation(<<d, e>>)'
    BY <2>6 DEF Continuation
  <2> HIDE DEF d, e
  <2>8. <<d>> \o (<<e>> \o r) = <<d, e>> \o r
    BY <2>4, TwoInFront
  <2>9. <<d, e>> \in Seq(MgrFrame)
    BY <2>4
  <2>10. Stands(stack)'
    BY <2>2, <2>5, <2>7, <2>8, <2>9, StackStands
  <2>11. QED
    BY <1>1, <2>1, <2>10 DEF CallInv, PointersExact
<1>6. QED
  BY <1>3, <1>4, <1>5

\* A continuation with undecided frames behind it that are all there is.
LEMMA RankedUnderneath ==
  ASSUME NEW s \in Seq(MgrFrame), Stands(s), Undecidedly(s)
  PROVE  Ranked
<1>1. PICK t, r \in Seq(MgrFrame) : s = t \o r /\ Continuation(t) /\ Undecidedly(r)
  BY StandsInTwo
<1>2. Undecidedly(t)
  BY <1>1, UndecidedParts
<1>3. QED
  BY <1>1, <1>2, UndecidedRanked

\* A listener that returns leaves what was there before it was told.  One that
\* calls back adds a call, whose frames look at the pointers when they come.
LEMMA ListenerKeepsCallInv ==
  ASSUME TypeOK, calm => CallInv, Listener, calm'
  PROVE  CallInv'
<1>1. PICK c \in Channel, by \in Channel \cup {Nobody}, to \in FocusState :
        /\ Running(Notify(c, to, by))
        /\ \/ ListenerReturns(c, to, by)
           \/ ListenerGivesUp(c, to, by)
           \/ \E d \in Channel : ListenerHandsOver(c, by, d)
  <2>1. "NONE" \in FocusState
    BY DEF FocusState
  <2>2. QED
    BY <2>1 DEF Listener, ListenerReturns, ListenerGivesUp, ListenerHandsOver
<1>2. calm /\ CallInv
  BY Zenon DEF Listener, ListenerReturns, ListenerGivesUp, ListenerHandsOver, CallsBack
<1>3. stack # <<>> /\ Head(stack).op = "notify" /\ Tail(stack) \in Seq(MgrFrame)
  BY <1>1, FrameOps, HeadTailProperties DEF Running, TypeOK
<1>4. PointersExact /\ Stands(Tail(stack))
  <2>1. PointersExact /\ (Stands(stack) \/ Stands(Tail(stack)))
    BY <1>2 DEF CallInv
  <2>2. ASSUME Stands(stack) PROVE Stands(Tail(stack))
    <3>1. PICK t, r \in Seq(MgrFrame) : stack = t \o r /\ Continuation(t) /\ Undecidedly(r)
      BY <2>2, StandsInTwo DEF TypeOK
    <3>2. CASE t = <<>>
      <4>1. stack = r
        BY <3>1, <3>2, ConcatEmptySeq
      <4>2. 1 \in 1..Len(r) /\ Head(r) = r[1]
        BY <1>3, <4>1, EmptySeq
      <4>3. QED
        BY <1>3, <3>1, <4>1, <4>2 DEF Undecidedly, Undecided
    <3>3. CASE t # <<>>
      <4>1. Head(t) = Head(stack)
        BY <3>1, <3>3, FirstPart
      <4>2. Head(t).op = "notify"
        BY <1>3, <4>1
      <4>3. QED
        BY <3>1, <3>3, <4>2, FrameOps
        DEF Continuation, AcquirePending, ForegroundPending, BackgroundPending, ReleasePending
    <3>4. QED
      BY <3>2, <3>3
  <2>3. QED
    BY <2>1, <2>2
<1>5. PICK t, r \in Seq(MgrFrame) : Tail(stack) = t \o r /\ Continuation(t) /\ Undecidedly(r)
  BY <1>3, <1>4, StandsInTwo
<1>6. CASE ListenerReturns(c, to, by)
  <2>1. stack' = t \o r /\ UNCHANGED <<focus, fg, bg>>
    BY <1>3, <1>5, <1>6, ConcatEmptySeq DEF ListenerReturns, Expand
  <2>2. Continuation(t)'
    BY <1>5, <2>1 DEF Continuation, AcquirePending, ForegroundPending, BackgroundPending,
       ReleasePending, Waited, Ranked, Acquire, Release, Set, Demote, Promote
  <2>3. Stands(stack)'
    BY <1>5, <2>1, <2>2, StackStands
  <2>4. QED
    BY <1>4, <2>1, <2>3 DEF CallInv, PointersExact
<1>7. ASSUME NEW f \in MgrFrame, Undecided(f), Expand(<<f>>), CallsBack
      PROVE  CallInv'
  <2>1. Undecidedly(Tail(stack))
    BY <1>7 DEF CallsBack
  <2>2. Ranked /\ Ranked'
    BY <1>3, <1>4, <1>7, <2>1, RankedUnderneath DEF Ranked, Expand
  <2>3. PICK n \in Channel : f \in {Acquire(n), Release(n), Promote(n)}
    BY <1>7, UndecidedKinds
  <2>4. AcquirePending(n, <<f>>)' \/ ReleasePending(n, <<f>>)'
    BY <2>2, <2>3 DEF AcquirePending, ReleasePending, Acquire, Release, Promote
  <2>5. Continuation(<<f>>)'
    BY <2>4 DEF Continuation
  <2>6. <<f>> \in Seq(MgrFrame) /\ Expand(<<f>>)
    BY <1>7
  <2>7. QED
    BY <1>3, <1>4, <2>1, <2>5, <2>6, ExpandStands
<1>8. CASE ListenerGivesUp(c, to, by)
  BY <1>7, <1>8, FrameType, FrameOps DEF ListenerGivesUp, Undecided
<1>9. ASSUME NEW d \in Channel, ListenerHandsOver(c, by, d)
      PROVE  CallInv'
  BY <1>7, <1>9, FrameType, FrameOps DEF ListenerHandsOver, Undecided
<1>10. QED
  BY <1>1, <1>6, <1>8, <1>9

\* What moving a channel to a free slot, or out of its slot, does to the pointers.
LEMMA SetEffect ==
  ASSUME TypeOK, PointersExact,
         NEW c \in Channel, NEW to \in FocusState, NEW by \in Channel \cup {Nobody},
         SetFocus(c, to, by),
         to = "FOREGROUND" => fg = Nobody,
         to = "BACKGROUND" => bg = Nobody
  PROVE  /\ PointersExact'
         /\ focus' = [focus EXCEPT ![c] = to]
         /\ fg' = IF to = "FOREGROUND" THEN c ELSE IF fg = c THEN Nobody ELSE fg
         /\ bg' = IF to = "BACKGROUND" THEN c ELSE IF bg = c THEN Nobody ELSE bg
<1> USE ChannelAssumption DEF TypeOK, MgrTypeOK, FocusState, PointersExact
<1>1. CASE focus[c] = to
  <2>1. UNCHANGED <<focus, fg, bg>>
    BY <1>1 DEF SetFocus, Expand
  <2>2. to = "NONE" /\ fg # c /\ bg # c
    BY <1>1
  <2>3. QED
    BY <1>1, <2>1, <2>2
<1>2. CASE focus[c] # to
  <2>1. /\ focus' = [focus EXCEPT ![c] = to]
        /\ fg' = IF to = "FOREGROUND" THEN c ELSE IF fg = c THEN Nobody ELSE fg
        /\ bg' = IF to = "BACKGROUND" THEN c
                 ELSE IF bg = c /\ (fg # c \/ to = "FOREGROUND") THEN Nobody ELSE bg
    BY <1>2 DEF SetFocus
  <2>2. ~(fg = c /\ bg = c)
    OBVIOUS
  <2>3. bg' = IF to = "BACKGROUND" THEN c ELSE IF bg = c THEN Nobody ELSE bg
    BY <2>1, <2>2
  <2>4. QED
    BY <2>1, <2>3
<1>3. QED
  BY <1>1, <1>2

\* After a change, with or without an emit, what remains is the tail.
LEMMA SetReturns ==
  ASSUME TypeOK, NEW c \in Channel, NEW to \in FocusState, NEW by \in Channel \cup {Nobody},
         SetFocus(c, to, by),
         NEW t \in Seq(MgrFrame), NEW r \in Seq(MgrFrame),
         Tail(stack) = t \o r, Undecidedly(r), PointersExact', Continuation(t)'
  PROVE  CallInv'
<1>1. PICK s \in Seq(MgrFrame) : s = t \o r
  BY Cut
<1>2. CASE focus[c] = to
  <2>1. stack' = t \o r
    BY <1>1, <1>2, ConcatEmptySeq DEF SetFocus, Expand
  <2>2. QED
    BY <2>1, StackStands DEF CallInv
<1>3. CASE focus[c] # to
  <2>1. stack' = <<Notify(c, to, by)>> \o s
    BY <1>1, <1>3 DEF SetFocus
  <2>2. Notify(c, to, by) \in MgrFrame
    BY FrameType
  <2>3. stack' # <<>> /\ Head(stack') = Notify(c, to, by) /\ Tail(stack') = s
    BY <1>1, <2>1, <2>2, PushFrame
  <2>4. Stands(Tail(stack))'
    BY <1>1, <2>3, StackStands
  <2>5. Head(stack').op = "notify"
    BY <2>3, FrameOps
  <2>6. QED
    BY <2>3, <2>4, <2>5 DEF CallInv
<1>4. QED
  BY <1>2, <1>3

\* The continuations a channel change can be at the head of.
LEMMA SetKeepsCallInv ==
  ASSUME TypeOK, CallInv,
         NEW c \in Channel, NEW to \in FocusState, NEW by \in Channel \cup {Nobody},
         SetFocus(c, to, by)
  PROVE  CallInv'
<1> USE ChannelAssumption
<1>o. stack # <<>> /\ Head(stack) = Set(c, to, by) /\ Head(stack).op # "notify"
  BY FrameOps DEF SetFocus, Running
<1>p. PICK t, r \in Seq(MgrFrame) :
        /\ t # <<>> /\ Head(t) = Set(c, to, by)
        /\ Tail(t) \in Seq(MgrFrame) /\ Tail(stack) = Tail(t) \o r
        /\ Continuation(t) /\ Undecidedly(r)
  BY <1>o, NotTelling
<1>1. PointersExact
  BY DEF CallInv
<1>2. PICK n \in Channel : \/ AcquirePending(n, t)
                           \/ ForegroundPending(n, t)
                           \/ BackgroundPending(n, t)
                           \/ ReleasePending(n, t)
  BY <1>p DEF Continuation
<1>3. t # <<>> /\ Head(t) = Set(c, to, by)
  BY <1>p
<1>r. ASSUME NEW q, Tail(t) = q, PointersExact', Continuation(q)'
      PROVE  CallInv'
  BY <1>p, <1>r, SetReturns
<1>4. CASE AcquirePending(n, t)
  <2>1. t = <<Set(fg, "NONE", n), Acquire(n)>> /\ fg # Nobody /\ Ranked
    BY <1>3, <1>4, FrameOps DEF AcquirePending
  <2>2. c = fg /\ to = "NONE" /\ Tail(t) = <<Acquire(n)>>
    BY <1>3, <2>1, FrameOps
  <2>3. PointersExact' /\ fg' = Nobody
    BY <1>1, <2>2, SetEffect
  <2>4. Continuation(<<Acquire(n)>>)'
    BY <2>3 DEF Continuation, AcquirePending, Ranked, Acquire
  <2>5. QED
    BY <2>2, <2>3, <2>4, <1>r
<1>5. CASE ForegroundPending(n, t)
  <2> DEFINE last == <<Set(n, "FOREGROUND", Nobody)>>
  <2>1. CASE /\ t = last
             /\ fg = Nobody
             /\ bg # Nobody => Priority[n] < Priority[bg]
    <3>1. c = n /\ to = "FOREGROUND" /\ Tail(t) = <<>>
      BY <1>3, <2>1, FrameOps
    <3>2. PointersExact' /\ fg' = n /\ bg' = IF bg = n THEN Nobody ELSE bg
      BY <1>1, <2>1, <3>1, SetEffect
    <3>3. Continuation(<<>>)'
      BY <2>1, <3>2 DEF Continuation, Waited, Ranked
    <3>4. QED
      BY <3>1, <3>2, <3>3, <1>r
  <2>2. CASE /\ t = <<Set(fg, "NONE", n), Set(n, "FOREGROUND", Nobody)>>
             /\ fg # Nobody /\ Ranked /\ Priority[n] = Priority[fg]
    <3>1. c = fg /\ to = "NONE" /\ Tail(t) = last
      BY <1>3, <2>2, FrameOps
    <3>2. PointersExact' /\ fg' = Nobody /\ bg' = bg
      BY <1>1, <2>2, <3>1, SetEffect DEF PointersExact
    <3>3. Continuation(last)'
      BY <2>2, <3>2 DEF Continuation, ForegroundPending, Ranked, Set
    <3>4. QED
      BY <3>1, <3>2, <3>3, <1>r
  <2>3. CASE /\ t = <<Set(bg, "NONE", n), Set(n, "FOREGROUND", Nobody)>>
             /\ fg = Nobody /\ bg # Nobody
    <3>1. c = bg /\ to = "NONE" /\ Tail(t) = last
      BY <1>3, <2>3, FrameOps
    <3>2. PointersExact' /\ fg' = Nobody /\ bg' = Nobody
      BY <1>1, <2>3, <3>1, SetEffect
    <3>3. Continuation(last)'
      BY <3>2 DEF Continuation, ForegroundPending, Set
    <3>4. QED
      BY <3>1, <3>2, <3>3, <1>r
  <2>4. CASE /\ t = <<Set(bg, "NONE", n), Demote(n), Set(n, "FOREGROUND", Nobody)>>
             /\ fg # Nobody /\ bg # Nobody /\ Priority[n] < Priority[fg]
    <3>1. /\ c = bg /\ to = "NONE"
          /\ Tail(t) = <<Demote(n), Set(n, "FOREGROUND", Nobody)>>
      BY <1>3, <2>4, FrameOps
    <3>2. PointersExact' /\ fg' = fg /\ bg' = Nobody
      BY <1>1, <2>4, <3>1, SetEffect DEF PointersExact
    <3>3. Continuation(<<Demote(n), Set(n, "FOREGROUND", Nobody)>>)'
      BY <2>4, <3>2 DEF Continuation, ForegroundPending, Set, Demote
    <3>4. QED
      BY <3>1, <3>2, <3>3, <1>r
  <2>5. CASE /\ t = <<Set(fg, "BACKGROUND", n), Set(n, "FOREGROUND", Nobody)>>
             /\ fg # Nobody /\ bg = Nobody /\ Priority[n] < Priority[fg]
    <3>1. c = fg /\ to = "BACKGROUND" /\ Tail(t) = last
      BY <1>3, <2>5, FrameOps
    <3>2. PointersExact' /\ fg' = Nobody /\ bg' = fg
      BY <1>1, <2>5, <3>1, SetEffect
    <3>3. Continuation(last)'
      BY <2>5, <3>2 DEF Continuation, ForegroundPending, Set
    <3>4. QED
      BY <3>1, <3>2, <3>3, <1>r
  <2>6. t # <<Demote(n), Set(n, "FOREGROUND", Nobody)>>
    BY <1>3, FrameOps
  <2>7. QED
    BY <1>5, <2>1, <2>2, <2>3, <2>4, <2>5, <2>6 DEF ForegroundPending
<1>6. CASE BackgroundPending(n, t)
  <2> DEFINE last == <<Set(n, "BACKGROUND", Nobody)>>
  <2>1. CASE /\ t = last
             /\ fg # Nobody /\ bg = Nobody /\ Priority[n] > Priority[fg]
    <3>1. c = n /\ to = "BACKGROUND" /\ Tail(t) = <<>>
      BY <1>3, <2>1, FrameOps
    <3>2. PointersExact' /\ bg' = n /\ fg' = IF fg = n THEN Nobody ELSE fg
      BY <1>1, <2>1, <3>1, SetEffect
    <3>3. fg # n
      BY <2>1
    <3>4. Continuation(<<>>)'
      BY <2>1, <3>2, <3>3 DEF Continuation, Waited, Ranked
    <3>5. QED
      BY <3>1, <3>2, <3>4, <1>r
  <2>2. CASE /\ t = <<Set(bg, "NONE", n), Set(n, "BACKGROUND", Nobody)>>
             /\ fg # Nobody /\ bg # Nobody /\ Priority[n] > Priority[fg]
    <3>1. c = bg /\ to = "NONE" /\ Tail(t) = last
      BY <1>3, <2>2, FrameOps
    <3>2. PointersExact' /\ fg' = fg /\ bg' = Nobody
      BY <1>1, <2>2, <3>1, SetEffect DEF PointersExact
    <3>3. Continuation(last)'
      BY <2>2, <3>2 DEF Continuation, BackgroundPending, Set
    <3>4. QED
      BY <3>1, <3>2, <3>3, <1>r
  <2>3. CASE /\ t = <<Set(bg, "FOREGROUND", n), Set(n, "BACKGROUND", Nobody)>>
             /\ fg = Nobody /\ bg # Nobody /\ Priority[n] > Priority[bg]
    <3>1. c = bg /\ to = "FOREGROUND" /\ Tail(t) = last
      BY <1>3, <2>3, FrameOps
    <3>2. PointersExact' /\ fg' = bg /\ bg' = Nobody
      BY <1>1, <2>3, <3>1, SetEffect
    <3>3. Continuation(last)'
      BY <2>3, <3>2 DEF Continuation, BackgroundPending, Set
    <3>4. QED
      BY <3>1, <3>2, <3>3, <1>r
  <2>4. QED
    BY <1>6, <2>1, <2>2, <2>3 DEF BackgroundPending
<1>7. CASE ReleasePending(n, t)
  <2>1. CASE t = <<Set(n, "NONE", Nobody), Promote(n)>> /\ Ranked
    <3>1. c = n /\ to = "NONE" /\ Tail(t) = <<Promote(n)>>
      BY <1>3, <2>1, FrameOps
    <3>2. /\ PointersExact'
          /\ fg' = IF fg = n THEN Nobody ELSE fg
          /\ bg' = IF bg = n THEN Nobody ELSE bg
      BY <1>1, <3>1, SetEffect
    <3>3. Continuation(<<Promote(n)>>)'
      BY <2>1, <3>2 DEF Continuation, ReleasePending, Ranked, Promote
    <3>4. QED
      BY <3>1, <3>2, <3>3, <1>r
  <2>2. CASE t = <<Set(bg, "FOREGROUND", n)>> /\ fg = Nobody /\ bg # Nobody
    <3>1. c = bg /\ to = "FOREGROUND" /\ Tail(t) = <<>>
      BY <1>3, <2>2, FrameOps
    <3>2. PointersExact' /\ fg' = bg /\ bg' = Nobody
      BY <1>1, <2>2, <3>1, SetEffect
    <3>3. Continuation(<<>>)'
      BY <3>2 DEF Continuation, Waited, Ranked
    <3>4. QED
      BY <3>1, <3>2, <3>3, <1>r
  <2>3. t # <<Release(n)>> /\ t # <<Promote(n)>>
    BY <1>3 DEF Set, Release, Promote
  <2>4. QED
    BY <1>7, <2>1, <2>2, <2>3 DEF ReleasePending
<1>8. QED
  BY <1>2, <1>4, <1>5, <1>6, <1>7

\* One step of the manager, its users and its listeners keeps the invariant of
\* the calls while it stays calm.
LEMMA StepKeepsCallInv ==
  ASSUME TypeOK, CalmCalls, [Next]_vars
  PROVE  CalmCalls'
<1> SUFFICES ASSUME calm' PROVE CallInv'
  BY DEF CalmCalls
<1>1. CASE User
  <2>1. calm
    BY <1>1 DEF User, AskFor, GiveUp
  <2>2. CallInv /\ stack = <<>>
    BY <1>1, <2>1 DEF CalmCalls, User, AskFor, GiveUp
  <2>3. Ranked /\ PointersExact
    <3>1. Stands(stack) /\ PointersExact
      BY <2>2 DEF CallInv
    <3>2. Undecidedly(stack)
      BY <2>2 DEF Undecidedly
    <3>3. QED
      BY <3>1, <3>2, RankedUnderneath DEF TypeOK
  <2>4. PICK c \in Channel : stack' = <<Acquire(c)>> \/ stack' = <<Release(c)>>
    BY <1>1 DEF User, AskFor, GiveUp
  <2>f. PICK f : f \in {Acquire(c), Release(c)} /\ stack' = <<f>>
    BY <2>4
  <2>5. UNCHANGED <<focus, fg, bg>>
    BY <1>1 DEF User, AskFor, GiveUp
  <2>6. AcquirePending(c, <<f>>)' \/ ReleasePending(c, <<f>>)'
    BY <2>3, <2>f, <2>5 DEF AcquirePending, ReleasePending, Ranked, Acquire, Release
  <2>7. Continuation(<<f>>)'
    BY <2>6 DEF Continuation
  <2>8. /\ <<f>> \in Seq(MgrFrame) /\ <<>> \in Seq(MgrFrame)
        /\ <<f>> \o <<>> = <<f>> /\ Undecidedly(<<>>)
    <3>1. f \in MgrFrame
      BY <2>f, FrameType DEF FocusState
    <3>2. QED
      BY <3>1, ConcatEmptySeq DEF Undecidedly
  <2>9. stack' = <<f>> \o <<>>
    BY <2>f, <2>8
  <2>10. Stands(stack)'
    BY <2>7, <2>8, <2>9, StackStands
  <2>11. QED
    BY <2>3, <2>5, <2>10 DEF CallInv, PointersExact
<1>2. CASE MgrStep /\ UNCHANGED calm
  <2>1. CallInv
    BY <1>2 DEF CalmCalls
  <2>2. QED
    BY <1>2, <2>1, AcquireKeepsCallInv, ReleaseKeepsCallInv, SetKeepsCallInv DEF MgrStep
<1>3. CASE Listener
  <2>1. calm => CallInv
    BY DEF CalmCalls
  <2>2. QED
    BY <1>3, <2>1, ListenerKeepsCallInv
<1>4. CASE UNCHANGED vars
  <2>1. CallInv /\ UNCHANGED <<focus, fg, bg, stack>>
    BY <1>4 DEF CalmCalls, vars
  <2>2. ASSUME NEW t, Continuation(t) PROVE Continuation(t)'
    BY <2>1, <2>2 DEF Continuation, AcquirePending, ForegroundPending, BackgroundPending,
       ReleasePending, Waited, Ranked, Acquire, Release, Set, Demote, Promote
  <2>3. ASSUME Stands(stack) PROVE Stands(stack)'
    <3>1. PICK t, r \in Seq(MgrFrame) : stack = t \o r /\ Continuation(t) /\ Undecidedly(r)
      BY <2>3, StandsInTwo DEF TypeOK
    <3>2. QED
      BY <2>1, <2>2, <3>1, StackStands
  <2>4. ASSUME stack # <<>>, Stands(Tail(stack)) PROVE Stands(Tail(stack))'
    <3>1. PICK t, r \in Seq(MgrFrame) :
            Tail(stack) = t \o r /\ Continuation(t) /\ Undecidedly(r)
      BY <2>4, StandsInTwo, HeadTailProperties DEF TypeOK
    <3>2. QED
      BY <2>1, <2>2, <3>1, StackStands
  <2>5. QED
    BY <2>1, <2>3, <2>4 DEF CallInv, PointersExact
<1>5. QED
  BY <1>1, <1>2, <1>3, <1>4 DEF Next, Run

\* The invariant of the calls holds for every table and every listeners, until
\* one of them comes before a change already chosen.
THEOREM CallsAreContinuations == Spec => []CalmCalls
<1>1. Init => CalmCalls
  <2> SUFFICES ASSUME Init PROVE CallInv
    BY DEF CalmCalls
  <2>1. PointersExact /\ Continuation(<<>>) /\ stack = <<>>
    BY ChannelAssumption DEF Init, MgrInit, PointersExact, Continuation, Waited, Ranked
  <2>2. /\ <<>> \in Seq(MgrFrame) /\ <<>> \o <<>> = <<>>
        /\ SubSeq(<<>>, 1, 0) = <<>> /\ SubSeq(<<>>, 1, Len(<<>>)) = <<>>
    <3>1. <<>> \in Seq(MgrFrame) /\ Len(<<>>) = 0
      BY EmptySeq
    <3>2. <<>> \o <<>> = <<>>
      BY <3>1, ConcatEmptySeq
    <3>3. QED
      BY <3>1, <3>2, Cut
  <2>3. Stands(stack)
    <3>1. Len(<<>>) = 0 /\ 0 \in 0..Len(<<>>) /\ 0 + 1 = 1
      OBVIOUS
    <3>2. Undecidedly(<<>>)
      BY <3>1 DEF Undecidedly
    <3>3. Continuation(SubSeq(<<>>, 1, 0)) /\ Undecidedly(SubSeq(<<>>, 0 + 1, Len(<<>>)))
      BY <2>1, <2>2, <3>1, <3>2
    <3>4. Stands(<<>>)
      BY <3>1, <3>3 DEF Stands
    <3>5. QED
      BY <2>1, <3>4
  <2>4. QED
    BY <2>1, <2>3 DEF CallInv
<1>2. TypeOK /\ CalmCalls /\ [Next]_vars => CalmCalls'
  BY StepKeepsCallInv
<1>3. QED
  BY <1>1, <1>2, TypeCorrect, PTL DEF Spec

\* No two channels are in the foreground in any state, inside a call or between
\* two, whoever calls back, until a listener comes before a change already chosen.
THEOREM ForegroundIsExclusive == Spec => []SingleForeground
<1>1. CalmCalls => SingleForeground
  BY DEF CalmCalls, CallInv, PointersExact, SingleForeground
<1>2. QED
  BY <1>1, CallsAreContinuations, PTL

\* Between events the invariant says that nobody waits for nobody and that the
\* slots are ranked.
LEMMA IdleStands ==
  ASSUME CallInv, Idle
  PROVE  Waited /\ Ranked
<1>1. stack = <<>> /\ <<>> \in Seq(MgrFrame)
  BY DEF Idle
<1>2. PICK t, r \in Seq(MgrFrame) : stack = t \o r /\ Continuation(t) /\ Undecidedly(r)
  BY <1>1, StandsInTwo DEF CallInv
<1>3. t = <<>>
  <2>1. ASSUME t # <<>> PROVE FALSE
    BY <1>1, <1>2, <2>1, FirstPart
  <2>2. QED
    BY <2>1
<1>4. QED
  BY <1>2, <1>3, FrameOps
  DEF Continuation, AcquirePending, ForegroundPending, BackgroundPending, ReleasePending

\* Between events nobody waits behind an empty foreground, whoever calls back,
\* until a listener comes before a change already chosen.
THEOREM WaitingIsJustified == Spec => []NoWaitingForNobody
<1>1. CalmCalls => NoWaitingForNobody
  BY IdleStands DEF CalmCalls, Waited, NoWaitingForNobody
<1>2. QED
  BY <1>1, CallsAreContinuations, PTL

\* Between events the foreground channel is strictly more important than the
\* one that waits, whoever calls back, until a listener comes before a change
\* already chosen.
THEOREM ForegroundIsRanked == Spec => []ForegroundOutranksBackground
<1>1. CalmCalls => ForegroundOutranksBackground
  BY IdleStands DEF CalmCalls, Ranked, ForegroundOutranksBackground
<1>2. QED
  BY <1>1, CallsAreContinuations, PTL

\* A channel is moved to a slot only when the slot is free.
LEMMA SlotIsFree ==
  ASSUME TypeOK, CallInv,
         NEW c \in Channel, NEW to \in FocusState, NEW by \in Channel \cup {Nobody},
         SetFocus(c, to, by)
  PROVE  /\ PointersExact
         /\ to = "FOREGROUND" => fg = Nobody
         /\ to = "BACKGROUND" => bg = Nobody
<1>1. stack # <<>> /\ Head(stack) = Set(c, to, by) /\ Head(stack).op # "notify"
  BY FrameOps DEF SetFocus, Running
<1>2. PICK t \in Seq(MgrFrame) : t # <<>> /\ Head(t) = Set(c, to, by) /\ Continuation(t)
  BY <1>1, NotTelling
<1>3. PICK n \in Channel : \/ AcquirePending(n, t)
                           \/ ForegroundPending(n, t)
                           \/ BackgroundPending(n, t)
                           \/ ReleasePending(n, t)
  BY <1>2 DEF Continuation
<1>4. PointersExact
  BY DEF CallInv
<1>5. CASE AcquirePending(n, t)
  BY <1>2, <1>4, <1>5 DEF AcquirePending, Set, Acquire
<1>6. CASE ForegroundPending(n, t)
  BY <1>2, <1>4, <1>6 DEF ForegroundPending, Set, Demote
<1>7. CASE BackgroundPending(n, t)
  BY <1>2, <1>4, <1>7 DEF BackgroundPending, Set
<1>8. CASE ReleasePending(n, t)
  BY <1>2, <1>4, <1>8 DEF ReleasePending, Set, Release, Promote
<1>9. QED
  BY <1>3, <1>4, <1>5, <1>6, <1>7, <1>8

\* The manager implements the two exclusive slots of FocusSlots, callbacks
\* included, until a listener comes before a change already chosen.
THEOREM MgrImplementsSlots == Spec => ImplementsSlots
<1>1. Init => Slots!Init
  BY DEF Init, MgrInit, Slots!Init
<1>2. TypeOK /\ CalmCalls /\ [Next]_vars => [Slots!Next]_<<focus, calm>>
  <2> SUFFICES ASSUME TypeOK, CalmCalls, Next
               PROVE  [Slots!Next]_<<focus, calm>>
    BY DEF vars
  <2>1. CASE calm' = FALSE
    BY <2>1 DEF Slots!Next
  <2>2. CASE calm' # FALSE
    <3>1. calm' \in BOOLEAN
      BY Zenon DEF Next, User, AskFor, GiveUp, Run, Listener, ListenerReturns, ListenerGivesUp,
         ListenerHandsOver, CallsBack, TypeOK
    <3>2. calm = TRUE /\ calm' = TRUE
      <4>1. calm'
        BY <2>2, <3>1
      <4>2. calm' => calm
        BY Zenon DEF Next, User, AskFor, GiveUp, Run, Listener, ListenerReturns, ListenerGivesUp,
           ListenerHandsOver, CallsBack
      <4>3. QED
        BY <3>1, <4>1, <4>2 DEF TypeOK
    <3>3. CallInv
      BY <3>2 DEF CalmCalls
    <3>4. CASE UNCHANGED <<focus, fg, bg>>
      BY <3>2, <3>4
    <3>5. ASSUME NEW c \in Channel, NEW to \in FocusState, NEW by \in Channel \cup {Nobody},
                 SetFocus(c, to, by), focus[c] # to
          PROVE  Slots!Moves
      <4>1. focus' = [focus EXCEPT ![c] = to]
        BY <3>5 DEF SetFocus
      <4>2. CASE to = "NONE"
        <5>1. focus[c] \in Slots!Slot
          BY <3>5, <4>2 DEF TypeOK, MgrTypeOK, FocusState, Slots!Slot
        <5>2. QED
          BY <4>1, <4>2, <5>1 DEF Slots!Moves, Slots!Leave
      <4>3. CASE to # "NONE"
        <5>1. to \in Slots!Slot
          BY <4>3 DEF FocusState, Slots!Slot
        <5>2. Slots!Free(to)
          BY <3>3, <3>5, <5>1, SlotIsFree, ChannelAssumption
          DEF PointersExact, Slots!Free, Slots!Slot
        <5>3. QED
          BY <4>1, <5>1, <5>2 DEF Slots!Moves, Slots!Enter
      <4>4. QED
        BY <4>2, <4>3
    <3>6. QED
      BY <3>2, <3>4, <3>5, OnlySetFocusWrites DEF Slots!Next
  <2>3. QED
    BY <2>1, <2>2
<1>3. QED
  BY <1>1, <1>2, TypeCorrect, CallsAreContinuations, PTL DEF Spec, ImplementsSlots, Slots!Spec

=============================================================================
