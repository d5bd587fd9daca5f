------------------------------ MODULE AudioFocus ------------------------------
(***************************************************************************)
(* The audio channel manager with its users: any channel may be asked for  *)
(* or given up between two events, and the listeners of a focus change may *)
(* call the manager back.  Only two kinds of listener do so:               *)
(*   - EVSCapAudioPlayer._onTTSFocusState: when TTS loses its focus the    *)
(*     playback kept back during the speech is handed to the content       *)
(*     player, which asks for its channel if it has none;                  *)
(*   - EVSAudioPlayer._onFocusState: told of any change while it waits for *)
(*     a stop, the content player gives its channel up.                    *)
(***************************************************************************)
EXTENDS AudioMgr

CONSTANTS
  HandsOver,      \* pairs <<c, d>>: a listener of c's loss may acquire d
  GivesUp         \* channels whose listener may release them on any change

ASSUME ListenerAssumption ==
  /\ HandsOver \subseteq Channel \X Channel
  /\ GivesUp \subseteq Channel

\* History variables, which only the properties read.
VARIABLES
  asked,  \* the channel last asked for and not given up since
  calm    \* no listener has called back before a change already chosen

vars == <<focus, fg, bg, stack, asked, calm>>

(***************************************************************************)
(* Users, between two events.                                              *)
(***************************************************************************)
AskFor(c) ==
  /\ stack = <<>>
  /\ stack' = <<Acquire(c)>>
  /\ asked' = c
  /\ UNCHANGED <<focus, fg, bg, calm>>

GiveUp(c) ==
  /\ stack = <<>>
  /\ stack' = <<Release(c)>>
  /\ asked' = IF asked = c THEN Nobody ELSE asked
  /\ UNCHANGED <<focus, fg, bg, calm>>

(***************************************************************************)
(* Listeners, in the middle of a call.  What a listener asks of the        *)
(* manager is done before the statements left of the call that told it.    *)
(* An acquire, a release or the end of a release looks at the pointers     *)
(* when its turn comes.  The changes acquireChannel still has to make were *)
(* chosen before the listener was told.                                    *)
(***************************************************************************)
Undecided(f) == f.op \in {"acquire", "release", "promote"}

Undecidedly(s) == \A i \in 1..Len(s) : Undecided(s[i])

CallsBack == calm' = (calm /\ Undecidedly(Tail(stack)))

ListenerReturns(c, to, by) ==
  /\ Running(Notify(c, to, by))
  /\ Expand(<<>>)
  /\ UNCHANGED calm

ListenerHandsOver(c, by, d) ==
  /\ Running(Notify(c, "NONE", by))
  /\ <<c, d>> \in HandsOver
  /\ focus[d] = "NONE"
  /\ Expand(<<Acquire(d)>>)
  /\ CallsBack

ListenerGivesUp(c, to, by) ==
  /\ Running(Notify(c, to, by))
  /\ c \in GivesUp
  /\ Expand(<<Release(c)>>)
  /\ CallsBack

Listener ==
  \E c \in Channel, by \in Channel \cup {Nobody} :
    \/ \E to \in FocusState : ListenerReturns(c, to, by) \/ ListenerGivesUp(c, to, by)
    \/ \E d \in Channel : ListenerHandsOver(c, by, d)

User == \E c \in Channel : AskFor(c) \/ GiveUp(c)

Init == MgrInit /\ stack = <<>> /\ asked = Nobody /\ calm = TRUE

\* One frame of the call under way.
Run ==
  /\ (MgrStep /\ UNCHANGED calm) \/ Listener
  /\ UNCHANGED asked

Next == User \/ Run

Spec == Init /\ [][Next]_vars

\* A handler that has started runs to its end; nobody has to call.
FairSpec == Spec /\ WF_vars(Run)

-------------------------------------------------------------------------------
Idle == stack = <<>>

TypeOK ==
  /\ MgrTypeOK
  /\ stack \in Seq(MgrFrame)
  /\ calm \in BOOLEAN

(***************************************************************************)
(* The two pointers and the per-channel states are written by separate     *)
(* assignments of _setChannelFocus; in every state, between and inside     *)
(* calls, the channel a pointer names is in the state the pointer stands   *)
(* for, so one channel never holds both.  It holds whatever listeners do.  *)
(***************************************************************************)
PointersMatchStates ==
  /\ fg # Nobody => focus[fg] = "FOREGROUND"
  /\ bg # Nobody => focus[bg] = "BACKGROUND"

(***************************************************************************)
(* acquireChannel takes the focus from the present foreground channel      *)
(* before it gives it to the next, so that two channels are never in the   *)
(* foreground together, nor in the background, not even for the listeners  *)
(* that are told in the middle of a call.  In the foreground that is so    *)
(* until a listener comes before a change already chosen; in the           *)
(* background whatever the source's listeners do.                          *)
(***************************************************************************)
SingleForeground ==
  calm => \A c, d \in Channel :
            focus[c] = "FOREGROUND" /\ focus[d] = "FOREGROUND" => c = d

SingleBackground ==
  \A c, d \in Channel :
    focus[c] = "BACKGROUND" /\ focus[d] = "BACKGROUND" => c = d

(***************************************************************************)
(* Between events no channel waits in the background of nobody: every way  *)
(* out of acquireChannel and releaseChannel that empties the foreground    *)
(* promotes the channel that waited, listeners that call back in between   *)
(* included, until one comes before a change already chosen.               *)
(***************************************************************************)
NoWaitingForNobody == calm /\ Idle /\ bg # Nobody => fg # Nobody

(***************************************************************************)
(* Between events the foreground channel is more important than the one    *)
(* that waits behind it, whatever the order in which they came, captures,  *)
(* equal priorities and listeners that call back included, until one comes *)
(* before a change already chosen.                                         *)
(***************************************************************************)
ForegroundOutranksBackground ==
  calm /\ Idle /\ fg # Nobody /\ bg # Nobody => Priority[fg] < Priority[bg]

(***************************************************************************)
(* A request is always granted: when acquireChannel(c) has returned, and   *)
(* until another channel is asked for, c is in the foreground or waits in  *)
(* the background.  The branch of acquireChannel that drops a request is   *)
(* not reached with the tables of the source.                              *)
(***************************************************************************)
RequestGranted ==
  Idle /\ asked # Nobody /\ asked \notin GivesUp => focus[asked] # "NONE"

(***************************************************************************)
(* Seen by the listeners, the manager is the two slots of FocusSlots: the  *)
(* order of the statements of acquireChannel never puts a channel in a     *)
(* slot that another still holds, whatever statement a listener is told    *)
(* from, until a listener comes before a change already chosen.            *)
(***************************************************************************)
Slots == INSTANCE FocusSlots WITH Channel <- Channel, focus <- focus, calm <- calm
ImplementsSlots == Slots!Spec

(***************************************************************************)
(* Every call returns: neither the recursion of acquireChannel nor the     *)
(* callbacks of the listeners can go round for ever.                       *)
(***************************************************************************)
CallsReturn == ~Idle ~> Idle

-------------------------------------------------------------------------------
(***************************************************************************)
(* Why the promise is kept.  A pointer names the one channel in its state, *)
(* and the frames still to run are one of the continuations of             *)
(* acquireChannel and releaseChannel, each under the condition its branch  *)
(* left behind, and behind it frames that look at the pointers when their  *)
(* turn comes: what the calls around it have left to do.                   *)
(***************************************************************************)
PointersExact ==
  \A c \in Channel : /\ focus[c] = "FOREGROUND" <=> fg = c
                     /\ focus[c] = "BACKGROUND" <=> bg = c

Ranked == fg # Nobody /\ bg # Nobody => Priority[fg] < Priority[bg]

Waited == bg # Nobody => fg # Nobody

\* n goes to the foreground as soon as the frames before it have run.
ForegroundPending(n, s) ==
  \/ /\ s = <<Set(n, "FOREGROUND", Nobody)>>
     /\ fg = Nobody
     /\ bg # Nobody => Priority[n] < Priority[bg]
  \/ /\ s = <<Set(fg, "NONE", n), Set(n, "FOREGROUND", Nobody)>>
     /\ fg # Nobody /\ Ranked /\ Priority[n] = Priority[fg]
  \/ /\ s = <<Set(bg, "NONE", n), Set(n, "FOREGROUND", Nobody)>>
     /\ fg = Nobody /\ bg # Nobody
  \/ /\ s = <<Set(bg, "NONE", n), Demote(n), Set(n, "FOREGROUND", Nobody)>>
     /\ fg # Nobody /\ bg # Nobody /\ Priority[n] < Priority[fg]
  \/ /\ s = <<Demote(n), Set(n, "FOREGROUND", Nobody)>>
     /\ fg # Nobody /\ bg = Nobody /\ Priority[n] < Priority[fg]
  \/ /\ s = <<Set(fg, "BACKGROUND", n), Set(n, "FOREGROUND", Nobody)>>
     /\ fg # Nobody /\ bg = Nobody /\ Priority[n] < Priority[fg]

BackgroundPending(n, s) ==
  \/ /\ s = <<Set(n, "BACKGROUND", Nobody)>>
     /\ fg # Nobody /\ bg = Nobody /\ Priority[n] > Priority[fg]
  \/ /\ s = <<Set(bg, "NONE", n), Set(n, "BACKGROUND", Nobody)>>
     /\ fg # Nobody /\ bg # Nobody /\ Priority[n] > Priority[fg]
  \/ /\ s = <<Set(bg, "FOREGROUND", n), Set(n, "BACKGROUND", Nobody)>>
     /\ fg = Nobody /\ bg # Nobody /\ Priority[n] > Priority[bg]

AcquirePending(n, s) ==
  \/ s = <<Acquire(n)>> /\ Ranked
  \/ s = <<Set(fg, "NONE", n), Acquire(n)>> /\ fg # Nobody /\ Ranked

ReleasePending(n, s) ==
  \/ s = <<Release(n)>> /\ Ranked
  \/ s = <<Set(n, "NONE", Nobody), Promote(n)>> /\ Ranked
  \/ s = <<Promote(n)>> /\ Ranked
  \/ s = <<Set(bg, "FOREGROUND", n)>> /\ fg = Nobody /\ bg # Nobody

Continuation(s) ==
  \/ s = <<>> /\ Waited /\ Ranked
  \/ \E n \in Channel : \/ AcquirePending(n, s)
                        \/ ForegroundPending(n, s)
                        \/ BackgroundPending(n, s)
                        \/ ReleasePending(n, s)

\* The first k frames of s are a continuation, the others undecided.
Stands(s) ==
  \E k \in 0..Len(s) : Continuation(SubSeq(s, 1, k)) /\ Undecidedly(SubSeq(s, k + 1, Len(s)))

CallInv ==
  /\ PointersExact
  /\ \/ Stands(stack)
     \/ /\ stack # <<>>
        /\ Head(stack).op = "notify"
        /\ Stands(Tail(stack))

CalmCalls == calm => CallInv

=============================================================================
