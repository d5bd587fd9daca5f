------------------------------- MODULE AudioMgr -------------------------------
(***************************************************************************)
(* EVSAudioMgr (smartSpeakerApp/src/evsAudioMgr.js): the manager that      *)
(* gives one audio channel the foreground and another the background.      *)
(*                                                                         *)
(* The program is single threaded JavaScript, but _setChannelFocus ends in *)
(* a synchronous emit: a listener runs in the middle of acquireChannel or  *)
(* releaseChannel and may call the manager again.  The pending part of     *)
(* every call is therefore kept on an explicit call stack, one frame per   *)
(* statement still to run, innermost first.  Nothing but the frame on top  *)
(* may run while the stack is not empty (run to completion).               *)
(*                                                                         *)
(* This module only says how the manager runs its own frames.  A module    *)
(* that extends it says who calls it and what the listeners do with a      *)
(* "notify" frame.                                                         *)
(***************************************************************************)
EXTENDS Naturals, Sequences

CONSTANTS
  Channel,    \* the audio channels (ChannelType)
  Priority,   \* channels[c].priority: the smaller, the more important
  CaptureOn,  \* channels[c].captureOn: whom c takes the foreground from at once
  Nobody      \* null: no channel

ASSUME ChannelAssumption ==
  /\ Priority \in [Channel -> Nat]
  /\ CaptureOn \in [Channel -> SUBSET Channel]
  /\ Nobody \notin Channel

VARIABLES
  focus,  \* channels[c].state
  fg,     \* foregroundChannel
  bg,     \* backgroundChannel
  stack   \* frames still to run

mgrVars == <<focus, fg, bg, stack>>

FocusState == {"FOREGROUND", "BACKGROUND", "NONE"}

(***************************************************************************)
(* Frames.                                                                 *)
(***************************************************************************)
Acquire(c)      == [op |-> "acquire", ch |-> c]
Release(c)      == [op |-> "release", ch |-> c]
\* _setChannelFocus(c, to, by)
Set(c, to, by)  == [op |-> "set", ch |-> c, to |-> to, by |-> by]
\* _setChannelFocus(this.foregroundChannel, BACKGROUND, by): it reads the
\* field only when its turn comes, after the listeners of the statement before.
Demote(by)      == [op |-> "demote", by |-> by]
\* The tail of releaseChannel.
Promote(by)     == [op |-> "promote", by |-> by]
\* this.emit(c, to, by)
Notify(c, to, by) == [op |-> "notify", ch |-> c, to |-> to, by |-> by]

MgrFrame ==
  {Acquire(c) : c \in Channel} \cup {Release(c) : c \in Channel}
    \cup {Demote(by) : by \in Channel} \cup {Promote(by) : by \in Channel}
    \cup {Set(c, to, by) : c \in Channel, to \in FocusState, by \in Channel \cup {Nobody}}
    \cup {Notify(c, to, by) : c \in Channel, to \in FocusState, by \in Channel \cup {Nobody}}

MgrInit ==
  /\ focus = [c \in Channel |-> "NONE"]
  /\ fg = Nobody
  /\ bg = Nobody

Running(f) == stack # <<>> /\ Head(stack) = f

\* The frame on top is replaced by the statements it expands to.
Expand(frames) ==
  /\ stack' = frames \o Tail(stack)
  /\ UNCHANGED <<focus, fg, bg>>

(***************************************************************************)
(* Faults: what the actions below would be with a likely slip in the code. *)
(* Each breaks a property (see the README).                                *)
(***************************************************************************)
\* The captured channel is never taken out of the foreground.
AcquireCapturingKeeping(n) ==
  /\ Running(Acquire(n))
  /\ fg # Nobody
  /\ fg \in CaptureOn[n]
  /\ Expand(<<Acquire(n)>>)

\* The new channel is told before the old one.
AcquireFromEqualLate(n) ==
  /\ Running(Acquire(n))
  /\ fg # Nobody
  /\ fg \notin CaptureOn[n]
  /\ Priority[n] = Priority[fg]
  /\ Expand(<<Set(n, "FOREGROUND", Nobody), Set(fg, "NONE", n)>>)

\* The channel already in the background is forgotten.
AcquireOverForegroundOnly(n) ==
  /\ Running(Acquire(n))
  /\ fg # Nobody
  /\ fg \notin CaptureOn[n]
  /\ Priority[n] < Priority[fg]
  /\ Expand(<<Demote(n), Set(n, "FOREGROUND", Nobody)>>)

\* The channel in the background is told after the one that replaces it.
AcquireBehindForegroundLate(n) ==
  /\ Running(Acquire(n))
  /\ fg # Nobody
  /\ fg \notin CaptureOn[n]
  /\ Priority[n] > Priority[fg]
  /\ Expand(IF bg = Nobody THEN <<Set(n, "BACKGROUND", Nobody)>>
            ELSE <<Set(n, "BACKGROUND", Nobody), Set(bg, "NONE", n)>>)

\* A newcomer goes to the foreground whatever waits in the background.
AcquireAheadOfBackground(n) ==
  /\ Running(Acquire(n))
  /\ fg = Nobody
  /\ bg # Nobody
  /\ Expand(<<Set(n, "FOREGROUND", Nobody)>>)

\* A release that does not promote the channel that waits.
ReleaseWithoutPromotion(n) ==
  /\ Running(Release(n))
  /\ Expand(<<Set(n, "NONE", Nobody)>>)

\* A promotion that does not look whether anybody waits.
PromoteUnchecked(n) ==
  /\ Running(Promote(n))
  /\ Expand(IF fg = Nobody THEN <<Set(bg, "FOREGROUND", n)>> ELSE <<>>)

\* A channel that loses the foreground keeps the pointer.
SetFocusKeepingPointer(c, to, by) ==
  /\ Running(Set(c, to, by))
  /\ IF focus[c] = to
     THEN Expand(<<>>)
     ELSE /\ fg' = IF to = "FOREGROUND" THEN c ELSE fg
          /\ bg' = IF to = "BACKGROUND" THEN c ELSE IF bg = c THEN Nobody ELSE bg
          /\ focus' = [focus EXCEPT ![c] = to]
          /\ stack' = <<Notify(c, to, by)>> \o Tail(stack)

(***************************************************************************)
(* acquireChannel(n), one action per branch.                               *)
(***************************************************************************)
\* n takes the focus away from a foreground channel it captures, then asks again.
AcquireCapturing(n) ==
  /\ Running(Acquire(n))
  /\ fg # Nobody
  /\ fg \in CaptureOn[n]
  /\ Expand(<<Set(fg, "NONE", n), Acquire(n)>>)

\* An equally important foreground channel (or n itself) gives way.
AcquireFromEqual(n) ==
  /\ Running(Acquire(n))
  /\ fg # Nobody
  /\ fg \notin CaptureOn[n]
  /\ Priority[n] = Priority[fg]
  /\ Expand(<<Set(fg, "NONE", n), Set(n, "FOREGROUND", Nobody)>>)

\* A less important foreground channel moves to the background.
AcquireOverForeground(n) ==
  /\ Running(Acquire(n))
  /\ fg # Nobody
  /\ fg \notin CaptureOn[n]
  /\ Priority[n] < Priority[fg]
  /\ \/ /\ bg = Nobody
        /\ Expand(<<Demote(n), Set(n, "FOREGROUND", Nobody)>>)
     \/ /\ bg # Nobody
        /\ Expand(<<Set(bg, "NONE", n), Demote(n), Set(n, "FOREGROUND", Nobody)>>)

\* n waits behind a more important foreground channel, if the background is
\* free or held by a channel that is not more important than n.
AcquireBehindForeground(n) ==
  /\ Running(Acquire(n))
  /\ fg # Nobody
  /\ fg \notin CaptureOn[n]
  /\ Priority[n] > Priority[fg]
  /\ \/ /\ bg = Nobody
        /\ Expand(<<Set(n, "BACKGROUND", Nobody)>>)
     \/ /\ bg # Nobody
        /\ Priority[n] <= Priority[bg]
        /\ Expand(<<Set(bg, "NONE", n), Set(n, "BACKGROUND", Nobody)>>)
     \/ /\ bg # Nobody
        /\ Priority[n] > Priority[bg]
        /\ Expand(<<>>)

\* Nobody is in the foreground, somebody in the background: the more important
\* of the two is the new foreground, an equal one loses its place.
AcquireWithBackground(n) ==
  /\ Running(Acquire(n))
  /\ fg = Nobody
  /\ bg # Nobody
  /\ \/ /\ Priority[n] < Priority[bg]
        /\ Expand(<<Set(n, "FOREGROUND", Nobody)>>)
     \/ /\ Priority[n] = Priority[bg]
        /\ Expand(<<Set(bg, "NONE", n), Set(n, "FOREGROUND", Nobody)>>)
     \/ /\ Priority[n] > Priority[bg]
        /\ Expand(<<Set(bg, "FOREGROUND", n), Set(n, "BACKGROUND", Nobody)>>)

AcquireIdle(n) ==
  /\ Running(Acquire(n))
  /\ fg = Nobody
  /\ bg = Nobody
  /\ Expand(<<Set(n, "FOREGROUND", Nobody)>>)

(***************************************************************************)
(* releaseChannel(n)                                                       *)
(***************************************************************************)
ReleaseFocus(n) ==
  /\ Running(Release(n))
  /\ Expand(<<Set(n, "NONE", Nobody), Promote(n)>>)

PromoteBackground(n) ==
  /\ Running(Promote(n))
  /\ Expand(IF fg = Nobody /\ bg # Nobody THEN <<Set(bg, "FOREGROUND", n)>> ELSE <<>>)

DemoteForeground(n) ==
  /\ Running(Demote(n))
  /\ fg # Nobody
  /\ Expand(<<Set(fg, "BACKGROUND", n)>>)

(***************************************************************************)
(* _setChannelFocus(c, to, by): nothing if c is already there, else move   *)
(* the two pointers and the state together and emit.                       *)
(***************************************************************************)
SetFocus(c, to, by) ==
  /\ Running(Set(c, to, by))
  /\ IF focus[c] = to
     THEN Expand(<<>>)
     ELSE /\ fg' = IF to = "FOREGROUND" THEN c ELSE IF fg = c THEN Nobody ELSE fg
          /\ bg' = IF to = "BACKGROUND" THEN c
                   ELSE IF bg = c /\ (fg # c \/ to = "FOREGROUND") THEN Nobody ELSE bg
          /\ focus' = [focus EXCEPT ![c] = to]
          /\ stack' = <<Notify(c, to, by)>> \o Tail(stack)

MgrStep ==
  \/ \E n \in Channel :
       \/ AcquireCapturing(n)
       \/ AcquireFromEqual(n)
       \/ AcquireOverForeground(n)
       \/ AcquireBehindForeground(n)
       \/ AcquireWithBackground(n)
       \/ AcquireIdle(n)
       \/ ReleaseFocus(n)
       \/ PromoteBackground(n)
       \/ DemoteForeground(n)
  \/ \E c \in Channel, to \in FocusState, by \in Channel \cup {Nobody} :
       SetFocus(c, to, by)

MgrTypeOK ==
  /\ focus \in [Channel -> FocusState]
  /\ fg \in Channel \cup {Nobody}
  /\ bg \in Channel \cup {Nobody}

=============================================================================
