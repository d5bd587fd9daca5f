----------------------------- MODULE MCPlayback -----------------------------
(***************************************************************************)
(* Playback on the instances of the Playback_*.cfg files.  Items are       *)
(* numbered in the order they are asked for, so no symmetry is used.       *)
(***************************************************************************)
EXTENDS Playback

\* What a step depends on, and cut.
Present ==
  <<cmds, reports, directives, sourceId, mPlaying, mFinished, offset, status, stopTid, stream, notes, telling,
    [player EXCEPT !.over = {}, !.stale = FALSE, !.hasty = FALSE, !.crossed = FALSE]>>

\* States that differ in nothing else go on alike.  While the calm lasts the properties also read
\* what is over and what was heard; when it has ended they tell such states apart no more.
Told == <<Present, Calm, IF Calm THEN <<player.over, heard>> ELSE <<>> >>

\* Bound: reports and notes that have not been handled
Few == Len(reports) + Len(notes) <= 5

=============================================================================
