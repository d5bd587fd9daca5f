----------------------------- MODULE SharedStream -----------------------------
(***************************************************************************)
(* The ring buffer between the thread that captures sound and the event    *)
(* loop that sends it (jsruntime/src/SDS: Writer.h, Reader.h,              *)
(* BufferLayout.h), as the runtime uses it: one NONBLOCKABLE writer        *)
(* (SharedStreamSink::onAudio), which waits for nobody, and one            *)
(* NONBLOCKING reader (SharedStreamReader_read, from an interval timer).   *)
(*                                                                         *)
(* The threads share the cursors, which are atomic, and the words, which   *)
(* nothing protects: a memcpy copies its words one by one, in any order.   *)
(* Word i of the stream is written i.  With a writer that waits for nobody *)
(* no one looks at oldestUnconsumedCursor, which is left out with its lock *)
(* and its condition variables; so are close indices and the writer's      *)
(* close(), which have no caller.                                          *)
(***************************************************************************)
EXTENDS Integers

CONSTANTS
  DataSize,   \* words in the buffer
  MaxBlock,   \* bound: words a write is asked to write
  ReadWords,  \* words a read asks for
  RollBack,   \* words before the writer that a new reader starts at
  MaxIndex    \* bound: words ever written

ASSUME StreamAssumption ==
  /\ {DataSize, MaxBlock, ReadWords} \subseteq Nat \ {0}
  /\ {RollBack, MaxIndex} \subseteq Nat

VARIABLES
  writeStart, \* header->writeStartCursor
  writeEnd,   \* header->writeEndCursor
  data,       \* the circular data, -1 where nothing was ever written
  writing,    \* indices a write has yet to copy
  cursor,     \* *m_readerCursor
  step,       \* where the reader's thread is
  goal,       \* where the read or the seek under way takes the cursor
  reading,    \* indices a read has yet to copy
  buf         \* the words it has copied, with their indices

writerVars == <<writeStart, writeEnd, data, writing>>
readerVars == <<cursor, step, goal, reading, buf>>
streamVars == <<writerVars, readerVars>>

Index == 0..MaxIndex
Slot == 0..(DataSize - 1)

\* getData(i)
SlotOf(i) == i % DataSize

Least(m, n) == IF m < n THEN m ELSE n

\* (writeEndCursor - at) > getDataSize()
Lapped(at) == writeEnd - at > DataSize

-------------------------------------------------------------------------------
(***************************************************************************)
(* Writer::write                                                           *)
(***************************************************************************)
\* Fault: a write longer than the buffer is not cut.
BeginWriteUncut(n) ==
  /\ writeEnd = writeStart
  /\ writeStart + n <= MaxIndex
  /\ writeEnd' = writeStart + n
  /\ writing' = writeStart..(writeEnd' - 1)
  /\ UNCHANGED <<writeStart, data, readerVars>>

BeginWrite(n) ==
  /\ writeEnd = writeStart
  /\ writeStart + n <= MaxIndex
  /\ writeEnd' = writeStart + Least(n, DataSize)
  /\ writing' = writeStart..(writeEnd' - 1)
  /\ UNCHANGED <<writeStart, data, readerVars>>

WriteWord(i) ==
  /\ i \in writing
  /\ data' = [data EXCEPT ![SlotOf(i)] = i]
  /\ writing' = writing \ {i}
  /\ UNCHANGED <<writeStart, writeEnd, readerVars>>

\* Fault: the block is announced while it is being copied.
PublishEarly ==
  /\ writeStart # writeEnd
  /\ writeStart' = writeEnd
  /\ UNCHANGED <<writeEnd, data, writing, readerVars>>

Publish ==
  /\ writing = {}
  /\ writeStart # writeEnd
  /\ writeStart' = writeEnd
  /\ UNCHANGED <<writeEnd, data, writing, readerVars>>

-------------------------------------------------------------------------------
(***************************************************************************)
(* Reader::seek(back, BEFORE_WRITER)                                       *)
(***************************************************************************)
Aim(back) ==
  /\ IF back > writeStart
     THEN step' = "idle" /\ UNCHANGED goal
     ELSE step' = "seek" /\ goal' = writeStart - back
  /\ UNCHANGED <<writerVars, cursor, reading, buf>>

Seek ==
  /\ step = "seek"
  /\ step' = "idle"
  /\ cursor' = IF Lapped(goal) THEN cursor ELSE goal
  /\ UNCHANGED <<writerVars, goal, reading, buf>>

(***************************************************************************)
(* enableStreamPuller: a reader at the writer, then rolled back a little.  *)
(* Closing it destroys it.                                                 *)
(***************************************************************************)
Open ==
  /\ step = "closed"
  /\ step' = "opened"
  /\ cursor' = writeStart
  /\ UNCHANGED <<writerVars, goal, reading, buf>>

StartBack ==
  /\ step = "opened"
  /\ Aim(RollBack)

Close ==
  /\ step = "idle"
  /\ step' = "closed"
  /\ cursor' = writeStart
  /\ buf' = {}
  /\ UNCHANGED <<writerVars, goal, reading>>

-------------------------------------------------------------------------------
(***************************************************************************)
(* Reader::read; SharedStreamReader_read skips to the writer when it was   *)
(* overrun.                                                                *)
(***************************************************************************)
BeginRead ==
  /\ step = "idle"
  /\ buf' = {}
  /\ step' = IF Lapped(cursor) THEN "overrun" ELSE "tell"
  /\ UNCHANGED <<writerVars, cursor, goal, reading>>

\* Fault: what is asked for is not limited to what is available.
TellAsked ==
  /\ step = "tell"
  /\ IF writeStart = cursor
     THEN step' = "idle" /\ UNCHANGED <<goal, reading>>
     ELSE /\ goal' = cursor + ReadWords
          /\ reading' = cursor..(goal' - 1)
          /\ step' = "copy"
  /\ UNCHANGED <<writerVars, cursor, buf>>

\* tell(BEFORE_WRITER): nothing available is WOULDBLOCK
Tell ==
  /\ step = "tell"
  /\ IF writeStart <= cursor
     THEN step' = "idle" /\ UNCHANGED <<goal, reading>>
     ELSE /\ goal' = cursor + Least(ReadWords, writeStart - cursor)
          /\ reading' = cursor..(goal' - 1)
          /\ step' = "copy"
  /\ UNCHANGED <<writerVars, cursor, buf>>

ReadWord(i) ==
  /\ step = "copy"
  /\ i \in reading
  /\ buf' = buf \cup {[at |-> i, word |-> data[SlotOf(i)]]}
  /\ reading' = reading \ {i}
  /\ UNCHANGED <<writerVars, cursor, step, goal>>

Advance ==
  /\ step = "copy"
  /\ reading = {}
  /\ cursor' = goal
  /\ step' = "check"
  /\ UNCHANGED <<writerVars, goal, reading, buf>>

\* The final check for overrun: the words are given to the caller, or not.
Check ==
  /\ step = "check"
  /\ IF Lapped(cursor) THEN step' = "overrun" /\ buf' = {} ELSE step' = "idle" /\ UNCHANGED buf
  /\ UNCHANGED <<writerVars, cursor, goal, reading>>

\* Fault: an overrun reader stays where it is.
SkipNothing ==
  /\ step = "overrun"
  /\ step' = "idle"
  /\ UNCHANGED <<writerVars, cursor, goal, reading, buf>>

Skip ==
  /\ step = "overrun"
  /\ Aim(0)

-------------------------------------------------------------------------------
Init ==
  /\ writeStart = 0
  /\ writeEnd = 0
  /\ data = [s \in Slot |-> -1]
  /\ writing = {}
  /\ cursor = 0
  /\ step = "closed"
  /\ goal = 0
  /\ reading = {}
  /\ buf = {}

Writer ==
  \/ \E n \in 1..MaxBlock : BeginWrite(n)
  \/ \E i \in writing : WriteWord(i)
  \/ Publish

Reading ==
  \/ Seek
  \/ StartBack
  \/ BeginRead
  \/ Tell
  \/ \E i \in reading : ReadWord(i)
  \/ Advance
  \/ Check
  \/ Skip

Next == Writer \/ Reading \/ Open \/ Close

Spec == Init /\ [][Next]_streamVars

\* The interval timer of an open reader keeps firing.
FairSpec == Spec /\ WF_streamVars(Reading)

-------------------------------------------------------------------------------
Step == {"closed", "opened", "idle", "seek", "tell", "copy", "check", "overrun"}

TypeOK ==
  /\ {writeStart, writeEnd} \subseteq Index
  /\ writeEnd \in writeStart..(writeStart + DataSize)
  /\ data \in [Slot -> Int]
  /\ writing \subseteq writeStart..(writeEnd - 1)
  /\ cursor \in Nat
  /\ step \in Step
  /\ goal \in Nat
  /\ reading \subseteq Nat
  /\ buf \subseteq [at : Nat, word : Int]

(***************************************************************************)
(* The reader never gets ahead of the writer, which the unsigned           *)
(* subtraction of the final check for overrun relies on without saying so. *)
(***************************************************************************)
CursorBehindWriter == cursor <= writeStart

(***************************************************************************)
(* A word that is copied is the word of its index, or one that was written *)
(* over it a lap later: never one of the lap before, never one that was    *)
(* not written, although words and cursors share no lock.                  *)
(***************************************************************************)
WordsNotStale ==
  \A b \in buf :
    /\ b.word >= b.at
    /\ b.word # b.at => Lapped(b.at)

(***************************************************************************)
(* Why that is so, as an invariant of single steps: a read and a seek only *)
(* go where the writer has been, a slot of a published index holds it or a *)
(* later one that has lapped it, and the words of the block under way that *)
(* were copied are in place.                                               *)
(***************************************************************************)
StreamInv ==
  /\ CursorBehindWriter
  /\ WordsNotStale
  /\ step \in {"seek", "copy"} => goal <= writeStart
  /\ \A i \in reading : i < writeStart
  /\ \A i \in 0..(writeStart - 1) :
        /\ data[SlotOf(i)] >= i
        /\ data[SlotOf(i)] # i => Lapped(i)
  /\ \A i \in (writeStart..(writeEnd - 1)) \ writing : data[SlotOf(i)] = i

(***************************************************************************)
(* An overrun does not last: a reader the writer has lapped, because the   *)
(* event loop was busy, catches up or is closed, once the writer leaves it *)
(* the time; MaxIndex is where it does here, a lap of ten seconds in the   *)
(* code.                                                                   *)
(***************************************************************************)
OverrunPasses == step # "closed" /\ Lapped(cursor) ~> ~Lapped(cursor)

(***************************************************************************)
(* What the comment of Error::OVERRUN says ("returned when the data        *)
(* requested has been overwritten and is invalid"): what a read gives to   *)
(* its caller without that error is what was written there.                *)
(***************************************************************************)
ReadsAreWhole == step = "idle" => \A b \in buf : b.word = b.at

=============================================================================
