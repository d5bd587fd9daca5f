-------------------------- MODULE SharedStreamProofs --------------------------
(***************************************************************************)
(* For every size of the buffer and of the blocks: the types, and that the *)
(* reader never gets a word that is stale or was not written.              *)
(***************************************************************************)
EXTENDS SharedStream, TLAPS

(***************************************************************************)
(* Two indices that share a slot of the ring are a lap apart               *)
(* (BufferLayout::getData).                                                *)
(***************************************************************************)
LEMMA SlotIsSlot == \A i \in Nat : SlotOf(i) \in Slot
BY StreamAssumption DEF SlotOf, Slot

LEMMA Laps ==
  \A i \in Nat : i \div DataSize \in Int /\ i = DataSize * (i \div DataSize) + SlotOf(i)
BY StreamAssumption DEF SlotOf

LEMMA LapLength ==
  ASSUME NEW m \in Int, NEW n \in Int, m < n
  PROVE  DataSize * n >= DataSize * m + DataSize
BY StreamAssumption, SMTT(30)

LEMMA SameSlotLapApart ==
  ASSUME NEW i \in Nat, NEW j \in Nat, i < j, SlotOf(i) = SlotOf(j)
  PROVE  j >= i + DataSize
<1> DEFINE m == i \div DataSize
           n == j \div DataSize
<1>1. m \in Int /\ n \in Int /\ i = DataSize * m + SlotOf(i) /\ j = DataSize * n + SlotOf(j)
  BY Laps
<1>2. SlotOf(i) \in Int /\ DataSize \in Nat
  BY SlotIsSlot, StreamAssumption DEF Slot
<1>3. DataSize * m \in Int /\ DataSize * n \in Int
  BY <1>1, <1>2
<1> HIDE DEF m, n
<1>4. CASE m < n
  BY <1>1, <1>2, <1>3, <1>4, LapLength
<1>5. CASE m = n
  BY <1>1, <1>2, <1>3, <1>5
<1>6. CASE n < m
  BY <1>1, <1>2, <1>3, <1>6, LapLength
<1> QED
  BY <1>1, <1>4, <1>5, <1>6

-------------------------------------------------------------------------------
(***************************************************************************)
(* The types.                                                              *)
(***************************************************************************)
LEMMA AimTyped ==
  ASSUME TypeOK, NEW back \in Nat, Aim(back)
  PROVE  TypeOK'
BY DEF TypeOK, Aim, Index, Step, writerVars

LEMMA InitTyped == Init => TypeOK
BY StreamAssumption DEF Init, TypeOK, Index, Slot, Step

LEMMA WriterTyped == ASSUME TypeOK, Writer PROVE TypeOK'
<1>1. ASSUME NEW n \in 1..MaxBlock, BeginWrite(n) PROVE TypeOK'
  BY <1>1, StreamAssumption DEF TypeOK, BeginWrite, Least, Index, readerVars
<1>2. ASSUME NEW i \in writing, WriteWord(i) PROVE TypeOK'
  <2>1. i \in Int
    BY <1>2, StreamAssumption DEF TypeOK, Index
  <2>2. data' \in [Slot -> Int]
    BY <1>2, <2>1 DEF TypeOK, WriteWord
  <2> QED
    BY <1>2, <2>2 DEF TypeOK, WriteWord, readerVars
<1>3. CASE Publish
  BY <1>3, StreamAssumption DEF TypeOK, Publish, Index, readerVars
<1> QED
  BY <1>1, <1>2, <1>3 DEF Writer

LEMMA ReadingTyped == ASSUME TypeOK, Reading PROVE TypeOK'
<1>1. CASE Seek
  BY <1>1 DEF TypeOK, Seek, Step, writerVars
<1>2. CASE StartBack
  BY <1>2, AimTyped, StreamAssumption DEF StartBack
<1>3. CASE BeginRead
  BY <1>3 DEF TypeOK, BeginRead, Step, writerVars
<1>4. CASE Tell
  <2>1. {writeStart, cursor, ReadWords} \subseteq Nat
    BY StreamAssumption DEF TypeOK, Index
  <2>2. goal' \in Nat /\ reading' \subseteq Nat /\ step' \in Step
    <3>1. CASE writeStart <= cursor
      BY <1>4, <3>1 DEF Tell, TypeOK, Step
    <3>2. CASE ~(writeStart <= cursor)
      <4>1. goal' \in Nat
        BY <1>4, <2>1, <3>2 DEF Tell, Least
      <4>2. reading' = cursor..(goal' - 1) /\ step' = "copy"
        BY <1>4, <3>2 DEF Tell
      <4> QED
        BY <2>1, <4>1, <4>2 DEF Step
    <3> QED
      BY <3>1, <3>2
  <2> QED
    BY <1>4, <2>2 DEF TypeOK, Tell, writerVars
<1>5. ASSUME NEW i \in reading, ReadWord(i) PROVE TypeOK'
  <2>1. i \in Nat /\ SlotOf(i) \in Slot
    BY <1>5, SlotIsSlot DEF TypeOK
  <2>2. [at |-> i, word |-> data[SlotOf(i)]] \in [at : Nat, word : Int]
    BY <2>1 DEF TypeOK
  <2> QED
    BY <1>5, <2>2 DEF TypeOK, ReadWord, writerVars
<1>6. CASE Advance
  BY <1>6 DEF TypeOK, Advance, Step, writerVars
<1>7. CASE Check
  BY <1>7 DEF TypeOK, Check, Step, writerVars
<1>8. CASE Skip
  BY <1>8, AimTyped DEF Skip
<1> QED
  BY <1>1, <1>2, <1>3, <1>4, <1>5, <1>6, <1>7, <1>8 DEF Reading

LEMMA StepTyped == TypeOK /\ [Next]_streamVars => TypeOK'
<1> SUFFICES ASSUME TypeOK, [Next]_streamVars PROVE TypeOK'
  OBVIOUS
<1>1. CASE Open
  BY <1>1, StreamAssumption DEF TypeOK, Open, Index, Step, writerVars
<1>2. CASE Close
  BY <1>2, StreamAssumption DEF TypeOK, Close, Index, Step, writerVars
<1>3. CASE UNCHANGED streamVars
  BY <1>3 DEF TypeOK, streamVars, writerVars, readerVars
<1> QED
  BY <1>1, <1>2, <1>3, WriterTyped, ReadingTyped DEF Next

(***************************************************************************)
(* Whatever the writer and the reader do, cursors, words and copies keep   *)
(* their types; a block is never longer than the buffer.                   *)
(***************************************************************************)
THEOREM TypeCorrect == Spec => []TypeOK
BY InitTyped, StepTyped, PTL DEF Spec

-------------------------------------------------------------------------------
(***************************************************************************)
(* The writer's steps keep StreamInv.                                      *)
(***************************************************************************)
LEMMA BeginKeeps ==
  ASSUME TypeOK, StreamInv, NEW n \in 1..MaxBlock, BeginWrite(n)
  PROVE  StreamInv'
<1>1. /\ writeEnd' \in Nat /\ writeEnd \in Nat /\ writeStart \in Nat /\ DataSize \in Nat
      /\ writeEnd' >= writeEnd
      /\ UNCHANGED <<writeStart, data, cursor, step, goal, reading, buf>>
      /\ writing' = writeStart..(writeEnd' - 1)
  BY StreamAssumption DEF TypeOK, BeginWrite, Least, Index, readerVars
<1>2. ASSUME NEW i \in Nat, Lapped(i) PROVE Lapped(i)'
  <2>1. writeEnd - i > DataSize
    BY <1>2 DEF Lapped
  <2>2. {writeEnd, writeEnd', DataSize, i} \subseteq Nat /\ writeEnd' >= writeEnd
    BY <1>1, <1>2
  <2>3. writeEnd' - i > DataSize
    BY <2>1, <2>2
  <2> QED
    BY <2>3 DEF Lapped
<1>3. WordsNotStale'
  BY <1>1, <1>2 DEF WordsNotStale, StreamInv, TypeOK
<1>4. \A i \in 0..(writeStart - 1) : data[SlotOf(i)] # i => Lapped(i)'
  BY <1>1, <1>2 DEF StreamInv
<1> QED
  BY <1>1, <1>3, <1>4 DEF StreamInv, CursorBehindWriter

LEMMA WriteKeeps ==
  ASSUME TypeOK, StreamInv, NEW k \in writing, WriteWord(k)
  PROVE  StreamInv'
<1>1. /\ UNCHANGED <<writeStart, writeEnd, cursor, step, goal, reading, buf>>
      /\ writing' = writing \ {k}
      /\ data' = [data EXCEPT ![SlotOf(k)] = k]
  BY DEF WriteWord, readerVars
<1>2. /\ {writeStart, writeEnd, DataSize} \subseteq Nat
      /\ k \in Nat /\ writeStart <= k /\ k < writeEnd /\ writeEnd <= writeStart + DataSize
  BY StreamAssumption DEF TypeOK, Index
<1>3. \A i \in Nat : data'[SlotOf(i)] = IF SlotOf(i) = SlotOf(k) THEN k ELSE data[SlotOf(i)]
  BY <1>1, SlotIsSlot DEF TypeOK
<1>4. ASSUME NEW i \in 0..(writeStart - 1)
      PROVE  data'[SlotOf(i)] >= i /\ (data'[SlotOf(i)] # i => Lapped(i)')
  <2>1. i \in Nat /\ i < k
    BY <1>2
  <2>2. CASE SlotOf(i) = SlotOf(k)
    BY <1>1, <1>2, <1>3, <2>1, <2>2, SameSlotLapApart DEF Lapped
  <2>3. CASE SlotOf(i) # SlotOf(k)
    BY <1>1, <1>3, <2>1, <2>3 DEF StreamInv, Lapped
  <2> QED
    BY <2>2, <2>3
<1>5. ASSUME NEW i \in (writeStart..(writeEnd - 1)) \ writing'
      PROVE  data'[SlotOf(i)] = i
  <2>1. i \in Nat /\ writeStart <= i /\ i < writeEnd
    BY <1>2
  <2>2. CASE i = k
    BY <1>3, <2>1, <2>2
  <2>3. CASE i # k
    <3>1. SlotOf(i) # SlotOf(k)
      BY <1>2, <2>1, <2>3, SameSlotLapApart
    <3>2. i \in (writeStart..(writeEnd - 1)) \ writing
      BY <1>1, <2>3
    <3> QED
      BY <1>3, <2>1, <3>1, <3>2 DEF StreamInv
  <2> QED
    BY <2>2, <2>3
<1>6. WordsNotStale' /\ CursorBehindWriter'
  BY <1>1 DEF StreamInv, WordsNotStale, CursorBehindWriter, Lapped
<1> QED
  BY <1>1, <1>4, <1>5, <1>6 DEF StreamInv

LEMMA PublishKeeps == ASSUME TypeOK, StreamInv, Publish PROVE StreamInv'
<1>1. /\ UNCHANGED <<writeEnd, data, writing, cursor, step, goal, reading, buf>>
      /\ writeStart' = writeEnd
      /\ writing = {}
  BY DEF Publish, readerVars
<1>2. {writeStart, writeEnd, cursor, goal} \subseteq Nat /\ writeStart <= writeEnd /\ reading \subseteq Nat
  BY StreamAssumption DEF TypeOK, Index
<1>3. ASSUME NEW i \in 0..(writeStart' - 1)
      PROVE  data[SlotOf(i)] >= i /\ (data[SlotOf(i)] # i => Lapped(i)')
  <2>1. CASE i < writeStart
    BY <1>1, <1>2, <2>1 DEF StreamInv, Lapped
  <2>2. CASE i >= writeStart
    BY <1>1, <1>2, <2>2 DEF StreamInv
  <2> QED
    BY <1>1, <1>2, <2>1, <2>2
<1>4. WordsNotStale' /\ CursorBehindWriter'
  BY <1>1, <1>2 DEF StreamInv, WordsNotStale, CursorBehindWriter, Lapped
<1>5. /\ step' \in {"seek", "copy"} => goal' <= writeStart'
      /\ \A i \in reading' : i < writeStart'
  BY <1>1, <1>2 DEF StreamInv
<1> QED
  BY <1>1, <1>2, <1>3, <1>4, <1>5 DEF StreamInv

-------------------------------------------------------------------------------
(***************************************************************************)
(* The reader's steps leave the buffer alone, so that what is left to show *)
(* is where it stands and what it copied.                                  *)
(***************************************************************************)
LEMMA ReaderKeeps ==
  ASSUME StreamInv, UNCHANGED writerVars,
         CursorBehindWriter', WordsNotStale',
         step' \in {"seek", "copy"} => goal' <= writeStart,
         \A i \in reading' : i < writeStart
  PROVE  StreamInv'
BY DEF StreamInv, writerVars, Lapped

LEMMA AimKeeps ==
  ASSUME TypeOK, StreamInv, NEW back \in Nat, Aim(back)
  PROVE  StreamInv'
<1>1. WordsNotStale' /\ CursorBehindWriter'
  BY DEF Aim, StreamInv, WordsNotStale, CursorBehindWriter, Lapped, writerVars
<1>2. step' \in {"seek", "copy"} => goal' <= writeStart
  BY StreamAssumption DEF Aim, TypeOK, Index
<1> QED
  BY <1>1, <1>2, ReaderKeeps DEF Aim, StreamInv

LEMMA ReadingKeeps == ASSUME TypeOK, StreamInv, Reading PROVE StreamInv'
<1> USE DEF StreamInv, WordsNotStale, CursorBehindWriter, Lapped, writerVars
<1>1. CASE Seek
  BY <1>1, ReaderKeeps DEF Seek
<1>2. CASE StartBack
  BY <1>2, AimKeeps, StreamAssumption DEF StartBack
<1>3. CASE BeginRead
  BY <1>3, ReaderKeeps DEF BeginRead
<1>4. CASE Tell
  <2>1. {writeStart, cursor, ReadWords} \subseteq Nat
    BY StreamAssumption DEF TypeOK, Index
  <2> QED
    BY <1>4, <2>1, ReaderKeeps DEF Tell, Least
<1>5. ASSUME NEW i \in reading, ReadWord(i) PROVE StreamInv'
  <2>1. i \in 0..(writeStart - 1)
    BY StreamAssumption DEF TypeOK, Index
  <2>2. data[SlotOf(i)] >= i /\ (data[SlotOf(i)] # i => Lapped(i))
    BY <2>1
  <2>3. WordsNotStale'
    BY <1>5, <2>2 DEF ReadWord
  <2> QED
    BY <1>5, <2>3, ReaderKeeps DEF ReadWord
<1>6. CASE Advance
  BY <1>6, ReaderKeeps DEF Advance
<1>7. CASE Check
  BY <1>7, ReaderKeeps DEF Check
<1>8. CASE Skip
  BY <1>8, AimKeeps DEF Skip
<1> QED
  BY <1>1, <1>2, <1>3, <1>4, <1>5, <1>6, <1>7, <1>8 DEF Reading

LEMMA StepKeeps == TypeOK /\ StreamInv /\ [Next]_streamVars => StreamInv'
<1> SUFFICES ASSUME TypeOK, StreamInv, [Next]_streamVars PROVE StreamInv'
  OBVIOUS
<1>1. CASE Writer
  BY <1>1, BeginKeeps, WriteKeeps, PublishKeeps DEF Writer
<1>2. CASE Open \/ Close
  <2>1. writeStart \in Nat
    BY StreamAssumption DEF TypeOK, Index
  <2>2. WordsNotStale' /\ CursorBehindWriter'
    BY <1>2, <2>1 DEF Open, Close, StreamInv, WordsNotStale, CursorBehindWriter, Lapped, writerVars
  <2> QED
    BY <1>2, <2>2, ReaderKeeps DEF Open, Close, StreamInv
<1>3. CASE UNCHANGED streamVars
  BY <1>3 DEF streamVars, writerVars, readerVars, StreamInv, WordsNotStale, CursorBehindWriter, Lapped
<1> QED
  BY <1>1, <1>2, <1>3, ReadingKeeps DEF Next

LEMMA InitKeeps == Init => StreamInv
BY DEF Init, StreamInv, WordsNotStale, CursorBehindWriter

(***************************************************************************)
(* The invariant behind the next two theorems (Writer::write, Reader::read *)
(* and Reader::seek, with all their steps interleaved).                    *)
(***************************************************************************)
THEOREM StreamHolds == Spec => []StreamInv
<1>1. Spec => []TypeOK
  BY TypeCorrect
<1> QED
  BY <1>1, InitKeeps, StepKeeps, PTL DEF Spec

(***************************************************************************)
(* The unsigned difference of the final check for overrun is one of        *)
(* cursors in order: the reader never passes the writer.                   *)
(***************************************************************************)
THEOREM ReaderStaysBehind == Spec => []CursorBehindWriter
<1>1. StreamInv => CursorBehindWriter
  BY DEF StreamInv
<1> QED
  BY <1>1, StreamHolds, PTL

(***************************************************************************)
(* A word that is read is the one of its index or one that lapped it.      *)
(***************************************************************************)
THEOREM WordsAreNotStale == Spec => []WordsNotStale
<1>1. StreamInv => WordsNotStale
  BY DEF StreamInv
<1> QED
  BY <1>1, StreamHolds, PTL

=============================================================================
