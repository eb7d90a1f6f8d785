-------------------------- MODULE BytesQueueLemmas --------------------------
(***************************************************************************)
(* What the methods of BytesQueue keep, for queues of any size and entries *)
(* of any lengths, whoever calls them.                                     *)
(***************************************************************************)
EXTENDS BytesQueue, FiniteSetTheorems, TLAPS

\* What holds of a queue whatever gaps its reallocations left.
QueueInv(queue) ==
  /\ IsQueue(queue)
  /\ PointersOrdered(queue)
  /\ BlocksDisjoint(queue)
  /\ MarginsRespected(queue)
  /\ HeadersFit(queue)
  /\ CountsLive(queue)

\* The need bytes after the tail are free.
RoomAtTail(queue, need) ==
  IF queue.tail < queue.head
  THEN need <= queue.head - queue.tail
  ELSE ~queue.full /\ need <= queue.capacity - queue.tail

\* The header of an entry takes from one to five bytes, so an entry needs
\* more bytes than its length.
LEMMA NeedBounds ==
  ASSUME NEW len \in Nat
  PROVE  /\ getUvarintSize(len) \in 1 .. 5
         /\ Need(len) \in Nat
         /\ len < Need(len)
BY DEF getUvarintSize, Need

\* The filler of a gap fits in it, is at most one byte short of it and is
\* long enough for a timestamp and a hash.
LEMMA FillerFits ==
  ASSUME NEW gap \in Nat, gap >= minimumHeaderSize
  PROVE  /\ FillerLen(gap) \in Nat
         /\ FillerLen(gap) >= minimumHeaderSize - 1
         /\ Need(FillerLen(gap)) <= gap
         /\ gap - 1 <= Need(FillerLen(gap))
BY DEF FillerLen, getUvarintSize, Need, minimumHeaderSize

\* The live blocks are a finite set of blocks.
LEMMA LiveFinite ==
  ASSUME NEW queue, IsQueue(queue)
  PROVE  /\ Live(queue) \subseteq queue.array
         /\ IsFiniteSet(Live(queue))
         /\ Cardinality(Live(queue)) \in Nat
<1>1. Live(queue) \subseteq queue.array
  BY DEF Live, FrontBlocks, BackBlocks
<1> QED
  BY <1>1, FS_Subset, FS_CardinalityType DEF IsQueue

\* A queue with other field values of the same types is a queue.
LEMMA QueueUpdate ==
  ASSUME NEW queue, IsQueue(queue), NEW full \in BOOLEAN,
         NEW array \in SUBSET Blocks, IsFiniteSet(array),
         NEW capacity \in Nat, NEW head \in Nat, NEW tail \in Nat,
         NEW rightMargin \in Nat, NEW count \in Nat
  PROVE  IsQueue([queue EXCEPT !.full = full, !.array = array,
                               !.capacity = capacity, !.head = head,
                               !.tail = tail, !.rightMargin = rightMargin,
                               !.count = count])
BY DEF IsQueue

\* A new queue has all of it.
LEMMA NewQueueInv ==
  /\ QueueInv(NewBytesQueue)
  /\ RingFilled(NewBytesQueue)
  /\ GapReserved(NewBytesQueue)
  /\ Live(NewBytesQueue) = {}
<1> DEFINE new == NewBytesQueue
<1>1. /\ new.full = FALSE /\ new.array = {} /\ new.capacity = InitCapacity
      /\ new.head = 1 /\ new.tail = 1 /\ new.rightMargin = 1 /\ new.count = 0
  BY DEF NewBytesQueue, leftMarginIndex
<1>2. IsQueue(new)
  BY FS_EmptySet, QueueAssumption DEF IsQueue, NewBytesQueue, leftMarginIndex
<1>3. Live(new) = {} /\ FrontBlocks(new) = {} /\ BackBlocks(new) = {}
  BY <1>1 DEF Live, FrontBlocks, BackBlocks
<1>4. CountsLive(new)
  BY <1>1, <1>3, FS_EmptySet DEF CountsLive
<1>5. /\ PointersOrdered(new) /\ BlocksDisjoint(new)
      /\ MarginsRespected(new) /\ HeadersFit(new) /\ GapReserved(new)
  BY <1>1, <1>3 DEF PointersOrdered, BlocksDisjoint, MarginsRespected,
                    HeadersFit, GapReserved, leftMarginIndex
<1>6. RingFilled(new)
  BY <1>1, <1>3 DEF RingFilled, Chain, leftMarginIndex
<1> QED
  BY <1>2, <1>3, <1>4, <1>5, <1>6 DEF QueueInv

-----------------------------------------------------------------------------
(* Pushing.                                                                *)

\* push into free space adds one live block and disturbs no other.
LEMMA PushBlock ==
  ASSUME NEW queue, QueueInv(queue),
         NEW len \in Nat, len >= minimumHeaderSize - 1,
         NEW data \in Data,
         RoomAtTail(queue, Need(len))
  PROVE  LET pushed == push(queue, len, data)
             block  == [at |-> queue.tail, len |-> len, data |-> data]
         IN  /\ QueueInv(pushed)
             /\ Live(pushed) = Live(queue) \cup {block}
             /\ RingFilled(queue) => RingFilled(pushed)
<1> DEFINE block  == [at |-> queue.tail, len |-> len, data |-> data]
           pushed == push(queue, len, data)
           kept   == {c \in queue.array : ~Overlap(block, c)}
<1>1. /\ queue.head \in Nat /\ queue.tail \in Nat /\ queue.rightMargin \in Nat
      /\ queue.capacity \in Nat /\ queue.count \in Nat
      /\ queue.full \in BOOLEAN
      /\ queue.array \subseteq Blocks /\ IsFiniteSet(queue.array)
  BY DEF QueueInv, IsQueue
<1>2. /\ block \in Blocks /\ block.at = queue.tail /\ block.len = len
      /\ End(block) = queue.tail + Need(len)
      /\ Need(len) \in Nat /\ Need(len) > 0
  BY <1>1, NeedBounds DEF QueueInv, PointersOrdered, leftMarginIndex, Blocks, End
<1>3. /\ pushed.array = kept \cup {block}
      /\ pushed.tail = queue.tail + Need(len)
      /\ pushed.head = queue.head
      /\ pushed.capacity = queue.capacity
      /\ pushed.count = queue.count + 1
      /\ pushed.rightMargin = IF pushed.tail > queue.head THEN pushed.tail
                                                          ELSE queue.rightMargin
      /\ pushed.full <=> queue.full \/ pushed.tail = queue.head
      /\ pushed.full \in BOOLEAN
  BY <1>2 DEF push, Overwrite, QueueInv, IsQueue
<1>4. IsQueue(pushed)
  <2>1. IsFiniteSet(kept)
    BY <1>1, FS_Subset
  <2>2. IsFiniteSet(pushed.array)
    BY <2>1, <1>3, FS_AddElement
  <2>3. pushed.array \subseteq Blocks
    BY <1>1, <1>2, <1>3
  <2>4. pushed.full \in BOOLEAN /\ pushed.rightMargin \in Nat
    BY <1>1, <1>2, <1>3
  <2>5. pushed = [queue EXCEPT !.full = pushed.full, !.array = pushed.array,
                               !.capacity = queue.capacity, !.head = queue.head,
                               !.tail = pushed.tail,
                               !.rightMargin = pushed.rightMargin,
                               !.count = pushed.count]
    BY DEF push, QueueInv, IsQueue
  <2> HIDE DEF pushed
  <2>6. /\ queue.capacity \in Nat /\ queue.head \in Nat
        /\ pushed.tail \in Nat /\ pushed.count \in Nat
    BY <1>1, <1>2, <1>3
  <2>7. IsQueue([queue EXCEPT !.full = pushed.full, !.array = pushed.array,
                              !.capacity = queue.capacity, !.head = queue.head,
                              !.tail = pushed.tail,
                              !.rightMargin = pushed.rightMargin,
                              !.count = pushed.count])
    BY <2>2, <2>3, <2>4, <2>6, QueueUpdate, Zenon DEF QueueInv
  <2> QED
    BY <2>5, <2>7
<1>5. \A c \in Blocks : /\ c.at \in Nat /\ c.at >= 1 /\ c.len \in Nat
                        /\ End(c) \in Nat /\ c.at < End(c)
  BY NeedBounds DEF Blocks, End
<1> HIDE DEF block, pushed
<1> USE <1>1, <1>2, <1>3, <1>5 DEF QueueInv, PointersOrdered, leftMarginIndex,
        RoomAtTail
<1>6. PointersOrdered(pushed)
  <2>1. CASE queue.tail < queue.head /\ pushed.tail = queue.head
    BY <2>1
  <2>2. CASE queue.tail < queue.head /\ pushed.tail # queue.head
    BY <2>2
  <2>3. CASE queue.tail >= queue.head
    BY <2>3
  <2> QED
    BY <2>1, <2>2, <2>3
<1>7. ASSUME queue.tail < queue.head
      PROVE  /\ FrontBlocks(pushed) = FrontBlocks(queue)
             /\ BackBlocks(pushed) = BackBlocks(queue) \cup {block}
  BY <1>7 DEF FrontBlocks, BackBlocks, Overlap, MarginsRespected
<1>8. ASSUME queue.tail >= queue.head
      PROVE  /\ queue.rightMargin = queue.tail
             /\ FrontBlocks(pushed) = FrontBlocks(queue) \cup {block}
             /\ BackBlocks(pushed) = {} /\ BackBlocks(queue) = {}
  <2>1. queue.rightMargin = queue.tail
    BY <1>8
  <2> QED
    BY <1>8, <2>1 DEF FrontBlocks, BackBlocks, Overlap, MarginsRespected
<1>9. Live(pushed) = Live(queue) \cup {block}
  BY <1>7, <1>8 DEF Live
<1>10. BlocksDisjoint(pushed)
  BY DEF BlocksDisjoint, Overlap
<1>11. MarginsRespected(pushed)
  BY DEF MarginsRespected, FrontBlocks, BackBlocks, Overlap
<1>12. HeadersFit(pushed)
  BY DEF HeadersFit, minimumHeaderSize
<1>13. CountsLive(pushed)
  <2>1. block \notin Live(queue)
    BY DEF Live, FrontBlocks, BackBlocks, MarginsRespected
  <2>2. IsFiniteSet(Live(queue)) /\ Cardinality(Live(queue)) \in Nat
    BY LiveFinite
  <2>3. Cardinality(Live(queue) \cup {block}) = Cardinality(Live(queue)) + 1
    BY <2>1, <2>2, FS_AddElement
  <2> QED
    BY <1>9, <2>3 DEF CountsLive
<1>14. ASSUME RingFilled(queue)
       PROVE  RingFilled(pushed)
  <2>1. CASE queue.tail < queue.head
    <3>1. Chain(BackBlocks(pushed), leftMarginIndex, pushed.tail)
      BY <1>14, <1>7, <2>1 DEF RingFilled, Chain
    <3> QED
      BY <1>14, <1>7, <2>1, <3>1 DEF RingFilled, Chain
  <2>2. CASE queue.tail >= queue.head
    BY <1>14, <1>8, <2>2 DEF RingFilled, Chain
  <2> QED
    BY <2>1, <2>2
<1> QED
  BY <1>4, <1>6, <1>9, <1>10, <1>11, <1>12, <1>13, <1>14 DEF block, pushed

\* So does push after the tail has been moved in front of the head, which is
\* where canInsertBeforeHead finds the room.
LEMMA MoveTailBeforeHead ==
  ASSUME NEW queue, QueueInv(queue), NEW need \in Nat, need > 0,
         ~canInsertAfterTail(queue, need), canInsertBeforeHead(queue, need)
  PROVE  LET moved == [queue EXCEPT !.tail = leftMarginIndex]
         IN  /\ QueueInv(moved)
             /\ Live(moved) = Live(queue)
             /\ RingFilled(queue) => RingFilled(moved)
             /\ RoomAtTail(moved, need)
             /\ moved.tail < moved.head
             /\ FitsGap(moved.head - moved.tail, need)
<1> DEFINE moved == [queue EXCEPT !.tail = leftMarginIndex]
<1>1. /\ queue.head \in Nat /\ queue.tail \in Nat /\ queue.rightMargin \in Nat
      /\ queue.array \subseteq Blocks
  BY DEF QueueInv, IsQueue
<1>2. /\ moved.full = queue.full /\ moved.array = queue.array
      /\ moved.capacity = queue.capacity /\ moved.head = queue.head
      /\ moved.tail = leftMarginIndex /\ moved.rightMargin = queue.rightMargin
      /\ moved.count = queue.count
      /\ IsQueue(moved)
  BY DEF QueueInv, IsQueue, leftMarginIndex
<1>3. /\ ~queue.full /\ queue.tail > queue.head /\ queue.head > 1
      /\ queue.rightMargin = queue.tail
      /\ FitsGap(queue.head - leftMarginIndex, need)
  BY <1>1 DEF canInsertAfterTail, canInsertBeforeHead, QueueInv, PointersOrdered,
              leftMarginIndex, FitsGap, minimumHeaderSize
<1> HIDE DEF moved
<1>4. FrontBlocks(moved) = FrontBlocks(queue)
  BY <1>2 DEF FrontBlocks
<1>5. BackBlocks(moved) = {} /\ BackBlocks(queue) = {}
  BY <1>1, <1>2, <1>3 DEF BackBlocks, Blocks, leftMarginIndex
<1>6. Live(moved) = Live(queue)
  BY <1>4, <1>5 DEF Live
<1>7. PointersOrdered(moved)
  BY <1>1, <1>2, <1>3 DEF PointersOrdered, QueueInv, leftMarginIndex
<1>8. QueueInv(moved)
  BY <1>2, <1>4, <1>5, <1>6, <1>7
     DEF QueueInv, BlocksDisjoint, MarginsRespected, HeadersFit, CountsLive
<1>9. RingFilled(queue) => RingFilled(moved)
  BY <1>2, <1>4, <1>5 DEF RingFilled, Chain, leftMarginIndex
<1>10. RoomAtTail(moved, need)
  BY <1>1, <1>2, <1>3 DEF RoomAtTail, FitsGap, minimumHeaderSize, leftMarginIndex
<1> QED
  BY <1>2, <1>3, <1>6, <1>8, <1>9, <1>10 DEF moved, leftMarginIndex

\* Unrolling a ring whose gap is filled, but for a byte at most, keeps what is
\* live.
LEMMA Unroll ==
  ASSUME NEW ring, QueueInv(ring), ring.rightMargin # leftMarginIndex,
         ring.tail <= ring.head, ring.head - ring.tail <= 1
  PROVE  LET unrolled == Unrolled(ring)
         IN  /\ QueueInv(unrolled)
             /\ Live(unrolled) = Live(ring)
             /\ RingFilled(ring) /\ ring.tail = ring.head => RingFilled(unrolled)
<1> DEFINE unrolled == Unrolled(ring)
<1>1. /\ ring.head \in Nat /\ ring.tail \in Nat /\ ring.rightMargin \in Nat
      /\ ring.capacity \in Nat
      /\ ring.array \subseteq Blocks
  BY DEF QueueInv, IsQueue
<1>2. /\ unrolled.full = FALSE /\ unrolled.array = ring.array
      /\ unrolled.capacity = ring.capacity /\ unrolled.head = 1
      /\ unrolled.tail = ring.rightMargin
      /\ unrolled.rightMargin = ring.rightMargin /\ unrolled.count = ring.count
      /\ IsQueue(unrolled)
  BY DEF Unrolled, QueueInv, IsQueue, leftMarginIndex
<1>3. \A c \in Blocks : /\ c.at \in Nat /\ c.at >= 1 /\ End(c) \in Nat
                        /\ c.len >= minimumHeaderSize - 1 => End(c) > c.at + 1
  BY NeedBounds DEF Blocks, End, minimumHeaderSize
<1> HIDE DEF unrolled
<1> USE <1>1, <1>2, <1>3 DEF QueueInv, PointersOrdered, leftMarginIndex
<1>4. FrontBlocks(unrolled) = FrontBlocks(ring) \cup BackBlocks(ring)
  <2>1. \A c \in ring.array : c.at < ring.tail \/ ring.head <= c.at
    BY DEF MarginsRespected, HeadersFit
  <2> QED
    BY <2>1 DEF FrontBlocks, BackBlocks
<1>5. BackBlocks(unrolled) = {}
  BY DEF BackBlocks
<1>6. Live(unrolled) = Live(ring)
  BY <1>4, <1>5 DEF Live
<1>7. PointersOrdered(unrolled)
  OBVIOUS
<1>8. MarginsRespected(unrolled)
  <2>1. \A c \in FrontBlocks(unrolled) : End(c) <= unrolled.rightMargin
    BY <1>4 DEF MarginsRespected, BackBlocks
  <2> QED
    BY <1>5, <2>1 DEF MarginsRespected
<1>9. QueueInv(unrolled)
  BY <1>6, <1>7, <1>8 DEF BlocksDisjoint, HeadersFit, CountsLive
<1>10. ASSUME RingFilled(ring), ring.tail = ring.head
       PROVE  RingFilled(unrolled)
  BY <1>4, <1>5, <1>10 DEF RingFilled, Chain
<1> QED
  BY <1>6, <1>9, <1>10 DEF unrolled

\* Reallocation keeps every live block where it is, adds at most the filler
\* and leaves room for an entry.  Blocks fill what it copies unless the filler
\* is short.
LEMMA Reallocate ==
  ASSUME NEW queue, QueueInv(queue), GapReserved(queue), NEW need \in Nat, need > 0,
         PushGrows(queue, need), ~PushFails(queue, need)
  PROVE  LET grown == allocateAdditionalMemory(queue, need)
             gap   == queue.head - queue.tail
         IN  /\ QueueInv(grown)
             /\ Live(queue) \subseteq Live(grown)
             /\ \A b \in Live(grown) \ Live(queue) : b.data = ZeroBlob
             /\ \/ queue.tail < queue.head /\ Need(FillerLen(gap)) # gap
                \/ RingFilled(queue) => RingFilled(grown)
             /\ RoomAtTail(grown, need)
             /\ grown.tail >= grown.head
             /\ grown.capacity = GrownCapacity(queue, need)
<1> DEFINE gap    == queue.head - queue.tail
           cap    == GrownCapacity(queue, need)
           copied == Copied(queue, need)
           filled == push(copied, FillerLen(gap), ZeroBlob)
           grown  == allocateAdditionalMemory(queue, need)
<1>1. /\ queue.head \in Nat /\ queue.tail \in Nat /\ queue.rightMargin \in Nat
      /\ queue.capacity \in Nat /\ queue.count \in Nat
      /\ queue.full \in BOOLEAN
      /\ queue.array \subseteq Blocks /\ IsFiniteSet(queue.array)
  BY DEF QueueInv, IsQueue
<1>2. /\ cap \in Nat /\ queue.capacity <= cap
      /\ need <= cap - queue.rightMargin
  BY <1>1, QueueAssumption DEF QueueInv, PointersOrdered, leftMarginIndex,
     GrownCapacity, PushFails
<1>3. /\ copied.full = queue.full /\ copied.capacity = cap
      /\ copied.array = {b \in queue.array : End(b) <= queue.rightMargin}
      /\ copied.head = queue.head /\ copied.tail = queue.tail
      /\ copied.rightMargin = queue.rightMargin /\ copied.count = queue.count
      /\ IsQueue(copied)
  BY <1>1, <1>2, FS_Subset DEF Copied, QueueInv, IsQueue
<1> HIDE DEF cap, copied
<1>4. FrontBlocks(copied) = FrontBlocks(queue) /\ BackBlocks(copied) = BackBlocks(queue)
  <2>1. \A b \in BackBlocks(queue) : End(b) \in Nat /\ End(b) <= queue.rightMargin
    BY <1>1, NeedBounds DEF QueueInv, PointersOrdered, MarginsRespected,
                            BackBlocks, Blocks, End
  <2> QED
    BY <1>1, <1>3, <2>1 DEF QueueInv, MarginsRespected, FrontBlocks, BackBlocks
<1>5. Live(copied) = Live(queue)
  BY <1>4 DEF Live
<1>6. QueueInv(copied)
  <2>1. PointersOrdered(copied)
    BY <1>1, <1>2, <1>3 DEF QueueInv, PointersOrdered, leftMarginIndex
  <2>2. BlocksDisjoint(copied) /\ HeadersFit(copied)
    <3>1. \A b \in queue.array : End(b) \in Nat
      BY <1>1, NeedBounds DEF Blocks, End
    <3> QED
      BY <1>1, <1>2, <1>3, <3>1 DEF QueueInv, BlocksDisjoint, HeadersFit
  <2>3. MarginsRespected(copied)
    BY <1>3, <1>4 DEF QueueInv, MarginsRespected
  <2> QED
    BY <1>3, <1>5, <2>1, <2>2, <2>3 DEF QueueInv, CountsLive
<1>7. RingFilled(queue) => RingFilled(copied)
  BY <1>3, <1>4 DEF RingFilled
<1>8. CASE queue.rightMargin = leftMarginIndex \/ queue.tail > queue.head
  <2>1. grown = [copied EXCEPT !.full = FALSE]
    BY <1>1, <1>8 DEF allocateAdditionalMemory, copied
  <2>2. queue.full = FALSE /\ queue.tail = queue.rightMargin /\ queue.tail >= queue.head
    BY <1>1, <1>8 DEF QueueInv, IsQueue, PointersOrdered, leftMarginIndex
  <2>3. grown = copied
    BY <1>3, <2>1, <2>2 DEF IsQueue
  <2>4. RoomAtTail(copied, need)
    BY <1>1, <1>2, <1>3, <2>2 DEF RoomAtTail
  <2> QED
    BY <1>3, <1>5, <1>6, <1>7, <2>2, <2>3, <2>4 DEF cap
<1>9. CASE queue.rightMargin # leftMarginIndex /\ queue.tail = queue.head
  <2>1. grown = Unrolled(copied)
    BY <1>1, <1>9 DEF allocateAdditionalMemory, copied
  <2>2. /\ QueueInv(grown) /\ Live(grown) = Live(copied)
        /\ RingFilled(copied) => RingFilled(grown)
    BY <1>1, <1>3, <1>6, <1>9, <2>1, Unroll
  <2>3. /\ grown.head = 1 /\ grown.tail = queue.rightMargin
        /\ grown.full = FALSE /\ grown.capacity = cap
    BY <1>3, <2>1 DEF Unrolled, IsQueue, leftMarginIndex
  <2>4. RoomAtTail(grown, need) /\ grown.tail >= grown.head
    BY <1>1, <1>2, <2>3 DEF RoomAtTail, QueueInv, PointersOrdered, leftMarginIndex
  <2> QED
    BY <1>5, <1>7, <2>2, <2>3, <2>4 DEF cap
<1>10. CASE queue.rightMargin # leftMarginIndex /\ queue.tail < queue.head
  <2>1. /\ gap \in Nat /\ gap >= minimumHeaderSize
        /\ FillerLen(gap) \in Nat /\ FillerLen(gap) >= minimumHeaderSize - 1
        /\ Need(FillerLen(gap)) \in Nat
        /\ Need(FillerLen(gap)) <= gap /\ gap - 1 <= Need(FillerLen(gap))
    <3>1. gap \in Nat /\ gap >= minimumHeaderSize
      BY <1>1, <1>10 DEF GapReserved
    <3> HIDE DEF gap
    <3> QED
      BY <3>1, FillerFits, NeedBounds
  <2>2. RoomAtTail(copied, Need(FillerLen(gap)))
    BY <1>3, <1>10, <2>1 DEF RoomAtTail
  <2>3. /\ QueueInv(filled) /\ Live(copied) \subseteq Live(filled)
        /\ \A b \in Live(filled) \ Live(copied) : b.data = ZeroBlob
        /\ RingFilled(copied) => RingFilled(filled)
    BY <1>6, <2>1, <2>2, PushBlock, QueueAssumption
  <2>4. /\ filled.head = queue.head
        /\ filled.tail = queue.tail + Need(FillerLen(gap))
        /\ filled.rightMargin = queue.rightMargin
        /\ filled.capacity = cap
    BY <1>1, <1>3, <1>10, <2>1 DEF push, End, IsQueue
  <2>5. grown = Unrolled(filled)
    BY <1>1, <1>10 DEF allocateAdditionalMemory, copied
  <2>6. filled.tail <= filled.head /\ filled.head - filled.tail <= 1
    BY <1>1, <2>1, <2>4
  <2>7. Need(FillerLen(gap)) = gap => filled.tail = filled.head
    BY <1>1, <2>1, <2>4
  <2> HIDE DEF filled, grown, gap
  <2>8. /\ QueueInv(grown) /\ Live(grown) = Live(filled)
        /\ RingFilled(filled) /\ Need(FillerLen(gap)) = gap => RingFilled(grown)
    BY <1>10, <2>3, <2>4, <2>5, <2>6, <2>7, Unroll
  <2>9. /\ grown.head = 1 /\ grown.tail = queue.rightMargin
        /\ grown.full = FALSE /\ grown.capacity = cap
    BY <2>3, <2>4, <2>5 DEF Unrolled, IsQueue, QueueInv, leftMarginIndex
  <2>10. RoomAtTail(grown, need) /\ grown.tail >= grown.head
    BY <1>1, <1>2, <2>9 DEF RoomAtTail, QueueInv, PointersOrdered, leftMarginIndex
  <2> QED
    BY <1>5, <1>7, <1>10, <2>3, <2>8, <2>9, <2>10 DEF grown, gap, cap
<1> QED
  BY <1>1, <1>8, <1>9, <1>10

\* Push keeps the invariants and every live block.
LEMMA PushInv ==
  ASSUME NEW queue, QueueInv(queue), GapReserved(queue),
         NEW len \in Nat, len >= minimumHeaderSize - 1, NEW data \in Data,
         ~PushFails(queue, Need(len))
  PROVE  LET pushed == Push(queue, len, data)
             gap    == queue.head - queue.tail
         IN  /\ QueueInv(pushed) /\ GapReserved(pushed)
             /\ Live(queue) \subseteq Live(pushed)
             /\ [at |-> PushIndex(queue, len), len |-> len, data |-> data]
                  \in Live(pushed)
             /\ \A b \in Live(pushed) \ Live(queue) :
                  b = [at |-> PushIndex(queue, len), len |-> len, data |-> data]
                    \/ b.data = ZeroBlob
             /\ \/ /\ PushGrows(queue, Need(len))
                   /\ queue.tail < queue.head
                   /\ Need(FillerLen(gap)) # gap
                \/ RingFilled(queue) => RingFilled(pushed)
             /\ pushed.capacity \in {queue.capacity, GrownCapacity(queue, Need(len))}
<1> DEFINE need   == Need(len)
           room   == MakeRoom(queue, need)
           pushed == Push(queue, len, data)
           block  == [at |-> room.tail, len |-> len, data |-> data]
           short  == /\ PushGrows(queue, need)
                     /\ queue.tail < queue.head
                     /\ Need(FillerLen(queue.head - queue.tail))
                          # queue.head - queue.tail
<1>1. need \in Nat /\ need > 0 /\ need >= minimumHeaderSize
  BY NeedBounds DEF minimumHeaderSize
<1>2. /\ queue.head \in Nat /\ queue.tail \in Nat /\ queue.capacity \in Nat
  BY DEF QueueInv, IsQueue
<1> HIDE DEF need
<1>3. /\ QueueInv(room)
      /\ Live(queue) \subseteq Live(room)
      /\ \A b \in Live(room) \ Live(queue) : b.data = ZeroBlob
      /\ RoomAtTail(room, need)
      /\ room.tail < room.head => FitsGap(room.head - room.tail, need)
      /\ short \/ (RingFilled(queue) => RingFilled(room))
      /\ room.capacity \in {queue.capacity, GrownCapacity(queue, need)}
  <2>1. CASE canInsertAfterTail(queue, need)
    <3>1. room = queue
      BY <2>1 DEF MakeRoom, PushGrows
    <3>2. RoomAtTail(queue, need)
      BY <1>1, <1>2, <2>1 DEF canInsertAfterTail, RoomAtTail, FitsGap,
                              minimumHeaderSize
    <3>3. queue.tail < queue.head => FitsGap(queue.head - queue.tail, need)
      BY <1>2, <2>1 DEF canInsertAfterTail
    <3> QED
      BY <3>1, <3>2, <3>3
  <2>2. CASE ~canInsertAfterTail(queue, need) /\ canInsertBeforeHead(queue, need)
    <3>1. room = [queue EXCEPT !.tail = leftMarginIndex]
      BY <2>2 DEF MakeRoom, PushGrows
    <3>2. room.capacity = queue.capacity
      BY <3>1 DEF QueueInv, IsQueue
    <3> QED
      BY <1>1, <2>2, <3>1, <3>2, MoveTailBeforeHead
  <2>3. CASE PushGrows(queue, need)
    <3>1. room = allocateAdditionalMemory(queue, need)
      BY <2>3 DEF MakeRoom, PushGrows
    <3>2. ~PushFails(queue, need)
      BY DEF need
    <3> HIDE DEF room
    <3>3. QueueInv(room) /\ room.tail >= room.head
      BY <1>1, <2>3, <3>1, <3>2, Reallocate
    <3> QED
      BY <1>1, <2>3, <3>1, <3>2, <3>3, Reallocate DEF QueueInv, IsQueue
  <2> QED
    BY <2>1, <2>2, <2>3 DEF PushGrows
<1>4. pushed = push(room, len, data)
  BY DEF Push, need
<1> HIDE DEF room, pushed
<1>5. /\ QueueInv(pushed)
      /\ Live(pushed) = Live(room) \cup {block}
      /\ RingFilled(room) => RingFilled(pushed)
  BY <1>3, <1>4, PushBlock DEF need
<1>6. GapReserved(pushed)
  <2>1. /\ room.head \in Nat /\ room.tail \in Nat
        /\ pushed.head = room.head /\ pushed.tail = room.tail + need
    BY <1>3, <1>4 DEF push, End, QueueInv, IsQueue, need
  <2> QED
    BY <1>1, <1>3, <2>1 DEF GapReserved, FitsGap, minimumHeaderSize
<1>7. pushed.capacity = room.capacity
  BY <1>3, <1>4 DEF push, QueueInv, IsQueue
<1> QED
  BY <1>3, <1>5, <1>6, <1>7 DEF PushIndex, room, pushed, need

-----------------------------------------------------------------------------
(* Popping and resetting.                                                  *)

\* Pop of the block at the head takes exactly that block out.
LEMMA PopInv ==
  ASSUME NEW queue, QueueInv(queue), GapReserved(queue),
         queue.count # 0, HasBlock(queue, queue.head)
  PROVE  /\ QueueInv(Pop(queue)) /\ GapReserved(Pop(queue))
         /\ Peek(queue) \in Live(queue)
         /\ Peek(queue).at = queue.head
         /\ Live(Pop(queue)) = Live(queue) \ {Peek(queue)}
         /\ RingFilled(queue) => RingFilled(Pop(queue))
<1> DEFINE block  == Peek(queue)
           popped == Pop(queue)
<1>1. /\ queue.head \in Nat /\ queue.tail \in Nat /\ queue.rightMargin \in Nat
      /\ queue.capacity \in Nat /\ queue.count \in Nat
      /\ queue.full \in BOOLEAN
      /\ queue.array \subseteq Blocks /\ IsFiniteSet(queue.array)
  BY DEF QueueInv, IsQueue
<1>2. \A c \in Blocks : /\ c.at \in Nat /\ c.at >= 1
                        /\ End(c) \in Nat /\ c.at < End(c)
                        /\ c.len >= minimumHeaderSize - 1
                             => End(c) >= c.at + minimumHeaderSize
  BY NeedBounds DEF Blocks, End, minimumHeaderSize
<1>3. block \in queue.array /\ block.at = queue.head
  BY DEF HasBlock, Peek, Get
<1>4. queue.head < queue.rightMargin
  <2> SUFFICES ASSUME queue.head = queue.rightMargin
               PROVE  FALSE
    BY <1>1 DEF QueueInv, PointersOrdered
  <2>1. queue.rightMargin = 1 /\ queue.tail = 1 /\ queue.head = 1
    BY <1>1 DEF QueueInv, PointersOrdered, leftMarginIndex
  <2>2. Live(queue) = {}
    BY <1>1, <1>2, <2>1 DEF Live, FrontBlocks, BackBlocks
  <2> QED
    BY <2>2, FS_EmptySet DEF QueueInv, CountsLive
<1>5. /\ block \in FrontBlocks(queue) /\ block \in Live(queue)
      /\ End(block) \in Nat
      /\ End(block) >= queue.head + minimumHeaderSize
      /\ End(block) <= queue.rightMargin
  BY <1>1, <1>2, <1>3, <1>4 DEF Live, FrontBlocks, QueueInv, MarginsRespected,
                               HeadersFit
<1>6. /\ popped.array = queue.array /\ popped.capacity = queue.capacity
      /\ popped.full = FALSE /\ popped.count = queue.count - 1
      /\ End(block) # queue.rightMargin =>
           /\ popped.head = End(block)
           /\ popped.tail = queue.tail
           /\ popped.rightMargin = queue.rightMargin
      /\ End(block) = queue.rightMargin =>
           /\ popped.head = 1
           /\ popped.tail = IF queue.tail = queue.rightMargin THEN 1 ELSE queue.tail
           /\ popped.rightMargin = popped.tail
  BY DEF Pop, QueueInv, IsQueue, leftMarginIndex
<1>7. IsQueue(popped)
  <2>1. End(block) \in Nat /\ queue.count - 1 \in Nat
    BY <1>1, <1>5
  <2> QED
    BY <1>1, <2>1 DEF Pop, QueueInv, IsQueue, leftMarginIndex
<1> HIDE DEF block, popped
<1> USE <1>1, <1>2, <1>3, <1>4, <1>5, <1>6 DEF QueueInv, PointersOrdered,
        leftMarginIndex, minimumHeaderSize
<1>8. PointersOrdered(popped)
  OBVIOUS
<1>9. GapReserved(popped)
  BY DEF GapReserved
<1>10. \A c \in queue.array :
         c # block => c.at < queue.head \/ End(block) <= c.at
  BY DEF BlocksDisjoint, Overlap
<1>11. ASSUME End(block) # queue.rightMargin
       PROVE  /\ FrontBlocks(popped) = FrontBlocks(queue) \ {block}
              /\ BackBlocks(popped) = BackBlocks(queue)
  BY <1>10, <1>11 DEF FrontBlocks, BackBlocks
<1>12. ASSUME End(block) = queue.rightMargin
       PROVE  /\ FrontBlocks(queue) = {block}
              /\ FrontBlocks(popped) = BackBlocks(queue)
              /\ BackBlocks(popped) = {}
  BY <1>10, <1>12 DEF FrontBlocks, BackBlocks
<1>13. Live(popped) = Live(queue) \ {block}
  <2>1. block \notin BackBlocks(queue)
    BY DEF BackBlocks
  <2> QED
    BY <1>11, <1>12, <2>1 DEF Live
<1>14. BlocksDisjoint(popped)
  BY DEF BlocksDisjoint
<1>15. MarginsRespected(popped)
  <2>1. \A c \in popped.array : End(c) <= popped.head \/ popped.head <= c.at
    BY DEF BlocksDisjoint, Overlap
  <2>2. \A c \in FrontBlocks(popped) : End(c) <= popped.rightMargin
    BY <1>11, <1>12 DEF MarginsRespected, BackBlocks
  <2>3. \A c \in BackBlocks(popped) : End(c) <= popped.tail
    BY <1>11, <1>12 DEF MarginsRespected
  <2> QED
    BY <2>1, <2>2, <2>3 DEF MarginsRespected
<1>16. HeadersFit(popped)
  BY DEF HeadersFit
<1>17. CountsLive(popped)
  <2>1. IsFiniteSet(Live(queue)) /\ Cardinality(Live(queue)) \in Nat
    BY LiveFinite
  <2>2. Cardinality(Live(queue) \ {block}) = Cardinality(Live(queue)) - 1
    BY <2>1, FS_RemoveElement
  <2> QED
    BY <1>13, <2>2 DEF CountsLive
<1>18. ASSUME RingFilled(queue)
       PROVE  RingFilled(popped)
  <2>1. CASE End(block) # queue.rightMargin
    <3>1. Chain(FrontBlocks(popped), popped.head, popped.rightMargin)
      BY <1>18, <1>10, <1>11, <2>1 DEF RingFilled, Chain, FrontBlocks
    <3>2. popped.tail <= popped.head => queue.tail <= queue.head
      BY <2>1
    <3> QED
      BY <1>18, <1>11, <2>1, <3>1, <3>2 DEF RingFilled
  <2>2. CASE End(block) = queue.rightMargin
    <3>1. CASE queue.tail > queue.head
      BY <1>12, <2>2, <3>1 DEF RingFilled, Chain, BackBlocks
    <3>2. CASE queue.tail <= queue.head
      BY <1>18, <1>12, <2>2, <3>2 DEF RingFilled, Chain
    <3> QED
      BY <3>1, <3>2
  <2> QED
    BY <2>1, <2>2
<1> QED
  BY <1>7, <1>8, <1>9, <1>13, <1>14, <1>15, <1>16, <1>17, <1>18
     DEF block, popped

\* When blocks fill the ring there is one at the head, unless it is empty.
LEMMA HeadBlock ==
  ASSUME NEW queue, QueueInv(queue), RingFilled(queue), queue.count # 0
  PROVE  HasBlock(queue, queue.head)
<1>1. /\ queue.head \in Nat /\ queue.tail \in Nat /\ queue.rightMargin \in Nat
      /\ queue.array \subseteq Blocks
  BY DEF QueueInv, IsQueue
<1>2. queue.head < queue.rightMargin
  <2> SUFFICES ASSUME queue.head = queue.rightMargin
               PROVE  FALSE
    BY <1>1 DEF QueueInv, PointersOrdered
  <2>1. queue.rightMargin = 1 /\ queue.tail = 1 /\ queue.head = 1
    BY <1>1 DEF QueueInv, PointersOrdered, leftMarginIndex
  <2>2. Live(queue) = {}
    BY <1>1, <2>1 DEF Live, FrontBlocks, BackBlocks, Blocks
  <2> QED
    BY <2>2, FS_EmptySet DEF QueueInv, CountsLive
<1> QED
  BY <1>2 DEF RingFilled, Chain, FrontBlocks, HasBlock

\* Reset empties the queue and repairs the ring.
LEMMA ResetInv ==
  ASSUME NEW queue, QueueInv(queue)
  PROVE  /\ QueueInv(Reset(queue)) /\ GapReserved(Reset(queue))
         /\ RingFilled(Reset(queue)) /\ Live(Reset(queue)) = {}
<1> DEFINE reset == Reset(queue)
<1>1. /\ reset.full = FALSE /\ reset.array = queue.array
      /\ reset.capacity = queue.capacity /\ reset.head = 1 /\ reset.tail = 1
      /\ reset.rightMargin = 1 /\ reset.count = 0
      /\ IsQueue(reset)
  BY DEF Reset, QueueInv, IsQueue, leftMarginIndex
<1>2. reset.array \subseteq Blocks
  BY <1>1 DEF QueueInv, IsQueue
<1> HIDE DEF reset
<1>3. FrontBlocks(reset) = {} /\ BackBlocks(reset) = {} /\ Live(reset) = {}
  BY <1>1, <1>2 DEF Live, FrontBlocks, BackBlocks, Blocks
<1>4. CountsLive(reset)
  BY <1>1, <1>3, FS_EmptySet DEF CountsLive
<1>5. PointersOrdered(reset) /\ GapReserved(reset)
  BY <1>1 DEF PointersOrdered, GapReserved, leftMarginIndex
<1>6. BlocksDisjoint(reset) /\ HeadersFit(reset)
  BY <1>1 DEF QueueInv, BlocksDisjoint, HeadersFit
<1>7. MarginsRespected(reset)
  BY <1>1, <1>2, <1>3 DEF MarginsRespected, Blocks
<1>8. RingFilled(reset)
  BY <1>1, <1>3 DEF RingFilled, Chain, leftMarginIndex
<1> QED
  BY <1>1, <1>3, <1>4, <1>5, <1>6, <1>7, <1>8 DEF QueueInv, reset

-----------------------------------------------------------------------------
(* Marking.                                                                *)

\* One queue is another in which a block is replaced.
Replaces(q, r, old, new) ==
  /\ QueueInv(r)
  /\ Live(r) = IF old \in Live(q) THEN (Live(q) \ {old}) \cup {new} ELSE Live(q)
  /\ GapReserved(q) => GapReserved(r)
  /\ RingFilled(q) => RingFilled(r)

\* A block that is given other data stays where it is, and so does every other.
LEMMA RelabelInv ==
  ASSUME NEW queue, QueueInv(queue), NEW old \in queue.array, NEW data \in Data,
         NEW block, block = [at |-> old.at, len |-> old.len, data |-> data],
         NEW array, array = (queue.array \ {old}) \cup {block},
         NEW marked, marked = [queue EXCEPT !.array = array]
  PROVE  Replaces(queue, marked, old, block)
<1>1. IsQueue(queue) /\ queue.array \subseteq Blocks /\ IsFiniteSet(queue.array)
  BY DEF QueueInv, IsQueue
<1>2. /\ block \in Blocks /\ block.at = old.at /\ End(block) = End(old) /\ block.len = old.len
  BY <1>1 DEF Blocks, End
<1>3. /\ \A b \in Blocks : b.at \in Nat /\ End(b) \in Nat /\ b.at < End(b)
  BY NeedBounds DEF Blocks, End
<1>4. \A b \in queue.array : b.at = old.at => b = old
  <2> SUFFICES ASSUME NEW b \in queue.array, b.at = old.at PROVE b = old
    OBVIOUS
  <2>1. Overlap(b, old)
    BY <1>1, <1>3 DEF Overlap
  <2> QED
    BY <2>1 DEF QueueInv, BlocksDisjoint
<1>5. block \notin queue.array \ {old}
  BY <1>2, <1>4
<1>6. array = (queue.array \ {old}) \cup {block}
  OBVIOUS
<1>7. array \subseteq Blocks /\ IsFiniteSet(array)
  <2>1. IsFiniteSet(queue.array \ {old})
    BY <1>1, FS_RemoveElement
  <2>2. IsFiniteSet((queue.array \ {old}) \cup {block})
    BY <2>1, FS_AddElement
  <2> QED
    BY <1>1, <1>2, <1>6, <2>2
<1>8. /\ marked.full = queue.full /\ marked.array = array
      /\ marked.capacity = queue.capacity /\ marked.head = queue.head
      /\ marked.tail = queue.tail /\ marked.rightMargin = queue.rightMargin
      /\ marked.count = queue.count /\ IsQueue(marked)
  BY <1>1, <1>7 DEF IsQueue
<1> DEFINE With(blocks) == IF old \in blocks THEN (blocks \ {old}) \cup {block} ELSE blocks
<1>9. FrontBlocks(marked) = With(FrontBlocks(queue)) /\ BackBlocks(marked) = With(BackBlocks(queue))
  BY <1>2, <1>6, <1>8 DEF FrontBlocks, BackBlocks
<1>10. Live(marked) = With(Live(queue))
  <2>1. Live(marked) = {b \in array : (queue.head <= b.at /\ b.at < queue.rightMargin)
                                        \/ (queue.tail <= queue.head /\ b.at < queue.tail)}
    BY <1>8 DEF Live, FrontBlocks, BackBlocks
  <2>2. Live(queue) = {b \in queue.array : (queue.head <= b.at /\ b.at < queue.rightMargin)
                                             \/ (queue.tail <= queue.head /\ b.at < queue.tail)}
    BY DEF Live, FrontBlocks, BackBlocks
  <2> QED
    BY <1>2, <1>6, <2>1, <2>2
<1>11. CountsLive(marked)
  <2>1. /\ IsFiniteSet(Live(queue)) /\ Cardinality(Live(queue)) \in Nat
        /\ Live(queue) \subseteq queue.array /\ queue.count = Cardinality(Live(queue))
    BY <1>1, LiveFinite DEF QueueInv, CountsLive
  <2>2. CASE old \notin Live(queue)
    BY <1>8, <1>10, <2>1, <2>2 DEF CountsLive
  <2>3. CASE old \in Live(queue)
    <3>1. /\ IsFiniteSet(Live(queue) \ {old})
          /\ Cardinality(Live(queue) \ {old}) = Cardinality(Live(queue)) - 1
      BY <2>1, <2>3, FS_RemoveElement
    <3>2. block \notin Live(queue) \ {old}
      BY <1>5, <2>1
    <3>3. Cardinality((Live(queue) \ {old}) \cup {block}) = Cardinality(Live(queue) \ {old}) + 1
      BY <3>1, <3>2, FS_AddElement
    <3>4. Live(marked) = (Live(queue) \ {old}) \cup {block}
      BY <1>10, <2>3
    <3>5. Cardinality(Live(marked)) = Cardinality(Live(queue))
      <4> DEFINE n == Cardinality(Live(queue))
      <4>1. n \in Nat /\ Cardinality(Live(marked)) = n - 1 + 1
        BY <2>1, <3>1, <3>3, <3>4
      <4> HIDE DEF n
      <4>2. n - 1 + 1 = n
        BY <4>1
      <4> QED
        BY <4>1, <4>2 DEF n
    <3> QED
      BY <1>8, <2>1, <3>5 DEF CountsLive
  <2> QED
    BY <2>2, <2>3
<1>12. PointersOrdered(marked)
  BY <1>8 DEF QueueInv, PointersOrdered
<1>13. BlocksDisjoint(marked)
  <2>1. \A b \in array : \E c \in queue.array :
          c.at = b.at /\ End(c) = End(b) /\ ((b = block /\ c = old) \/ (b = c /\ b # old))
    BY <1>2, <1>6
  <2>2. \A b \in array : End(b) <= queue.capacity
    BY <2>1 DEF QueueInv, BlocksDisjoint
  <2>3. ASSUME NEW b \in array, NEW c \in array, b # c PROVE ~Overlap(b, c)
    <3>1. PICK b2 \in queue.array : b2.at = b.at /\ End(b2) = End(b)
                                   /\ ((b = block /\ b2 = old) \/ (b = b2 /\ b # old))
      BY <2>1
    <3>2. PICK c2 \in queue.array : c2.at = c.at /\ End(c2) = End(c)
                                   /\ ((c = block /\ c2 = old) \/ (c = c2 /\ c # old))
      BY <2>1
    <3>3. b2 # c2
      BY <2>3, <3>1, <3>2
    <3>4. ~Overlap(b2, c2)
      BY <3>3 DEF QueueInv, BlocksDisjoint
    <3> QED
      BY <3>1, <3>2, <3>4 DEF Overlap
  <2> QED
    BY <1>8, <2>2, <2>3 DEF BlocksDisjoint
<1>14. MarginsRespected(marked)
  BY <1>2, <1>6, <1>8, <1>9 DEF QueueInv, MarginsRespected
<1>15. HeadersFit(marked)
  BY <1>2, <1>6, <1>8 DEF QueueInv, HeadersFit
<1>16. \A blocks, lo, hi : blocks \subseteq queue.array /\ Chain(blocks, lo, hi) => Chain(With(blocks), lo, hi)
  <2> SUFFICES ASSUME NEW blocks, NEW lo, NEW hi, Chain(blocks, lo, hi), old \in blocks
               PROVE  Chain((blocks \ {old}) \cup {block}, lo, hi)
    OBVIOUS
  <2>1. lo < hi => \E b \in (blocks \ {old}) \cup {block} : b.at = lo
    BY <1>2 DEF Chain
  <2>2. ASSUME NEW b \in (blocks \ {old}) \cup {block}
        PROVE  End(b) = hi \/ \E c \in (blocks \ {old}) \cup {block} : c.at = End(b)
    <3>1. PICK b2 \in blocks : End(b2) = End(b)
      BY <1>2, <2>2
    <3>2. End(b) = hi \/ \E c \in blocks : c.at = End(b)
      BY <3>1 DEF Chain
    <3> QED
      BY <1>2, <3>2
  <2> QED
    BY <2>1, <2>2 DEF Chain
<1>17. RingFilled(queue) => RingFilled(marked)
  <2>1. FrontBlocks(queue) \subseteq queue.array /\ BackBlocks(queue) \subseteq queue.array
    BY DEF FrontBlocks, BackBlocks
  <2> HIDE DEF With
  <2> QED
    BY <1>8, <1>9, <1>16, <2>1 DEF RingFilled
<1>18. GapReserved(queue) => GapReserved(marked)
  BY <1>8 DEF GapReserved
<1> QED
  BY <1>8, <1>10, <1>11, <1>12, <1>13, <1>14, <1>15, <1>17, <1>18 DEF QueueInv, Replaces

\* The block that is read at the index of a block is that block.
LEMMA BlockAt ==
  ASSUME NEW queue, QueueInv(queue), NEW b \in queue.array
  PROVE  Get(queue, b.at) = b /\ \A c \in queue.array : c.at = b.at => c = b
<1>1. queue.array \subseteq Blocks
  BY DEF QueueInv, IsQueue
<1>2. ASSUME NEW c \in queue.array, c.at = b.at PROVE c = b
  <2>1. b.at \in Nat /\ End(b) \in Nat /\ b.at < End(b) /\ End(c) \in Nat /\ c.at < End(c)
    BY <1>1, NeedBounds DEF Blocks, End
  <2>2. Overlap(c, b)
    BY <1>2, <2>1 DEF Overlap
  <2> QED
    BY <2>2 DEF QueueInv, BlocksDisjoint
<1> QED
  BY <1>2 DEF Get

\* A live block can be read.
LEMMA LiveReadable ==
  ASSUME NEW queue, QueueInv(queue), NEW b \in Live(queue)
  PROVE  b \in queue.array /\ ~peekCheckErr(queue, b.at)
<1>1. /\ queue.head \in Nat /\ queue.tail \in Nat /\ queue.rightMargin \in Nat
      /\ queue.capacity \in Nat /\ queue.array \subseteq Blocks /\ IsQueue(queue)
  BY DEF QueueInv, IsQueue
<1>2. b \in queue.array /\ b \in Blocks
  BY <1>1 DEF Live, FrontBlocks, BackBlocks
<1>3. b.at \in Nat \ {0} /\ End(b) \in Nat /\ b.at < End(b) /\ End(b) <= queue.capacity
  BY <1>1, <1>2, NeedBounds DEF Blocks, End, QueueInv, BlocksDisjoint
<1>4. queue.count # 0
  <2>1. IsFiniteSet(Live(queue)) /\ Live(queue) # {} /\ queue.count = Cardinality(Live(queue))
    BY <1>1, LiveFinite DEF QueueInv, CountsLive
  <2> QED
    BY <2>1, FS_EmptySet
<1> QED
  BY <1>1, <1>2, <1>3, <1>4 DEF peekCheckErr
=============================================================================
