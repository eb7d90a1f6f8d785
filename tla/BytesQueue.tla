---------------------------- MODULE BytesQueue ----------------------------
(***************************************************************************)
(* The byte queue of a bigcache shard (src/bigcache/queue/bytes_queue.go): *)
(* one array used as a ring, in which every entry is a block made of a     *)
(* uvarint header and the entry's bytes.  This module is the queue as a    *)
(* value: a record, and one operator per method.  BytesQueueSpec drives it *)
(* as a state machine, Shard keeps one per shard.                          *)
(*                                                                         *)
(* The array is the set of blocks that can be read back from it, live or   *)
(* stale: writing a block destroys the ones it overlaps, and Pop and Reset *)
(* move the pointers and erase nothing.  Positions and lengths are exact;  *)
(* what an entry's bytes say is its "data".                                *)
(***************************************************************************)
EXTENDS Integers, FiniteSets

CONSTANTS
  InitCapacity,  \* bytes allocated by NewBytesQueue
  MaxCapacity,   \* bytes the array may grow to, 0 for no limit
  Data,          \* what the bytes of an entry may say
  ZeroBlob       \* the data of an entry whose bytes are all zero

ASSUME QueueAssumption ==
  /\ InitCapacity \in Nat
  /\ MaxCapacity \in Nat
  /\ ZeroBlob \in Data

\* One byte of header, a timestamp and a hash: the least an entry occupies.
minimumHeaderSize == 17

\* Index 0 means "no such entry", so the first block starts at 1.
leftMarginIndex == 1

-----------------------------------------------------------------------------
(* Blocks.                                                                 *)

\* Bytes of the uvarint encoding of x.
getUvarintSize(x) ==
  IF x < 128 THEN 1
  ELSE IF x < 16384 THEN 2
  ELSE IF x < 2097152 THEN 3
  ELSE IF x < 268435456 THEN 4
  ELSE 5

\* What an entry of len bytes needs in the array: the argument of the two
\* canInsert methods.
Need(len) == getUvarintSize(len) + len

End(b) == b.at + Need(b.len)

Overlap(b, c) == b.at < End(c) /\ c.at < End(b)

\* The array once block b has been copied into it.
Overwrite(array, b) == {c \in array : ~Overlap(b, c)} \cup {b}

-----------------------------------------------------------------------------
(* The queue, and what is live in it.                                      *)

NewBytesQueue ==
  [full |-> FALSE, array |-> {}, capacity |-> InitCapacity,
   head |-> leftMarginIndex, tail |-> leftMarginIndex,
   rightMargin |-> leftMarginIndex, count |-> 0]

\* Faulty: keeps the count.
ResetPointersOnly(q) ==
  [q EXCEPT !.head = leftMarginIndex, !.tail = leftMarginIndex,
            !.rightMargin = leftMarginIndex, !.full = FALSE]

Reset(q) ==
  [q EXCEPT !.head = leftMarginIndex, !.tail = leftMarginIndex,
            !.rightMargin = leftMarginIndex, !.count = 0, !.full = FALSE]

\* The live blocks: those from head to rightMargin, and, once the tail has
\* gone round, those from the left margin to the tail.
FrontBlocks(q) == {b \in q.array : q.head <= b.at /\ b.at < q.rightMargin}
BackBlocks(q)  == {b \in q.array : q.tail <= q.head /\ b.at < q.tail}
Live(q) == FrontBlocks(q) \cup BackBlocks(q)

-----------------------------------------------------------------------------
(* Reading.                                                                *)

\* Faulty: takes the empty queue for one with an entry.
peekCheckErrNotEmpty(q, index) == index <= 0 \/ index >= q.capacity

peekCheckErr(q, index) == q.count = 0 \/ index <= 0 \/ index >= q.capacity

\* A block can be read back at the index.  When the check passes and there is
\* no block, peek returns whatever bytes are there.
HasBlock(q, index) == \E b \in q.array : b.at = index

Get(q, index) == CHOOSE b \in q.array : b.at = index

Peek(q) == Get(q, q.head)

-----------------------------------------------------------------------------
(* Pushing.                                                                *)

\* Faulty: leaves gaps of any size.
FitsGapUnreserved(gap, need) == gap >= need

\* A gap that is not filled exactly keeps room for the header of the empty
\* entry a reallocation would put there.
FitsGap(gap, need) == gap = need \/ gap >= need + minimumHeaderSize

\* Faulty: forgets that the tail may have gone round.
canInsertAfterTailInOrder(q, need) == ~q.full /\ q.capacity - q.tail >= need

\* Faulty: forgets the flag, and takes a full ring for an empty queue.
canInsertAfterTailNotFull(q, need) ==
  \/ q.tail >= q.head /\ q.capacity - q.tail >= need
  \/ q.tail < q.head  /\ FitsGap(q.head - q.tail, need)

canInsertAfterTail(q, need) ==
  /\ ~q.full
  /\ \/ q.tail >= q.head /\ q.capacity - q.tail >= need
     \/ q.tail < q.head  /\ FitsGap(q.head - q.tail, need)

canInsertBeforeHead(q, need) ==
  /\ ~q.full
  /\ \/ q.tail >= q.head /\ FitsGap(q.head - leftMarginIndex, need)
     \/ q.tail < q.head  /\ FitsGap(q.head - q.tail, need)

\* Copies the block at the tail.
push(q, len, data) ==
  LET b    == [at |-> q.tail, len |-> len, data |-> data]
      tail == End(b)
  IN  [q EXCEPT !.array = Overwrite(@, b),
                !.tail = tail,
                !.rightMargin = IF tail > q.head THEN tail ELSE @,
                !.full = @ \/ tail = q.head,
                !.count = @ + 1]

\* The length of the empty entry that is to fill a gap of the ring.  The
\* header is sized for the gap and not for the entry: at the lengths where
\* the two differ, 128 and 129 first, the entry is a byte short of the gap.
FillerLen(gap) == gap - getUvarintSize(gap)

\* Faulty: doubles past the limit.
GrownCapacityUnlimited(q, minimum) ==
  2 * (q.capacity + IF q.capacity < minimum THEN minimum ELSE 0)

GrownCapacity(q, minimum) ==
  LET doubled == 2 * (q.capacity + IF q.capacity < minimum THEN minimum ELSE 0)
  IN  IF MaxCapacity > 0 /\ doubled > MaxCapacity THEN MaxCapacity ELSE doubled

\* The bytes up to the right margin, in a larger array.
Copied(q, minimum) ==
  [q EXCEPT !.capacity = GrownCapacity(q, minimum),
            !.array = {b \in @ : End(b) <= q.rightMargin}]

\* A ring whose gap is filled, read from the left margin.
Unrolled(q) ==
  [q EXCEPT !.head = leftMarginIndex, !.tail = q.rightMargin, !.full = FALSE]

\* Faulty: leaves the gap of a ring as it is.
allocateAdditionalMemoryUnfilled(q, minimum) ==
  IF q.rightMargin = leftMarginIndex \/ q.tail > q.head
  THEN Copied(q, minimum)
  ELSE Unrolled(Copied(q, minimum))

\* Faulty: leaves the head where it was.
allocateAdditionalMemoryHeadKept(q, minimum) ==
  [Copied(q, minimum) EXCEPT !.tail = q.rightMargin, !.full = FALSE]

\* A ring is unrolled where it lies: what was pushed last stays in front of
\* what was pushed first, with an empty entry in the gap between them.
allocateAdditionalMemory(q, minimum) ==
  LET copied == Copied(q, minimum)
      filled == push(copied, FillerLen(q.head - q.tail), ZeroBlob)
  IN  IF q.rightMargin = leftMarginIndex \/ q.tail > q.head
      THEN [copied EXCEPT !.full = FALSE]
      ELSE IF q.tail = q.head THEN Unrolled(copied) ELSE Unrolled(filled)

\* Push must reallocate, and Push refuses because the array may not grow.
PushGrows(q, need) == ~canInsertAfterTail(q, need) /\ ~canInsertBeforeHead(q, need)

PushFails(q, need) ==
  PushGrows(q, need) /\ q.capacity + need >= MaxCapacity /\ MaxCapacity > 0

\* The queue with room for need bytes at its tail, when Push does not refuse.
MakeRoom(q, need) ==
  CASE canInsertAfterTail(q, need) -> q
    [] ~canInsertAfterTail(q, need) /\ canInsertBeforeHead(q, need) ->
         [q EXCEPT !.tail = leftMarginIndex]
    [] PushGrows(q, need) -> allocateAdditionalMemory(q, need)

\* What Push makes of the queue, and the index it returns.
Push(q, len, data) == push(MakeRoom(q, Need(len)), len, data)
PushIndex(q, len)  == MakeRoom(q, Need(len)).tail

-----------------------------------------------------------------------------
(* Popping the block at the head.                                          *)

\* Faulty: goes round without moving the right margin to the tail.
PopMarginKept(q) ==
  LET head   == End(Peek(q))
      popped == [q EXCEPT !.head = head, !.count = @ - 1, !.full = FALSE]
  IN  IF head # q.rightMargin THEN popped ELSE [popped EXCEPT !.head = leftMarginIndex]

Pop(q) ==
  LET head    == End(Peek(q))
      tail    == IF q.tail = q.rightMargin THEN leftMarginIndex ELSE q.tail
      popped  == [q EXCEPT !.head = head, !.count = @ - 1, !.full = FALSE]
  IN  IF head # q.rightMargin
      THEN popped
      ELSE [popped EXCEPT !.head = leftMarginIndex, !.tail = tail,
                          !.rightMargin = tail]

-----------------------------------------------------------------------------
(* What is true of a queue between calls.                                  *)

Blocks == [at : Nat \ {0}, len : Nat, data : Data]

IsQueue(q) ==
  /\ q \in [full : BOOLEAN, array : SUBSET Blocks, capacity : Nat, head : Nat,
            tail : Nat, rightMargin : Nat, count : Nat]
  /\ IsFiniteSet(q.array)

\* The pointers are in one of the configurations that the comment of the
\* field rightMargin draws: empty, in order, a ring, or a full ring.
PointersOrdered(q) ==
  /\ leftMarginIndex <= q.head /\ q.head <= q.rightMargin
  /\ leftMarginIndex <= q.tail /\ q.tail <= q.rightMargin
  /\ q.rightMargin <= q.capacity \/ q.rightMargin = leftMarginIndex
  /\ q.tail > q.head => q.tail = q.rightMargin /\ ~q.full
  /\ q.tail < q.head => ~q.full /\ q.head < q.rightMargin
  /\ q.tail = q.head => \/ q.full /\ q.head < q.rightMargin
                        \/ ~q.full /\ q.rightMargin = leftMarginIndex

\* No two blocks share a byte and none passes the end of the array, so no
\* copy was cut short by it.
BlocksDisjoint(q) ==
  /\ \A b \in q.array : End(b) <= q.capacity
  /\ \A b, c \in q.array : b = c \/ ~Overlap(b, c)

\* No live block crosses the right margin, nor the tail of a ring, and no
\* block at all crosses the head.
MarginsRespected(q) ==
  /\ \A b \in FrontBlocks(q) : End(b) <= q.rightMargin
  /\ \A b \in BackBlocks(q)  : End(b) <= q.tail
  /\ \A b \in q.array : End(b) <= q.head \/ q.head <= b.at

\* Blocks fill the bytes from lo to hi: there is one at lo, and each ends
\* where the next begins or at hi.
Chain(blocks, lo, hi) ==
  /\ lo < hi => \E b \in blocks : b.at = lo
  /\ \A b \in blocks : End(b) = hi \/ \E c \in blocks : c.at = End(b)

RingFilled(q) ==
  /\ Chain(FrontBlocks(q), q.head, q.rightMargin)
  /\ q.tail <= q.head => Chain(BackBlocks(q), leftMarginIndex, q.tail)

CountsLive(q) == q.count = Cardinality(Live(q))

\* No block is too short for a timestamp and a hash, ...
HeadersFit(q) == \A b \in q.array : b.len >= minimumHeaderSize - 1

\* ... and the gap of a ring has room for an empty entry that is not.
GapReserved(q) == q.tail < q.head => q.head - q.tail >= minimumHeaderSize
=============================================================================
