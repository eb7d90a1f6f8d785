-------------------------- MODULE BytesQueueSpec --------------------------
(***************************************************************************)
(* A BytesQueue driven by any legal sequence of calls: Push, Pop and Reset *)
(* are its only methods that change state.  The type is not thread safe    *)
(* and its callers hold the shard's lock, so a call is one step.           *)
(***************************************************************************)
EXTENDS BytesQueue

CONSTANTS
  EntryLengths,  \* the lengths of the entries pushed
  MaxPushes      \* bound: how many entries a behaviour pushes

\* wrapEntry puts 18 bytes of headers in front of every entry; 16 are enough
\* for what the queue is asked to guarantee.
ASSUME EntriesAssumption ==
  /\ EntryLengths \subseteq Nat
  /\ \A len \in EntryLengths : len >= minimumHeaderSize - 1
  /\ MaxPushes \in Nat
  /\ 1 .. MaxPushes \subseteq Data

VARIABLES
  q,        \* the queue
  pushes,   \* entries pushed so far; an entry's data is its number
  layout    \* history: what the blocks say of the bytes in the ring

vars == <<q, pushes, layout>>

\* "whole":  blocks fill the ring.
\* "holed":  an empty entry came out a byte short of the gap it was to fill.
\* "lost":   Pop has taken the bytes of a hole for a header, and where the head
\*           is now depends on what they were.  Only Reset makes the positions
\*           known again.
Layouts == {"whole", "holed", "lost"}

Init ==
  /\ q = NewBytesQueue
  /\ pushes = 0
  /\ layout = "whole"

\* Reallocating for an entry of len bytes leaves a hole.
LeavesHole(len) ==
  /\ PushGrows(q, Need(len))
  /\ q.tail < q.head
  /\ Need(FillerLen(q.head - q.tail)) # q.head - q.tail

PushOk(len) ==
  /\ layout # "lost"
  /\ pushes < MaxPushes
  /\ ~PushFails(q, Need(len))
  /\ q' = Push(q, len, pushes + 1)
  /\ pushes' = pushes + 1
  /\ layout' = IF LeavesHole(len) THEN "holed" ELSE layout

\* The error return leaves the queue as it was.
PushRefused(len) ==
  /\ layout # "lost"
  /\ PushFails(q, Need(len))
  /\ UNCHANGED vars

PopOk ==
  /\ layout # "lost"
  /\ ~peekCheckErr(q, q.head)
  /\ HasBlock(q, q.head)
  /\ q' = Pop(q)
  /\ UNCHANGED <<pushes, layout>>

\* The bytes at the head are no entry: Pop returns some of them all the same.
PopHole ==
  /\ layout # "lost"
  /\ ~peekCheckErr(q, q.head)
  /\ ~HasBlock(q, q.head)
  /\ layout' = "lost"
  /\ UNCHANGED <<q, pushes>>

PopError ==
  /\ layout # "lost"
  /\ peekCheckErr(q, q.head)
  /\ UNCHANGED vars

ResetQueue ==
  /\ q' = Reset(q)
  /\ layout' = "whole"
  /\ UNCHANGED pushes

Next ==
  \/ \E len \in EntryLengths : PushOk(len) \/ PushRefused(len)
  \/ PopOk
  \/ PopHole
  \/ PopError
  \/ ResetQueue

Spec == Init /\ [][Next]_vars

-----------------------------------------------------------------------------
(* Safety.                                                                 *)

\* The variables have their types: the fields of a BytesQueue are what
\* NewBytesQueue, Push, Pop and Reset may make of them.
TypeOK ==
  /\ IsQueue(q)
  /\ pushes \in 0 .. MaxPushes
  /\ layout \in Layouts

\* The pointers head, tail and rightMargin and the flag full always describe
\* a queue: what the next Push or Pop infers from comparing them is so.
PointersInOrder == PointersOrdered(q)

\* Entries never share a byte, none passes the end of the array, and none of
\* the live ones lies across a pointer.
EntriesApart == BlocksDisjoint(q) /\ MarginsRespected(q)

\* Every byte of the ring belongs to an entry: a walk from the head meets
\* every entry, and the walk that Pop makes never reads a header where there
\* is none.  Only the short filler of a reallocation breaks it.
RingIsWhole == layout = "whole" => RingFilled(q)

\* Len counts the live blocks: Pop reports an empty queue exactly when none
\* is left, whatever the ring went through.
CountIsLive == CountsLive(q)

\* Every entry is long enough for readTimestampFromEntry and
\* readHashFromEntry, which the shard applies to whatever Peek and Pop return
\* (shard.go:292, 345), the filler of a gap included: the space that
\* canInsertAfterTail and canInsertBeforeHead reserve is what ensures it.
HeadersReadable == HeadersFit(q) /\ GapReserved(q)

\* The array never outgrows its limit (Config.HardMaxCacheSize), however far
\* doubling would take it.
WithinLimit ==
  MaxCapacity > 0 => q.capacity <= MaxCapacity \/ q.capacity = InitCapacity

-----------------------------------------------------------------------------
(* Action properties.                                                      *)

\* "For every push operation index of entry is returned.  It can be used to
\* read the entry later" (bytes_queue.go:23): a live entry stays at its index
\* with its bytes, through pushes, through reallocations that copy the array,
\* until it is popped or the queue is reset.
EntryStaysUntilPopped ==
  \A b \in Live(q) :
    \/ b \in Live(q')
    \/ b.at = q.head /\ q' = Pop(q)
    \/ q' = Reset(q)

IndexIsStable == [][EntryStaysUntilPopped]_vars

-----------------------------------------------------------------------------
(* What the comments say and the code does not do.                         *)

\* "Pop reads the oldest entry from queue" (bytes_queue.go:186).
OldestAtHead ==
  q.count > 0 /\ HasBlock(q, q.head) =>
    \A b \in Live(q) : b.data # ZeroBlob => Peek(q).data <= b.data

\* The entry that Pop and Peek are to read is there (bytes_queue.go:186, 211).
HeadIsAnEntry == q.count > 0 => HasBlock(q, q.head)
=============================================================================
