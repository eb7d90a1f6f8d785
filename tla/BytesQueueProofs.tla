------------------------- MODULE BytesQueueProofs -------------------------
(***************************************************************************)
(* The invariants of BytesQueueSpec, for queues of any size that are given *)
(* entries of any lengths.                                                 *)
(***************************************************************************)
EXTENDS BytesQueueSpec, BytesQueueLemmas

\* The inductive invariant.
Inv ==
  /\ TypeOK
  /\ QueueInv(q)
  /\ GapReserved(q)
  /\ layout = "whole" => RingFilled(q)
  /\ WithinLimit

-----------------------------------------------------------------------------

\* What NewBytesQueue returns satisfies the invariant.
LEMMA InitInv == Init => Inv
<1> SUFFICES ASSUME Init
             PROVE  Inv
  OBVIOUS
<1>1. QueueInv(q) /\ RingFilled(q) /\ GapReserved(q)
  BY NewQueueInv DEF Init
<1>2. TypeOK
  BY <1>1, EntriesAssumption DEF Init, TypeOK, QueueInv, Layouts
<1>3. WithinLimit
  BY DEF Init, WithinLimit, NewBytesQueue
<1> QED
  BY <1>1, <1>2, <1>3 DEF Inv

\* A push, whether it fits, goes round or reallocates.
LEMMA PushStep ==
  ASSUME Inv, NEW len \in EntryLengths, PushOk(len)
  PROVE  Inv' /\ EntryStaysUntilPopped
<1>1. /\ len \in Nat /\ len >= minimumHeaderSize - 1
      /\ pushes + 1 \in Data /\ pushes' \in 0 .. MaxPushes
  BY EntriesAssumption DEF PushOk, Inv, TypeOK
<1>2. /\ QueueInv(q) /\ GapReserved(q) /\ ~PushFails(q, Need(len))
      /\ q' = Push(q, len, pushes + 1)
  BY DEF Inv, PushOk
<1>3. /\ QueueInv(q') /\ GapReserved(q')
      /\ Live(q) \subseteq Live(q')
      /\ LeavesHole(len) \/ (RingFilled(q) => RingFilled(q'))
      /\ q'.capacity \in {q.capacity, GrownCapacity(q, Need(len))}
  BY <1>1, <1>2, PushInv DEF LeavesHole
<1>4. TypeOK'
  BY <1>1, <1>3 DEF Inv, TypeOK, PushOk, QueueInv, Layouts
<1>5. layout' = "whole" => RingFilled(q')
  BY <1>3 DEF Inv, PushOk
<1>6. WithinLimit'
  <2>1. q.capacity \in Nat /\ Need(len) \in Nat /\ WithinLimit
    BY <1>1, NeedBounds DEF Inv, QueueInv, IsQueue
  <2>2. MaxCapacity > 0 => GrownCapacity(q, Need(len)) <= MaxCapacity
    BY <2>1, QueueAssumption DEF GrownCapacity
  <2> QED
    BY <1>3, <2>1, <2>2 DEF WithinLimit
<1> QED
  BY <1>3, <1>4, <1>5, <1>6 DEF Inv, EntryStaysUntilPopped

\* Pop takes the block at the head and disturbs no other.
LEMMA PopStep ==
  ASSUME Inv, PopOk
  PROVE  Inv' /\ EntryStaysUntilPopped
<1>1. /\ QueueInv(q) /\ GapReserved(q)
      /\ q.count # 0 /\ HasBlock(q, q.head)
      /\ q' = Pop(q)
  BY DEF Inv, PopOk, peekCheckErr
<1>2. /\ QueueInv(q') /\ GapReserved(q')
      /\ Peek(q).at = q.head
      /\ Live(q') = Live(q) \ {Peek(q)}
      /\ RingFilled(q) => RingFilled(q')
  BY <1>1, PopInv
<1>3. q'.capacity = q.capacity
  BY <1>1 DEF Pop, QueueInv, IsQueue
<1>4. EntryStaysUntilPopped
  BY <1>1, <1>2 DEF EntryStaysUntilPopped
<1> QED
  BY <1>2, <1>3, <1>4 DEF Inv, TypeOK, PopOk, QueueInv, WithinLimit

\* Reset moves the pointers together again.
LEMMA ResetStep ==
  ASSUME Inv, ResetQueue
  PROVE  Inv' /\ EntryStaysUntilPopped
<1>1. QueueInv(q') /\ GapReserved(q') /\ RingFilled(q')
  BY ResetInv DEF Inv, ResetQueue
<1>2. q'.capacity = q.capacity
  BY DEF Inv, ResetQueue, Reset, QueueInv, IsQueue
<1> QED
  BY <1>1, <1>2 DEF Inv, TypeOK, ResetQueue, QueueInv, WithinLimit, Layouts,
                    EntryStaysUntilPopped

\* Every step keeps the invariant, and every live entry but the one it pops.
LEMMA NextInv ==
  ASSUME Inv, [Next]_vars
  PROVE  Inv' /\ [EntryStaysUntilPopped]_vars
<1>1. CASE \E len \in EntryLengths : PushOk(len)
  BY <1>1, PushStep
<1>2. CASE PopOk
  BY <1>2, PopStep
<1>3. CASE ResetQueue
  BY <1>3, ResetStep
<1>4. CASE PopHole
  <2>1. Live(q') = Live(q)
    BY <1>4 DEF PopHole
  <2> QED
    BY <1>4, <2>1 DEF PopHole, Inv, TypeOK, Layouts, WithinLimit,
                      EntryStaysUntilPopped
<1>5. CASE UNCHANGED vars
  BY <1>5 DEF vars, Inv, TypeOK, WithinLimit
<1> QED
  BY <1>1, <1>2, <1>3, <1>4, <1>5 DEF Next, PushRefused, PopError

\* The inductive invariant holds of every sequence of Push, Pop and Reset.
THEOREM InvHolds == Spec => []Inv
<1>1. Init => Inv
  BY InitInv
<1>2. Inv /\ [Next]_vars => Inv'
  BY NextInv
<1> QED
  BY <1>1, <1>2, PTL DEF Spec

-----------------------------------------------------------------------------

\* The fields of the queue keep their types, whatever is pushed and popped.
THEOREM TypeCorrect == Spec => []TypeOK
<1>1. Inv => TypeOK
  BY DEF Inv
<1> QED
  BY <1>1, InvHolds, PTL

\* The comparisons of head, tail and rightMargin by which bytes_queue.go tells
\* an empty queue, a full one and a ring from each other are always right.
THEOREM PointersCorrect == Spec => []PointersInOrder
<1>1. Inv => PointersInOrder
  BY DEF Inv, QueueInv, PointersInOrder
<1> QED
  BY <1>1, InvHolds, PTL

\* No push overwrites a live entry or runs off the end of the array.
THEOREM EntriesDisjoint == Spec => []EntriesApart
<1>1. Inv => EntriesApart
  BY DEF Inv, QueueInv, EntriesApart
<1> QED
  BY <1>1, InvHolds, PTL

\* As long as no reallocation met a gap whose filler is short, Pop and Peek
\* read headers only where there are headers.
THEOREM RingStaysWhole == Spec => []RingIsWhole
<1>1. Inv => RingIsWhole
  BY DEF Inv, RingIsWhole
<1> QED
  BY <1>1, InvHolds, PTL

\* Len is the number of live blocks.
THEOREM CountCorrect == Spec => []CountIsLive
<1>1. Inv => CountIsLive
  BY DEF Inv, QueueInv, CountIsLive
<1> QED
  BY <1>1, InvHolds, PTL

\* The bytes the canInsert methods reserve are enough for every filler to
\* carry the timestamp and the hash that the shard reads from it.
THEOREM HeadersStayReadable == Spec => []HeadersReadable
<1>1. Inv => HeadersReadable
  BY DEF Inv, QueueInv, HeadersReadable
<1> QED
  BY <1>1, InvHolds, PTL

\* The array stays within its limit.
THEOREM LimitRespected == Spec => []WithinLimit
<1>1. Inv => WithinLimit
  BY DEF Inv
<1> QED
  BY <1>1, InvHolds, PTL

\* The index Push returned reads the entry until it is popped, across
\* reallocations too: what the hashmap of a shard relies on.
THEOREM IndexStability == Spec => IndexIsStable
<1>1. Inv /\ [Next]_vars => [EntryStaysUntilPopped]_vars
  BY NextInv
<1> QED
  BY <1>1, InvHolds, PTL DEF Spec, IndexIsStable
=============================================================================
