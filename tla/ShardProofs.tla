---------------------------- MODULE ShardProofs ----------------------------
(***************************************************************************)
(* Shard for any number of goroutines, keys, hashes and lengths: what a    *)
(* read finds, what OnRemove is told, and that a shard is a map that may   *)
(* lose entries.                                                           *)
(***************************************************************************)
EXTENDS Shard, BytesQueueLemmas

-----------------------------------------------------------------------------
(* Shards.                                                                 *)

Queues ==
  [full : BOOLEAN, array : SUBSET Blocks, capacity : Nat, head : Nat, tail : Nat,
   rightMargin : Nat, count : Nat]
Shards == [hashmap : [Hashes -> Nat], entries : Queues, hashmapStats : [Hashes -> Nat]]

\* A shard whose entries fill the ring of its queue.
Sound(s) ==
  /\ s \in Shards
  /\ QueueInv(s.entries) /\ GapReserved(s.entries) /\ RingFilled(s.entries)

\* A live block that is the entry of a hash, and of the value its key was given.
IsEntryOf(b, h, given) ==
  /\ b.data.hash = h /\ b.data.key \in Keys /\ HashOf[b.data.key] = h
  /\ b.data.val = given[b.data.key]

\* The hashmap points to the entries of these hashes, if to anything.
Points(s, given, hashes) ==
  \A h \in hashes : s.hashmap[h] # 0 =>
    \E b \in Live(s.entries) : b.at = s.hashmap[h] /\ IsEntryOf(b, h, given)

\* It points to all live entries, which are of these hashes.
Covers(s, hashes) ==
  \A b \in Live(s.entries) : b.data.hash # 0 =>
    b.data.hash \in hashes /\ s.hashmap[b.data.hash] = b.at

\* No live entry is of a later second.
Until(s, now) == \A b \in Live(s.entries) : b.data.ts <= now

\* One shard is another without a live block.
Removes(s, r, b) ==
  /\ b \in Live(s.entries) /\ Sound(r)
  /\ r.entries.array = s.entries.array
  /\ Live(r.entries) = Live(s.entries) \ {b}
  /\ r.hashmap = [h \in Hashes |-> IF h = b.data.hash THEN 0 ELSE s.hashmap[h]]

LEMMA HashesAreKeys ==
  /\ 0 \notin Hashes /\ Hashes \subseteq Nat /\ \A k \in Keys : HashOf[k] \in Hashes
  /\ NoKey \notin Keys
BY ShardAssumption DEF Hashes

LEMMA LiveEntries ==
  ASSUME Data = Entry, NEW s, Sound(s), NEW b \in Live(s.entries)
  PROVE  /\ b \in s.entries.array /\ b \in Blocks /\ b.data \in Entry /\ b.at \in Nat \ {0}
         /\ b.data.hash \in Hashes \cup {0} /\ b.data.ts \in Nat
         /\ Get(s.entries, b.at) = b /\ ~peekCheckErr(s.entries, b.at)
         /\ \A c \in Live(s.entries) : c.at = b.at => c = b
<1>1. s.entries.array \subseteq Blocks /\ QueueInv(s.entries)
  BY DEF Sound, QueueInv, IsQueue
<1>2. b \in s.entries.array /\ ~peekCheckErr(s.entries, b.at)
  BY <1>1, LiveReadable
<1>3. Get(s.entries, b.at) = b /\ \A c \in s.entries.array : c.at = b.at => c = b
  BY <1>1, <1>2, BlockAt
<1>4. Live(s.entries) \subseteq s.entries.array
  BY DEF Live, FrontBlocks, BackBlocks
<1>5. b \in Blocks /\ b.data \in Entry /\ b.at \in Nat \ {0}
  BY <1>1, <1>2 DEF Blocks
<1>6. b.data.hash \in Hashes \cup {0} /\ b.data.ts \in Nat
  BY <1>5 DEF Entry
<1> QED
  BY <1>2, <1>3, <1>4, <1>5, <1>6

\* The oldest block is live, as long as blocks fill the ring.
LEMMA OldestRemoved ==
  ASSUME Data = Entry, NEW s, Sound(s), HasOldest(s)
  PROVE  /\ Oldest(s) = Peek(s.entries).data /\ Oldest(s) \in Entry
         /\ Removes(s, removeOldestEntry(s), Peek(s.entries))
<1> DEFINE b      == Peek(s.entries)
           popped == [s EXCEPT !.entries = Pop(@)]
           r      == removeOldestEntry(s)
<1>1. QueueInv(s.entries) /\ s.entries.count # 0 /\ HasBlock(s.entries, s.entries.head)
  BY HeadBlock DEF Sound, HasOldest, peekCheckErr
<1>2. /\ QueueInv(Pop(s.entries)) /\ GapReserved(Pop(s.entries)) /\ RingFilled(Pop(s.entries))
      /\ b \in Live(s.entries) /\ Live(Pop(s.entries)) = Live(s.entries) \ {b}
  BY <1>1, PopInv DEF Sound
<1>3. Pop(s.entries).array = s.entries.array
  BY DEF Pop, Sound, Shards, Queues
<1>4. b.data \in Entry /\ b.data.hash \in Hashes \cup {0}
  BY <1>2, LiveEntries
<1>5. Oldest(s) = b.data
  BY DEF Oldest
<1> HIDE DEF b
<1>6. Pop(s.entries) \in Queues
  BY <1>2 DEF QueueInv, IsQueue, Queues
<1>7. popped \in Shards /\ popped.entries = Pop(s.entries) /\ popped.hashmap = s.hashmap
  BY <1>6 DEF Sound, Shards
<1> HIDE DEF popped
<1>8. /\ r \in Shards /\ r.entries = Pop(s.entries)
      /\ r.hashmap = [h \in Hashes |-> IF h = b.data.hash THEN 0 ELSE s.hashmap[h]]
  <2>1. s.hashmap \in [Hashes -> Nat]
    BY DEF Sound, Shards
  <2>2. CASE b.data.hash = 0
    <3>1. r = popped
      BY <1>5, <2>2 DEF removeOldestEntry, popped
    <3> QED
      BY <1>7, <2>1, <2>2, <3>1, HashesAreKeys
  <2>3. CASE b.data.hash # 0
    <3>1. r = Forget(popped, b.data.hash)
      BY <1>5, <2>3 DEF removeOldestEntry, popped
    <3>2. b.data.hash \in Hashes
      BY <1>4, <2>3
    <3> HIDE DEF r
    <3> QED
      BY <1>7, <2>1, <3>1, <3>2 DEF Forget, Shards
  <2> QED
    BY <2>2, <2>3
<1> QED
  BY <1>2, <1>3, <1>4, <1>5, <1>8 DEF Removes, Sound, r, b

\* What is true of a shard is true of it without a block.
LEMMA RemovalKeeps ==
  ASSUME Data = Entry, NEW s, Sound(s), NEW r, NEW b, Removes(s, r, b),
         NEW given, NEW hashes \in SUBSET Hashes, NEW now
  PROVE  /\ Points(s, given, hashes) => Points(r, given, hashes)
         /\ Covers(s, hashes) => Covers(r, hashes)
         /\ Until(s, now) => Until(r, now)
<1>1. /\ b \in Live(s.entries) /\ Live(r.entries) = Live(s.entries) \ {b}
      /\ \A h \in Hashes : r.hashmap[h] = IF h = b.data.hash THEN 0 ELSE s.hashmap[h]
  BY DEF Removes
<1>2. Points(s, given, hashes) => Points(r, given, hashes)
  BY <1>1 DEF Points, IsEntryOf
<1>3. Covers(s, hashes) => Covers(r, hashes)
  <2> SUFFICES ASSUME Covers(s, hashes), NEW c \in Live(r.entries), c.data.hash # 0
               PROVE  c.data.hash \in hashes /\ r.hashmap[c.data.hash] = c.at
    BY DEF Covers
  <2>1. c \in Live(s.entries) /\ c # b
    BY <1>1
  <2>2. c.data.hash \in hashes /\ s.hashmap[c.data.hash] = c.at
    BY <2>1 DEF Covers
  <2>3. c.data.hash # b.data.hash
    <3>1. c.data.hash = b.data.hash => c.at = b.at
      BY <1>1, <2>2 DEF Covers
    <3> QED
      BY <1>1, <2>1, <3>1, LiveEntries
  <2> QED
    BY <1>1, <2>2, <2>3
<1>4. Until(s, now) => Until(r, now)
  BY <1>1 DEF Until
<1> QED
  BY <1>2, <1>3, <1>4

-----------------------------------------------------------------------------
(* Evicting, marking, forgetting and pushing.                              *)

LEMMA Evicted ==
  ASSUME Data = Entry, NEW s, Sound(s), NEW now
  PROVE  \/ ~Evicts(s, now) /\ onEvict(s, now) = s /\ EvictionOf(s, now) = {}
         \/ /\ Evicts(s, now) /\ HasOldest(s) /\ Oldest(s) \in Entry
            /\ Oldest(s) = Peek(s.entries).data
            /\ Removes(s, onEvict(s, now), Peek(s.entries))
            /\ EvictionOf(s, now) = RemovalOf(s, "Expired")
BY OldestRemoved DEF onEvict, EvictionOf, Evicts

LEMMA EvictionKeeps ==
  ASSUME Data = Entry, NEW s, Sound(s), NEW now, NEW r, r = onEvict(s, now),
         NEW given, NEW hashes \in SUBSET Hashes, NEW later
  PROVE  /\ Sound(r) /\ r.entries.array = s.entries.array
         /\ Points(s, given, hashes) => Points(r, given, hashes)
         /\ Covers(s, hashes) => Covers(r, hashes)
         /\ Until(s, later) => Until(r, later)
         /\ EvictionOf(s, now) \subseteq Notices
<1>1. CASE r = s /\ EvictionOf(s, now) = {}
  BY <1>1
<1>2. CASE /\ Oldest(s) \in Entry /\ Removes(s, r, Peek(s.entries))
           /\ EvictionOf(s, now) = RemovalOf(s, "Expired")
  <2>1. RemovalOf(s, "Expired") \subseteq Notices
    BY <1>2 DEF RemovalOf, Notices
  <2>2. Sound(r) /\ r.entries.array = s.entries.array
    BY <1>2 DEF Removes
  <2> QED
    BY <1>2, <2>1, <2>2, RemovalKeeps
<1> QED
  BY <1>1, <1>2, Evicted

LEMMA HitCounted ==
  ASSUME NEW s, Sound(s), NEW h \in Hashes
  PROVE  /\ Sound(CountHit(s, h)) /\ CountHit(s, h).entries = s.entries
         /\ CountHit(s, h).hashmap = s.hashmap
<1>1. /\ CountHit(s, h) \in Shards /\ CountHit(s, h).entries = s.entries
      /\ CountHit(s, h).hashmap = s.hashmap
  BY DEF CountHit, Sound, Shards
<1> QED
  BY <1>1 DEF Sound

\* A block that says it is no entry any more.
Unmarked(b) == [at |-> b.at, len |-> b.len, data |-> [b.data EXCEPT !.hash = 0]]

\* One shard is another in which the entry of a hash, if there is one, is marked.
Marks(s, r, h) ==
  /\ Sound(r) /\ r.hashmap = s.hashmap
  /\ \/ s.hashmap[h] = 0 /\ r = s
     \/ \E b \in Live(s.entries) :
          /\ b.at = s.hashmap[h] /\ b.data.hash = h
          /\ Live(r.entries) = (Live(s.entries) \ {b}) \cup {Unmarked(b)}
          /\ r.entries.array = (s.entries.array \ {b}) \cup {Unmarked(b)}

LEMMA PreviousReset ==
  ASSUME Data = Entry, NEW s, Sound(s), NEW h \in Hashes, NEW given, Points(s, given, {h})
  PROVE  /\ Marks(s, ResetPrevious(s, h), h)
         /\ IsStored(s, h) <=> s.hashmap[h] # 0
         /\ IsStored(s, h) => /\ resetKeyFromEntry(s, h) = ResetPrevious(s, h)
                              /\ getWrappedEntry(s, h) \in Live(s.entries)
                              /\ getWrappedEntry(s, h).at = s.hashmap[h]
                              /\ IsEntryOf(getWrappedEntry(s, h), h, given)
<1> DEFINE r == ResetPrevious(s, h)
<1>1. CASE s.hashmap[h] = 0
  BY <1>1 DEF IsStored, IsMiss, ResetPrevious, Marks
<1>2. CASE s.hashmap[h] # 0
  <2>1. PICK b \in Live(s.entries) : b.at = s.hashmap[h] /\ IsEntryOf(b, h, given)
    BY <1>2 DEF Points
  <2>2. /\ b \in s.entries.array /\ b \in Blocks /\ b.data \in Entry
        /\ Get(s.entries, b.at) = b /\ ~peekCheckErr(s.entries, b.at)
    BY LiveEntries
  <2>3. IsStored(s, h) /\ getWrappedEntry(s, h) = b
    BY <1>2, <2>1, <2>2 DEF IsStored, IsMiss, IsError, getWrappedEntry
  <2> DEFINE data  == [b.data EXCEPT !.hash = 0]
             array == (s.entries.array \ {b}) \cup {[at |-> b.at, len |-> b.len, data |-> data]}
             marked == [s.entries EXCEPT !.array = array]
  <2>4. data \in Data
    BY <2>2 DEF Entry
  <2>5. \A c \in s.entries.array : c \in Blocks /\ (c.at = b.at => c = b)
    <3>1. QueueInv(s.entries) /\ s.entries.array \subseteq Blocks
      BY DEF Sound, QueueInv, IsQueue
    <3> QED
      BY <2>2, <3>1, BlockAt
  <2>6. [b EXCEPT !.data.hash = 0] = [at |-> b.at, len |-> b.len, data |-> data]
    BY <2>2 DEF Blocks
  <2> DEFINE relabelled(c) == IF c.at = s.hashmap[h] THEN [c EXCEPT !.data.hash = 0] ELSE c
             u == [at |-> b.at, len |-> b.len, data |-> data]
  <2>7. {relabelled(c) : c \in s.entries.array} = array
    <3>1. relabelled(b) = u /\ \A c \in s.entries.array \ {b} : relabelled(c) = c
      BY <2>1, <2>5, <2>6
    <3> HIDE DEF u, relabelled
    <3>2. array = (s.entries.array \ {b}) \cup {u}
      BY DEF u
    <3> HIDE DEF array
    <3> QED
      BY <2>2, <3>1, <3>2
  <2>8. r = resetKeyFromEntry(s, h)
    BY <2>3 DEF ResetPrevious
  <2>9. r = [s EXCEPT !.entries.array = array]
    BY <2>7, <2>8 DEF resetKeyFromEntry
  <2>10. s \in Shards /\ s.entries \in Queues
    BY DEF Sound, Shards
  <2>11. r = [s EXCEPT !.entries = marked]
    <3> HIDE DEF array
    <3> QED
      BY <2>9, <2>10 DEF Shards
  <2>12. /\ QueueInv(marked) /\ GapReserved(marked) /\ RingFilled(marked)
         /\ Live(marked) = (Live(s.entries) \ {b}) \cup {Unmarked(b)}
    <3>1. QueueInv(s.entries) /\ GapReserved(s.entries) /\ RingFilled(s.entries)
      BY DEF Sound
    <3>2. Unmarked(b) = u /\ u = [at |-> b.at, len |-> b.len, data |-> data]
      BY DEF Unmarked
    <3>3. array = (s.entries.array \ {b}) \cup {u} /\ marked = [s.entries EXCEPT !.array = array]
      OBVIOUS
    <3> HIDE DEF marked, array, u, data
    <3>4. Replaces(s.entries, marked, b, u)
      BY <2>2, <2>4, <3>1, <3>2, <3>3, RelabelInv
    <3> QED
      BY <3>1, <3>2, <3>4 DEF Replaces
  <2>13. marked.array = array
    BY <2>10 DEF Queues
  <2>14. marked \in Queues
    BY <2>12 DEF QueueInv, IsQueue, Queues
  <2> HIDE DEF marked, r
  <2>15. r \in Shards /\ r.entries = marked /\ r.hashmap = s.hashmap
    BY <2>10, <2>11, <2>14 DEF Shards
  <2>16. Sound(r)
    BY <2>12, <2>15 DEF Sound
  <2>17. Marks(s, r, h)
    BY <2>1, <2>12, <2>13, <2>15, <2>16 DEF Marks, Unmarked, IsEntryOf
  <2> QED
    BY <1>2, <2>1, <2>3, <2>8, <2>17 DEF r
<1> QED
  BY <1>1, <1>2

LEMMA MarkingKeeps ==
  ASSUME Data = Entry, NEW s, Sound(s), NEW h \in Hashes, NEW r, Marks(s, r, h),
         NEW given, NEW hashes \in SUBSET Hashes, NEW now
  PROVE  /\ Points(s, given, hashes) => Points(r, given, hashes \ {h})
         /\ Covers(s, hashes) => Covers(r, hashes \ {h})
         /\ Until(s, now) => Until(r, now)
<1>1. CASE s.hashmap[h] = 0 /\ r = s
  <2>1. Covers(s, hashes) => Covers(s, hashes \ {h})
    <3> SUFFICES ASSUME Covers(s, hashes), NEW c \in Live(s.entries), c.data.hash # 0
                 PROVE  c.data.hash # h
      BY DEF Covers
    <3>1. c.at # 0 /\ s.hashmap[c.data.hash] = c.at
      BY LiveEntries DEF Covers
    <3> QED
      BY <1>1, <3>1
  <2> QED
    BY <1>1, <2>1 DEF Points
<1>2. ASSUME NEW b \in Live(s.entries), b.at = s.hashmap[h], b.data.hash = h,
             Live(r.entries) = (Live(s.entries) \ {b}) \cup {Unmarked(b)},
             r.hashmap = s.hashmap
      PROVE  /\ Points(s, given, hashes) => Points(r, given, hashes \ {h})
             /\ Covers(s, hashes) => Covers(r, hashes \ {h})
             /\ Until(s, now) => Until(r, now)
  <2>1. Points(s, given, hashes) => Points(r, given, hashes \ {h})
    BY <1>2 DEF Points, IsEntryOf
  <2>2. Unmarked(b).data.hash = 0 /\ Unmarked(b).data.ts = b.data.ts
    BY LiveEntries DEF Unmarked, Entry
  <2>3. Covers(s, hashes) => Covers(r, hashes \ {h})
    <3> SUFFICES ASSUME Covers(s, hashes), NEW c \in Live(r.entries), c.data.hash # 0
                 PROVE  /\ c.data.hash \in hashes \ {h} /\ r.hashmap[c.data.hash] = c.at
      BY DEF Covers
    <3>1. c \in Live(s.entries) /\ c # b
      BY <1>2, <2>2
    <3>2. c.data.hash \in hashes /\ s.hashmap[c.data.hash] = c.at
      BY <3>1 DEF Covers
    <3>3. c.at # b.at
      BY <3>1, LiveEntries
    <3> QED
      BY <1>2, <3>2, <3>3
  <2>4. Until(s, now) => Until(r, now)
    BY <1>2, <2>2 DEF Until
  <2> QED
    BY <2>1, <2>3, <2>4
<1> QED
  BY <1>1, <1>2 DEF Marks

\* A hash is taken out whose entry is marked.
LEMMA ForgottenKeeps ==
  ASSUME NEW s, Sound(s), NEW h \in Hashes, NEW r, r = Forget(s, h),
         NEW given, NEW later, \A k \in Keys : HashOf[k] # h => later[k] = given[k],
         NEW hashes \in SUBSET Hashes, NEW now
  PROVE  /\ Sound(r) /\ r.entries = s.entries
         /\ r.hashmap = [i \in Hashes |-> IF i = h THEN 0 ELSE s.hashmap[i]]
         /\ Points(s, given, hashes \ {h}) => Points(r, later, hashes)
         /\ Covers(s, hashes \ {h}) => Covers(r, hashes)
         /\ Until(s, now) => Until(r, now)
<1>1. /\ r \in Shards /\ r.entries = s.entries
      /\ r.hashmap = [i \in Hashes |-> IF i = h THEN 0 ELSE s.hashmap[i]]
  BY DEF Forget, Sound, Shards
<1>2. Sound(r)
  BY <1>1 DEF Sound
<1>3. Points(s, given, hashes \ {h}) => Points(r, later, hashes)
  <2> SUFFICES ASSUME Points(s, given, hashes \ {h}), NEW i \in hashes, r.hashmap[i] # 0
               PROVE  \E c \in Live(r.entries) : c.at = r.hashmap[i] /\ IsEntryOf(c, i, later)
    BY DEF Points
  <2>1. i # h /\ r.hashmap[i] = s.hashmap[i]
    BY <1>1
  <2>2. PICK c \in Live(s.entries) : c.at = s.hashmap[i] /\ IsEntryOf(c, i, given)
    BY <2>1 DEF Points
  <2>3. IsEntryOf(c, i, later)
    BY <2>1, <2>2 DEF IsEntryOf
  <2> QED
    BY <1>1, <2>1, <2>2, <2>3
<1>4. Covers(s, hashes \ {h}) => Covers(r, hashes)
  BY <1>1 DEF Covers
<1>5. Until(s, now) => Until(r, now)
  BY <1>1 DEF Until
<1> QED
  BY <1>1, <1>2, <1>3, <1>4, <1>5

\* A reallocation for need bytes leaves a hole.
Holed(q, need) ==
  /\ PushGrows(q, need) /\ q.tail < q.head
  /\ Need(FillerLen(q.head - q.tail)) # q.head - q.tail

\* One shard is another with the entry of a key added.
Adds(s, r, key, len, data) ==
  /\ Sound(r) /\ Live(s.entries) \subseteq Live(r.entries)
  /\ \E at \in Nat \ {0} :
       LET b == [at |-> at, len |-> len, data |-> data]
       IN  /\ b \in Live(r.entries)
           /\ \A c \in Live(r.entries) \ Live(s.entries) : c = b \/ c.data = Zeroes
           /\ r.hashmap = [i \in Hashes |-> IF i = HashOf[key] THEN at ELSE s.hashmap[i]]

LEMMA Pushed ==
  ASSUME Data = Entry, NEW s, Sound(s), NEW key \in Keys, NEW len \in Nat, NEW data \in Entry,
         len >= minimumHeaderSize - 1,
         ~PushFails(s.entries, Need(len)), ~Holed(s.entries, Need(len))
  PROVE  Adds(s, [s EXCEPT !.entries = Push(@, len, data),
                           !.hashmap[HashOf[key]] = PushIndex(s.entries, len)], key, len, data)
<1> DEFINE at == PushIndex(s.entries, len)
           b  == [at |-> at, len |-> len, data |-> data]
           q  == Push(s.entries, len, data)
           r  == [s EXCEPT !.entries = Push(@, len, data), !.hashmap[HashOf[key]] = at]
<1>1. /\ QueueInv(q) /\ GapReserved(q) /\ RingFilled(q)
      /\ Live(s.entries) \subseteq Live(q) /\ b \in Live(q)
      /\ \A c \in Live(q) \ Live(s.entries) : c = b \/ c.data = Zeroes
  <2>1. QueueInv(s.entries) /\ GapReserved(s.entries) /\ RingFilled(s.entries) /\ data \in Data
    BY DEF Sound
  <2>2. ZeroBlob = Zeroes
    BY ShardAssumption
  <2>3. ~(/\ PushGrows(s.entries, Need(len)) /\ s.entries.tail < s.entries.head
          /\ Need(FillerLen(s.entries.head - s.entries.tail)) # s.entries.head - s.entries.tail)
    BY DEF Holed
  <2> QED
    BY <2>1, <2>2, <2>3, PushInv
<1>2. q \in Queues /\ b \in Blocks
  <2>1. q \in Queues /\ q.array \subseteq Blocks /\ IsQueue(q)
    BY <1>1 DEF QueueInv, IsQueue, Queues
  <2> QED
    BY <1>1, <2>1 DEF Live, FrontBlocks, BackBlocks
<1>3. at \in Nat \ {0}
  BY <1>2 DEF Blocks
<1> HIDE DEF at
<1>4. /\ r \in Shards /\ r.entries = q
      /\ r.hashmap = [i \in Hashes |-> IF i = HashOf[key] THEN at ELSE s.hashmap[i]]
  <2> HIDE DEF q
  <2>1. r = [s EXCEPT !.entries = q, !.hashmap[HashOf[key]] = at]
    BY DEF q
  <2> HIDE DEF r
  <2> QED
    BY <1>2, <1>3, <2>1, HashesAreKeys DEF Sound, Shards
<1> HIDE DEF q, r
<1>5. Sound(r)
  BY <1>1, <1>4 DEF Sound
<1>6. Adds(s, r, key, len, data)
  BY <1>1, <1>3, <1>4, <1>5 DEF Adds
<1> QED
  BY <1>6 DEF r, at

\* A key, and no other, is given a value.
Given(given, later, key, val) ==
  later[key] = val /\ \A k \in Keys \ {key} : later[k] = given[k]

LEMMA AdditionKeeps ==
  ASSUME Data = Entry, NEW s, Sound(s), NEW key \in Keys, NEW len, NEW data \in Entry,
         NEW r, Adds(s, r, key, len, data), data.hash = HashOf[key], data.key = key,
         NEW given, NEW later, Given(given, later, key, data.val),
         NEW hashes \in SUBSET Hashes, HashOf[key] \in hashes, NEW now \in Nat
  PROVE  /\ Points(s, given, hashes \ {HashOf[key]}) => Points(r, later, hashes)
         /\ Covers(s, hashes \ {HashOf[key]}) => Covers(r, hashes)
         /\ Until(s, now) /\ data.ts <= now => Until(r, now)
<1> DEFINE h == HashOf[key]
<1>1. PICK at \in Nat \ {0} :
        LET b == [at |-> at, len |-> len, data |-> data]
        IN  /\ b \in Live(r.entries)
            /\ \A c \in Live(r.entries) \ Live(s.entries) : c = b \/ c.data = Zeroes
            /\ r.hashmap = [i \in Hashes |-> IF i = h THEN at ELSE s.hashmap[i]]
  BY DEF Adds
<1> DEFINE b == [at |-> at, len |-> len, data |-> data]
<1>2. Live(s.entries) \subseteq Live(r.entries)
  BY DEF Adds
<1>3. b.at = at /\ b.data = data /\ b \in Live(r.entries)
  BY <1>1
<1>4. h \in Hashes /\ h # 0
  BY HashesAreKeys
<1>5. Points(s, given, hashes \ {h}) => Points(r, later, hashes)
  <2> SUFFICES ASSUME Points(s, given, hashes \ {h}), NEW i \in hashes, r.hashmap[i] # 0
               PROVE  \E c \in Live(r.entries) : c.at = r.hashmap[i] /\ IsEntryOf(c, i, later)
    BY DEF Points
  <2>1. CASE i = h
    <3>1. IsEntryOf(b, h, later) /\ r.hashmap[h] = at
      BY <1>1, <1>3, <1>4 DEF IsEntryOf, Given
    <3> QED
      BY <1>3, <2>1, <3>1
  <2>2. CASE i # h
    <3>1. r.hashmap[i] = s.hashmap[i]
      BY <1>1, <2>2
    <3>2. PICK c \in Live(s.entries) : c.at = s.hashmap[i] /\ IsEntryOf(c, i, given)
      BY <2>2, <3>1 DEF Points
    <3>3. IsEntryOf(c, i, later)
      BY <2>2, <3>2 DEF IsEntryOf, Given
    <3> QED
      BY <1>2, <3>1, <3>2, <3>3
  <2> QED
    BY <2>1, <2>2
<1>6. Covers(s, hashes \ {h}) => Covers(r, hashes)
  <2> SUFFICES ASSUME Covers(s, hashes \ {h}), NEW c \in Live(r.entries), c.data.hash # 0
               PROVE  c.data.hash \in hashes /\ r.hashmap[c.data.hash] = c.at
    BY DEF Covers
  <2>1. CASE c = b
    BY <1>1, <1>3, <1>4, <2>1
  <2>2. CASE c \in Live(s.entries)
    <3>1. c.data.hash \in hashes \ {h} /\ s.hashmap[c.data.hash] = c.at
      BY <2>2 DEF Covers
    <3> QED
      BY <1>1, <3>1
  <2>3. CASE c.data = Zeroes
    BY <2>3 DEF Zeroes
  <2> QED
    BY <1>1, <2>1, <2>2, <2>3
<1>7. Until(s, now) /\ data.ts <= now => Until(r, now)
  <2>1. Zeroes.ts = 0 /\ 0 <= now
    BY DEF Zeroes
  <2> QED
    BY <1>1, <1>3, <2>1 DEF Until
<1> QED
  BY <1>5, <1>6, <1>7

\* A shard with nothing in it.
LEMMA EmptyIsSound ==
  ASSUME NEW s \in Shards, QueueInv(s.entries), GapReserved(s.entries), RingFilled(s.entries),
         Live(s.entries) = {}, \A h \in Hashes : s.hashmap[h] = 0
  PROVE  /\ Sound(s) /\ \A given : Points(s, given, Hashes)
         /\ \A hashes : Covers(s, hashes) /\ \A now : Until(s, now)
BY DEF Sound, Points, Covers, Until

-----------------------------------------------------------------------------
(* The inductive invariant.                                                *)

Labels == {"idle", "set", "push", "hit", "del", "clean", "cleaning"}

\* The labels at which a goroutine holds the lock.
Inside == {"push", "cleaning"}

\* No key that is appended to shares its hash.
AppendsAlone == \A k \in AppendKeys, j \in Keys : HashOf[k] = HashOf[j] => k = j

\* A shard whose hashmap matches its entries at these hashes.
Matches(s, given, hashes, now) ==
  /\ Sound(s) /\ Points(s, given, hashes) /\ Until(s, now)
  /\ AppendsAlone => Covers(s, hashes)

\* The arguments and local variables of a call, where it is.
IsCall(p, label, l, now) ==
  /\ label \in {"set", "push", "hit", "del"} => p \in Workers /\ l.key \in Keys
  /\ label = "set" => l.now \in 0 .. now /\ l.val \in Values
  /\ label \in {"clean", "cleaning"} => p = Janitor /\ l.now \in 0 .. now
  /\ label \in {"set", "clean"} /\ MaxLag = 0 => l.now = now
  /\ label = "push" =>
       /\ l.w.len \in Nat /\ l.w.len >= minimumHeaderSize - 1
       /\ l.w.data \in Entry /\ l.w.data.ts <= now
       /\ l.w.data.hash = HashOf[l.key] /\ l.w.data.key = l.key

CallsSound ==
  /\ pc \in [Procs -> Labels] /\ DOMAIN local = Procs
  /\ \A p \in Procs : IsCall(p, pc[p], local[p], clock)
  /\ lock \in Procs \cup {NoOne}
  /\ \A p \in Procs : lock = p <=> pc[p] \in Inside

\* The entries the janitor sees were there at its tick, when no time passes
\* before it has the lock.
Dated == MaxLag = 0 /\ pc[Janitor] = "cleaning" => Until(shard, local[Janitor].now)

Typed ==
  /\ stats \in [DOMAIN NoStats -> Nat]
  /\ clock \in 0 .. MaxClock /\ ops \in 0 .. MaxOps
  /\ notified \subseteq Notices
  /\ latest \in [Keys -> Seq(Values)]

Inv ==
  /\ Typed /\ CallsSound /\ Dated
  /\ Matches(shard, latest, Hashes \ InHand, clock)

\* The reallocation of a push leaves no hole, and a push is not refused.
Undisturbed ==
  \A p \in Workers : pc[p] = "push" =>
    LET need == Need(local[p].w.len)
    IN  IF PushFails(shard.entries, need) THEN HasOldest(shard)
                                          ELSE ~Holed(shard.entries, need)

LEMMA InitInv ==
  ASSUME Data = Entry, Init
  PROVE  Inv
<1>1. /\ QueueInv(NewBytesQueue) /\ GapReserved(NewBytesQueue) /\ RingFilled(NewBytesQueue)
      /\ Live(NewBytesQueue) = {}
  BY NewQueueInv
<1>2. shard \in Shards /\ shard.entries = NewBytesQueue /\ \A h \in Hashes : shard.hashmap[h] = 0
  <2>1. NewBytesQueue \in Queues
    BY <1>1 DEF QueueInv, IsQueue, Queues
  <2> QED
    BY <2>1 DEF Init, Shards
<1>3. Sound(shard) /\ Points(shard, latest, Hashes) /\ Covers(shard, Hashes) /\ Until(shard, clock)
  BY <1>1, <1>2, EmptyIsSound
<1>4. /\ NoOne \notin Procs /\ Workers \subseteq Procs /\ Janitor \in Procs
      /\ MaxClock \in Nat /\ MaxOps \in Nat
  BY ShardAssumption DEF Procs
<1>5. InHand = {}
  BY <1>4 DEF Init, InHand
<1>6. Matches(shard, latest, Hashes \ InHand, clock)
  BY <1>3, <1>5 DEF Matches
<1>7. CallsSound
  BY <1>4 DEF Init, CallsSound, IsCall, Labels, Inside, Idle
<1>8. Typed
  BY <1>4 DEF Init, Typed, NoStats
<1>9. Dated
  BY <1>4 DEF Init, Dated
<1> QED
  BY <1>6, <1>7, <1>8, <1>9 DEF Inv

\* A goroutine goes on to a label, with the lock or without it.
LEMMA GotoKeeps ==
  ASSUME CallsSound, NEW p \in Procs, NEW label \in Labels, NEW l, Goto(p, label, l),
         IsCall(p, label, l, clock), UNCHANGED clock,
         label \in Inside \/ pc[p] \in Inside => lock \in {NoOne, p},
         lock' = IF label \in Inside THEN p ELSE IF pc[p] \in Inside THEN NoOne ELSE lock
  PROVE  /\ CallsSound'
         /\ label \notin Inside /\ pc[p] \notin Inside => InHand' = InHand
         /\ label = "push" => InHand' = {HashOf[l.key]}
         /\ pc[p] \in Inside /\ label \notin Inside => InHand' = {}
         /\ label = "cleaning" => InHand' = {}
<1>1. /\ pc' = [pc EXCEPT ![p] = label] /\ local' = [local EXCEPT ![p] = l]
      /\ pc \in [Procs -> Labels] /\ DOMAIN local = Procs
      /\ \A q \in Procs : lock = q <=> pc[q] \in Inside
      /\ lock \in Procs \cup {NoOne}
  BY DEF Goto, CallsSound
<1>2. NoOne \notin Procs /\ Janitor \notin Workers /\ Workers \subseteq Procs
  BY ShardAssumption DEF Procs
<1>3. /\ pc' \in [Procs -> Labels] /\ DOMAIN local' = Procs
      /\ pc'[p] = label /\ local'[p] = l
      /\ \A q \in Procs \ {p} : pc'[q] = pc[q] /\ local'[q] = local[q]
  BY <1>1
<1>4. \A q \in Procs : IsCall(q, pc'[q], local'[q], clock')
  <2> SUFFICES ASSUME NEW q \in Procs PROVE IsCall(q, pc'[q], local'[q], clock)
    OBVIOUS
  <2>1. CASE q = p
    BY <1>3, <2>1
  <2>2. CASE q # p
    BY <1>3, <2>2 DEF CallsSound
  <2> QED
    BY <2>1, <2>2
<1>5. lock' \in Procs \cup {NoOne}
  BY <1>1
<1>6. ASSUME NEW q \in Procs PROVE lock' = q <=> pc'[q] \in Inside
  <2>1. CASE q = p
    BY <1>1, <1>2, <1>3, <2>1
  <2>2. CASE q # p
    BY <1>1, <1>2, <1>3, <2>2
  <2> QED
    BY <2>1, <2>2
<1>7. CallsSound'
  BY <1>3, <1>4, <1>5, <1>6 DEF CallsSound
<1>8. label \notin Inside /\ pc[p] \notin Inside => InHand' = InHand
  BY <1>1, <1>2, <1>3 DEF InHand
<1>9. label = "push" => InHand' = {HashOf[l.key]}
  <2> SUFFICES ASSUME label = "push" PROVE InHand' = {HashOf[l.key]}
    OBVIOUS
  <2>1. p \in Workers /\ lock' = p
    BY DEF IsCall, Inside
  <2> QED
    BY <1>3, <2>1 DEF InHand
<1>10. pc[p] \in Inside /\ label \notin Inside => InHand' = {}
  BY <1>2 DEF InHand
<1>11. label = "cleaning" => InHand' = {}
  BY <1>2 DEF InHand, IsCall, Inside
<1> QED
  BY <1>7, <1>8, <1>9, <1>10, <1>11

\* What a goroutine has at its label.
LEMMA AtLabel ==
  ASSUME Inv, NEW p \in Workers
  PROVE  /\ p \in Procs /\ p # Janitor /\ NoOne \notin Workers
         /\ pc[p] = "set" => /\ local[p].key \in Keys /\ local[p].val \in Values
                             /\ local[p].now \in 0 .. clock
                             /\ MaxLag = 0 => local[p].now = clock
         /\ pc[p] = "push" => /\ local[p].key \in Keys /\ lock = p
                              /\ InHand = {HashOf[local[p].key]}
         /\ pc[p] = "push" => /\ local[p].w.len \in Nat
                              /\ local[p].w.len >= minimumHeaderSize - 1
                              /\ local[p].w.data \in Entry /\ local[p].w.data.ts <= clock
                              /\ local[p].w.data.hash = HashOf[local[p].key]
                              /\ local[p].w.data.key = local[p].key
         /\ pc[p] \in {"hit", "del"} => local[p].key \in Keys
         /\ clock \in Nat /\ clock <= MaxClock
         /\ lock = NoOne => InHand = {}
<1>1. p \in Procs /\ p # Janitor /\ NoOne \notin Workers
  BY ShardAssumption DEF Procs
<1>2. IsCall(p, pc[p], local[p], clock) /\ (lock = p <=> pc[p] \in Inside)
  BY <1>1 DEF Inv, CallsSound
<1>3. clock \in Nat /\ clock <= MaxClock
  BY ShardAssumption DEF Inv, Typed
<1> QED
  BY <1>1, <1>2, <1>3 DEF IsCall, InHand, Inside

\* A step of a call that is not under the lock, and leaves what it guards.
LEMMA OutsideKeeps ==
  ASSUME Data = Entry, Inv, Typed', NEW p \in Procs, NEW label \in Labels \ Inside, NEW l,
         pc[p] \notin Inside, Goto(p, label, l), IsCall(p, label, l, clock),
         UNCHANGED <<lock, clock, latest>>, Sound(shard'),
         shard'.entries = shard.entries, shard'.hashmap = shard.hashmap
  PROVE  Inv'
<1>1. CallsSound' /\ InHand' = InHand
  BY GotoKeeps DEF Inv
<1>2. Matches(shard', latest', Hashes \ InHand', clock')
  BY <1>1 DEF Inv, Matches, Points, Covers, Until
<1>3. Dated'
  BY DEF Inv, Dated, CallsSound, Goto, Inside, Until
<1> QED
  BY <1>1, <1>2, <1>3 DEF Inv

\* The same of a step that stays where it is.
LEMMA CountingKeeps ==
  ASSUME Inv, Typed', UNCHANGED <<shard, lock, clock, pc, local, latest>>
  PROVE  Inv'
BY DEF Inv, CallsSound, Dated, InHand

LEMMA Counts ==
  ASSUME Typed, NEW counter \in DOMAIN NoStats, Count(counter)
  PROVE  stats' \in [DOMAIN NoStats -> Nat]
BY DEF Typed, Count

LEMMA MakesCall ==
  ASSUME Typed, NEW p, NEW method, Calls(p, method)
  PROVE  ops' \in 0 .. MaxOps /\ pc[p] = "idle"
BY ShardAssumption DEF Typed, Calls

-----------------------------------------------------------------------------
(* The steps of a worker.                                                  *)

LEMMA SetStartKeeps ==
  ASSUME Data = Entry, Inv, NEW p \in Workers, NEW k \in Keys, NEW v \in Values, SetStart(p, k, v)
  PROVE  Inv'
<1>1. p \in Procs /\ clock \in Nat
  BY AtLabel
<1>2. Typed'
  BY MakesCall DEF Inv, SetStart, Typed
<1>3. IsCall(p, "set", [key |-> k, now |-> clock, val |-> v], clock)
  BY <1>1 DEF IsCall
<1>4. pc[p] \notin Inside
  BY DEF SetStart, Calls, Inside
<1>5. Sound(shard)
  BY DEF Inv, Matches
<1> QED
  BY <1>1, <1>2, <1>3, <1>4, <1>5, OutsideKeeps DEF SetStart, Labels, Inside

\* The entry that is replaced is marked, and the oldest one may go.
LEMMA ReplacingKeeps ==
  ASSUME Data = Entry, NEW s, NEW given, NEW now, NEW at, NEW h \in Hashes,
         Matches(s, given, Hashes, now),
         NEW r, r = onEvict(ResetPrevious(s, h), at)
  PROVE  /\ Matches(r, given, Hashes \ {h}, now)
         /\ EvictionOf(ResetPrevious(s, h), at) \subseteq Notices
<1> DEFINE m == ResetPrevious(s, h)
<1>1. Sound(s) /\ Points(s, given, {h})
  BY DEF Matches, Points
<1>2. Marks(s, m, h)
  BY <1>1, PreviousReset
<1> HIDE DEF m
<1>3. /\ Sound(m) /\ Points(m, given, Hashes \ {h}) /\ Until(m, now)
      /\ AppendsAlone => Covers(m, Hashes \ {h})
  BY <1>1, <1>2, MarkingKeeps DEF Matches, Marks
<1>4. r = onEvict(m, at)
  BY DEF m
<1>5. /\ Matches(r, given, Hashes \ {h}, now) /\ EvictionOf(m, at) \subseteq Notices
  BY <1>3, <1>4, EvictionKeeps DEF Matches
<1> QED
  BY <1>5 DEF m

LEMMA NewEntry ==
  ASSUME Data = Entry, NEW now \in Nat, NEW key \in Keys, NEW val \in Values
  PROVE  LET w == wrapEntry(now, key, val)
         IN  /\ w.len \in Nat /\ w.len >= minimumHeaderSize - 1
             /\ w.data \in Entry /\ w.data.ts = now
             /\ w.data.hash = HashOf[key] /\ w.data.key = key
<1>1. KeyLen \in Nat /\ ValueLen[val] \in Nat
  BY ShardAssumption
<1>2. <<val>> \in Seq(Values) /\ HashOf[key] \in Hashes
  BY HashesAreKeys
<1> QED
  BY <1>1, <1>2 DEF wrapEntry, Entry, headersSizeInBytes, minimumHeaderSize

LEMMA SetLockKeeps ==
  ASSUME Data = Entry, Inv, NEW p \in Workers, SetLock(p)
  PROVE  Inv'
<1> DEFINE c == local[p]
           h == HashOf[c.key]
           w == wrapEntry(c.now, c.key, c.val)
           l == [key |-> c.key, now |-> c.now, w |-> w]
<1>1. /\ p \in Procs /\ p # Janitor /\ c.key \in Keys /\ c.val \in Values /\ c.now \in Nat
      /\ c.now <= clock /\ clock \in Nat /\ InHand = {} /\ h \in Hashes
  BY AtLabel, HashesAreKeys DEF SetLock
<1>2. /\ Matches(shard', latest, Hashes \ {h}, clock)
      /\ notified' \subseteq Notices
  <2>1. Matches(shard, latest, Hashes, clock)
    BY <1>1 DEF Inv
  <2> QED
    BY <1>1, <2>1, ReplacingKeeps DEF SetLock
<1>3. IsCall(p, "push", l, clock)
  <2>1. /\ w.len \in Nat /\ w.len >= minimumHeaderSize - 1
        /\ w.data \in Entry /\ w.data.ts = c.now /\ w.data.hash = h /\ w.data.key = c.key
    BY <1>1, NewEntry
  <2> HIDE DEF w
  <2>2. l.key = c.key /\ l.w = w
    OBVIOUS
  <2> QED
    BY <1>1, <2>1, <2>2 DEF IsCall
<1> HIDE DEF w
<1>4. Goto(p, "push", l)
  BY DEF SetLock, w
<1>5. CallsSound' /\ InHand' = {h}
  <2>1. CallsSound /\ lock = NoOne /\ lock' = p /\ UNCHANGED clock
    BY DEF Inv, SetLock
  <2>2. l.key = c.key
    OBVIOUS
  <2> HIDE DEF l
  <2> QED
    BY <1>1, <1>3, <1>4, <2>1, <2>2, GotoKeeps DEF Labels, Inside
<1>6. Typed' /\ UNCHANGED <<clock, latest>>
  BY <1>2 DEF Inv, Typed, SetLock
<1>7. Dated'
  <2>1. Janitor \in Procs /\ lock' # Janitor
    BY <1>1 DEF SetLock, Procs
  <2> QED
    BY <1>5, <2>1 DEF CallsSound, Dated, Inside
<1> QED
  BY <1>2, <1>5, <1>6, <1>7 DEF Inv

\* A step of append that takes the lock.
LEMMA AppendKeeps ==
  ASSUME Data = Entry, Inv, NEW p \in Workers, NEW k \in Keys, NEW w,
         pc[p] = "idle", lock = NoOne, lock' = p,
         w.len \in Nat, w.len >= minimumHeaderSize - 1,
         w.data \in Entry, w.data.ts = clock, w.data.hash = HashOf[k], w.data.key = k,
         Goto(p, "push", [key |-> k, now |-> clock, w |-> w]),
         Matches(shard', latest, Hashes \ {HashOf[k]}, clock),
         UNCHANGED <<clock, latest>>, Typed'
  PROVE  Inv'
<1> DEFINE l == [key |-> k, now |-> clock, w |-> w]
<1>1. p \in Procs /\ p # Janitor /\ clock \in Nat
  BY AtLabel
<1>2. l.key = k /\ l.w = w
  OBVIOUS
<1> HIDE DEF l
<1>3. IsCall(p, "push", l, clock)
  BY <1>1, <1>2 DEF IsCall
<1>4. Goto(p, "push", l)
  BY DEF l
<1>5. CallsSound' /\ InHand' = {HashOf[k]}
  BY <1>1, <1>2, <1>3, <1>4, GotoKeeps DEF Inv, Labels, Inside
<1>6. Dated'
  <2>1. Janitor \in Procs /\ lock' # Janitor
    BY <1>1 DEF Procs
  <2> QED
    BY <1>5, <2>1 DEF CallsSound, Dated, Inside
<1> QED
  BY <1>5, <1>6 DEF Inv

\* A hit finds the entry of the key.
LEMMA HitEntry ==
  ASSUME Data = Entry, NEW s, NEW given, NEW hashes \in SUBSET Hashes, NEW now,
         Matches(s, given, hashes, now), NEW k \in Keys, HashOf[k] \in hashes,
         IsStored(s, HashOf[k])
  PROVE  LET b == getWrappedEntry(s, HashOf[k])
         IN  /\ b \in Live(s.entries) /\ b \in Blocks /\ b.data \in Entry
             /\ b.len >= minimumHeaderSize - 1
             /\ b.data.hash = HashOf[k] /\ b.data.key \in Keys /\ HashOf[b.data.key] = HashOf[k]
             /\ b.data.val = given[b.data.key]
             /\ b.at = s.hashmap[HashOf[k]]
<1> DEFINE b == getWrappedEntry(s, HashOf[k])
<1>1. Sound(s) /\ Points(s, given, {HashOf[k]}) /\ HashOf[k] \in Hashes
  BY DEF Matches, Points
<1>2. b \in Live(s.entries) /\ b.at = s.hashmap[HashOf[k]] /\ IsEntryOf(b, HashOf[k], given)
  BY <1>1, PreviousReset
<1> HIDE DEF b
<1>3. b \in s.entries.array /\ b \in Blocks /\ b.data \in Entry
  BY <1>1, <1>2, LiveEntries
<1>4. b.len >= minimumHeaderSize - 1
  BY <1>1, <1>3 DEF Sound, QueueInv, HeadersFit
<1> QED
  BY <1>2, <1>3, <1>4 DEF IsEntryOf, b

LEMMA AppendHitKeeps ==
  ASSUME Data = Entry, Inv, NEW p \in Workers, NEW k \in AppendKeys, NEW v \in AppendValues,
         AppendHit(p, k, v)
  PROVE  Inv'
<1> DEFINE h == HashOf[k]
           b == getWrappedEntry(shard, h)
           w == appendToWrappedEntry(clock, b, v)
           s == CountHit(shard, h)
<1>1. k \in Keys /\ v \in Values /\ h \in Hashes /\ ValueLen[v] \in Nat
  BY ShardAssumption, HashesAreKeys
<1>2. clock \in Nat /\ lock = NoOne /\ InHand = {} /\ Hashes \ InHand = Hashes
  BY AtLabel DEF AppendHit
<1>3. Matches(shard, latest, Hashes, clock) /\ Sound(shard)
  BY <1>2 DEF Inv, Matches
<1>4. IsStored(shard, h) /\ b.data.key = k
  BY DEF AppendHit, IsHit
<1>5. /\ b \in Blocks /\ b.data \in Entry /\ b.len >= minimumHeaderSize - 1
      /\ b.data.hash = h
  BY <1>1, <1>3, <1>4, HitEntry
<1>6. /\ Matches(shard', latest, Hashes \ {h}, clock)
      /\ notified' \subseteq Notices
  <2>1. Sound(s) /\ s.entries = shard.entries /\ s.hashmap = shard.hashmap
    BY <1>1, <1>3, HitCounted
  <2>2. /\ shard' = onEvict(ResetPrevious(s, h), clock)
        /\ notified' = EvictionOf(ResetPrevious(s, h), clock)
    BY DEF AppendHit
  <2> HIDE DEF s
  <2>3. Matches(s, latest, Hashes, clock)
    BY <1>3, <2>1 DEF Matches, Points, Covers, Until
  <2> QED
    BY <1>1, <2>2, <2>3, ReplacingKeeps
<1>7. /\ w.len \in Nat /\ w.len >= minimumHeaderSize - 1
      /\ w.data \in Entry /\ w.data.ts = clock /\ w.data.hash = h /\ w.data.key = k
  <2> HIDE DEF b
  <2>1. w = [len |-> b.len + ValueLen[v],
             data |-> [b.data EXCEPT !.ts = clock, !.val = Append(b.data.val, v)]]
    BY DEF appendToWrappedEntry
  <2>2. Append(b.data.val, v) \in Seq(Values)
    BY <1>1, <1>5 DEF Entry
  <2>3. w.len \in Nat /\ w.len >= minimumHeaderSize - 1
    BY <1>1, <1>5, <2>1 DEF Blocks, minimumHeaderSize
  <2>4. w.data = [b.data EXCEPT !.ts = clock, !.val = Append(b.data.val, v)]
    BY <2>1
  <2> HIDE DEF w
  <2>5. ASSUME NEW e \in Entry, NEW val \in Seq(Values)
        PROVE  LET next == [e EXCEPT !.ts = clock, !.val = val]
               IN  /\ next \in Entry /\ next.ts = clock
                   /\ next.hash = e.hash /\ next.key = e.key
    BY <1>2 DEF Entry
  <2> QED
    BY <1>4, <1>5, <2>2, <2>3, <2>4, <2>5
<1> HIDE DEF w, b
<1>8. /\ Goto(p, "push", [key |-> k, now |-> clock, w |-> w]) /\ UNCHANGED <<clock, latest>>
      /\ lock' = p /\ pc[p] = "idle" /\ Count("hits") /\ ops' \in 0 .. MaxOps
  BY MakesCall DEF AppendHit, w, b, Calls, Inv
<1>9. Typed'
  <2>1. stats' \in [DOMAIN NoStats -> Nat]
    BY <1>8, Counts DEF Inv, NoStats
  <2> QED
    BY <1>6, <1>8, <2>1 DEF Inv, Typed
<1> QED
  BY <1>1, <1>2, <1>6, <1>7, <1>8, <1>9, AppendKeeps

LEMMA AppendNewKeeps ==
  ASSUME Data = Entry, Inv, NEW p \in Workers, NEW k \in AppendKeys, NEW v \in AppendValues,
         AppendNew(p, k, v)
  PROVE  Inv'
<1> DEFINE h == HashOf[k]
           b == getWrappedEntry(shard, h)
           w == wrapEntry(clock, k, v)
<1>1. k \in Keys /\ v \in Values /\ h \in Hashes /\ h # 0
  BY ShardAssumption, HashesAreKeys
<1>2. clock \in Nat /\ lock = NoOne /\ InHand = {} /\ Hashes \ InHand = Hashes
  BY AtLabel DEF AppendNew
<1>3. Matches(shard, latest, Hashes, clock) /\ Sound(shard)
  BY <1>2 DEF Inv, Matches
<1>4. AppendsAlone => shard.hashmap[h] = 0
  <2> SUFFICES ASSUME AppendsAlone, IsCollision(shard, k) PROVE FALSE
    BY DEF AppendNew, IsMiss
  <2>1. IsStored(shard, h) /\ b.data.key # k
    BY DEF IsCollision
  <2>2. b.data.key \in Keys /\ HashOf[b.data.key] = h
    BY <1>1, <1>3, <2>1, HitEntry
  <2> QED
    BY <2>1, <2>2 DEF AppendsAlone
<1>5. AppendsAlone => Covers(shard, Hashes \ {h})
  <2> SUFFICES ASSUME AppendsAlone, NEW c \in Live(shard.entries), c.data.hash # 0
               PROVE  /\ c.data.hash \in Hashes \ {h}
                      /\ shard.hashmap[c.data.hash] = c.at
    BY DEF Covers
  <2>1. c.data.hash \in Hashes /\ shard.hashmap[c.data.hash] = c.at
    BY <1>3 DEF Matches, Covers
  <2>2. c.at # 0
    BY <1>3, LiveEntries
  <2> QED
    BY <1>4, <2>1, <2>2
<1>6. Matches(shard, latest, Hashes \ {h}, clock)
  BY <1>3, <1>5 DEF Matches, Points
<1>7. /\ Matches(shard', latest, Hashes \ {h}, clock)
      /\ notified' \subseteq Notices
  BY <1>3, <1>6, EvictionKeeps DEF Matches, AppendNew
<1>8. /\ w.len \in Nat /\ w.len >= minimumHeaderSize - 1
      /\ w.data \in Entry /\ w.data.ts = clock /\ w.data.hash = h /\ w.data.key = k
  BY <1>1, <1>2, NewEntry
<1> HIDE DEF w
<1>9. /\ Goto(p, "push", [key |-> k, now |-> clock, w |-> w]) /\ UNCHANGED <<clock, latest>>
      /\ lock' = p /\ pc[p] = "idle" /\ ops' \in 0 .. MaxOps
      /\ Count("misses") \/ Count("collisions")
  BY MakesCall DEF AppendNew, w, Calls, Inv
<1>10. Typed'
  <2>1. stats' \in [DOMAIN NoStats -> Nat]
    BY <1>9, Counts DEF Inv, NoStats
  <2> QED
    BY <1>7, <1>9, <2>1 DEF Inv, Typed
<1> QED
  BY <1>1, <1>2, <1>7, <1>8, <1>9, <1>10, AppendKeeps

LEMMA AppendErrorKeeps ==
  ASSUME Inv, NEW p \in Workers, NEW k \in AppendKeys, AppendError(p, k)
  PROVE  Inv'
<1>1. stats' \in [DOMAIN NoStats -> Nat] /\ ops' \in 0 .. MaxOps
  BY MakesCall, Counts DEF AppendError, Inv, NoStats
<1>2. Typed'
  BY <1>1 DEF AppendError, Inv, Typed
<1> QED
  BY <1>2, CountingKeeps DEF AppendError

LEMMA PushEntryKeeps ==
  ASSUME Data = Entry, Inv, Undisturbed, NEW p \in Workers, PushEntry(p)
  PROVE  Inv'
<1> DEFINE c == local[p]
           h == HashOf[c.key]
<1>1. /\ p \in Procs /\ p # Janitor /\ pc[p] = "push" /\ lock = p /\ clock \in Nat
      /\ c.key \in Keys /\ InHand = {h} /\ h \in Hashes
      /\ c.w.len \in Nat /\ c.w.len >= minimumHeaderSize - 1
      /\ c.w.data \in Entry /\ c.w.data.ts <= clock
      /\ c.w.data.hash = h /\ c.w.data.key = c.key
  BY AtLabel, HashesAreKeys DEF PushEntry
<1>2. Matches(shard, latest, Hashes \ {h}, clock)
  BY <1>1 DEF Inv
<1>3. ~PushFails(shard.entries, Need(c.w.len)) /\ ~Holed(shard.entries, Need(c.w.len))
  BY <1>1 DEF PushEntry, Undisturbed
<1>4. Adds(shard, shard', c.key, c.w.len, c.w.data)
  BY <1>1, <1>2, <1>3, Pushed DEF PushEntry, Matches
<1>5. latest' \in [Keys -> Seq(Values)] /\ Given(latest, latest', c.key, c.w.data.val)
  <2>1. latest \in [Keys -> Seq(Values)] /\ latest' = [latest EXCEPT ![c.key] = c.w.data.val]
    BY DEF Inv, Typed, PushEntry
  <2>2. c.w.data.val \in Seq(Values)
    BY <1>1 DEF Entry
  <2> HIDE DEF c
  <2> QED
    BY <1>1, <2>1, <2>2 DEF Given
<1>6. Matches(shard', latest', Hashes, clock)
  <2> HIDE DEF c
  <2>1. Sound(shard')
    BY <1>4 DEF Adds
  <2>2. /\ Sound(shard) /\ Points(shard, latest, Hashes \ {h}) /\ Until(shard, clock)
        /\ AppendsAlone => Covers(shard, Hashes \ {h})
    BY <1>2 DEF Matches
  <2>3. /\ Points(shard', latest', Hashes) /\ Until(shard', clock)
        /\ AppendsAlone => Covers(shard', Hashes)
    <3> DEFINE key == c.key
               len == c.w.len
               data == c.w.data
               r == shard'
               later == latest'
    <3>1. /\ Sound(shard) /\ key \in Keys /\ data \in Entry /\ Adds(shard, r, key, len, data)
          /\ data.hash = HashOf[key] /\ data.key = key /\ Given(latest, later, key, data.val)
          /\ HashOf[key] \in Hashes /\ clock \in Nat /\ data.ts <= clock
      BY <1>1, <1>4, <1>5, <2>2
    <3>2. /\ Points(shard, latest, Hashes \ {HashOf[key]}) /\ Until(shard, clock)
          /\ AppendsAlone => Covers(shard, Hashes \ {HashOf[key]})
      BY <2>2
    <3> HIDE DEF key, len, data, r, later
    <3>3. Points(r, later, Hashes)
      BY <3>1, <3>2, AdditionKeeps
    <3>4. Until(r, clock)
      BY <3>1, <3>2, AdditionKeeps
    <3>5. AppendsAlone => Covers(r, Hashes)
      BY <3>1, <3>2, AdditionKeeps
    <3> QED
      BY <3>3, <3>4, <3>5 DEF r, later
  <2> QED
    BY <2>1, <2>3 DEF Matches
<1>7. CallsSound' /\ InHand' = {}
  <2>1. Goto(p, "idle", Idle) /\ UNCHANGED clock /\ lock' = NoOne
    BY DEF PushEntry, Return
  <2>2. IsCall(p, "idle", Idle, clock)
    BY DEF IsCall
  <2> QED
    BY <1>1, <2>1, <2>2, GotoKeeps DEF Inv, Labels, Inside
<1>8. Typed'
  BY <1>5 DEF Inv, Typed, PushEntry
<1>9. Dated'
  <2>1. Janitor \in Procs /\ lock' # Janitor
    BY ShardAssumption DEF PushEntry, Procs
  <2> QED
    BY <1>7, <2>1 DEF CallsSound, Dated, Inside
<1>10. Matches(shard', latest', Hashes \ InHand', clock')
  <2>1. Hashes \ InHand' = Hashes /\ clock' = clock
    BY <1>7 DEF PushEntry
  <2> QED
    BY <1>6, <2>1
<1> QED
  BY <1>7, <1>8, <1>9, <1>10 DEF Inv

LEMMA PushEvictsKeeps ==
  ASSUME Data = Entry, Inv, NEW p \in Workers, PushEvicts(p)
  PROVE  Inv'
<1>1. p \in Procs /\ p # Janitor /\ pc[p] = "push" /\ lock = p /\ Janitor \in Procs
  BY AtLabel DEF PushEvicts, Procs
<1>2. Sound(shard) /\ HasOldest(shard)
  BY DEF Inv, Matches, PushEvicts
<1>3. Removes(shard, shard', Peek(shard.entries)) /\ Oldest(shard) \in Entry
  BY <1>2, OldestRemoved DEF PushEvicts
<1>4. CallsSound' /\ InHand' = InHand
  BY DEF Inv, CallsSound, PushEvicts, InHand
<1>5. Matches(shard', latest, Hashes \ InHand, clock)
  <2>1. Matches(shard, latest, Hashes \ InHand, clock) /\ Sound(shard')
    BY <1>3 DEF Inv, Removes
  <2> QED
    BY <1>2, <1>3, <2>1, RemovalKeeps DEF Matches
<1>6. Typed'
  <2>1. notified' \subseteq Notices
    BY <1>3 DEF PushEvicts, RemovalOf, Notices
  <2> QED
    BY <2>1 DEF Inv, Typed, PushEvicts
<1>7. Dated'
  <2>1. lock' # Janitor
    BY <1>1 DEF PushEvicts
  <2> QED
    BY <1>1, <1>4, <2>1 DEF CallsSound, Dated, Inside
<1> QED
  BY <1>4, <1>5, <1>6, <1>7 DEF Inv, PushEvicts

LEMMA GetMissKeeps ==
  ASSUME Inv, NEW p \in Workers, NEW k \in Keys, GetMiss(p, k)
  PROVE  Inv'
<1>1. stats' \in [DOMAIN NoStats -> Nat] /\ ops' \in 0 .. MaxOps
  BY MakesCall, Counts DEF GetMiss, Inv, NoStats
<1>2. Typed'
  BY <1>1 DEF GetMiss, Inv, Typed
<1> QED
  BY <1>2, CountingKeeps DEF GetMiss

LEMMA GetHitKeeps ==
  ASSUME Data = Entry, Inv, NEW p \in Workers, NEW k \in Keys, GetHit(p, k)
  PROVE  Inv'
<1>1. stats' \in [DOMAIN NoStats -> Nat] /\ ops' \in 0 .. MaxOps /\ pc[p] = "idle"
  BY MakesCall, Counts DEF GetHit, Inv, NoStats
<1>2. Typed'
  BY <1>1 DEF GetHit, Inv, Typed
<1>3. CASE UNCHANGED <<pc, local>>
  BY <1>2, <1>3, CountingKeeps DEF GetHit
<1>4. CASE Goto(p, "hit", [key |-> k, now |-> clock])
  <2>1. IsCall(p, "hit", [key |-> k, now |-> clock], clock)
    BY DEF IsCall
  <2>2. Sound(shard) /\ p \in Procs
    BY AtLabel DEF Inv, Matches
  <2> QED
    BY <1>1, <1>2, <1>4, <2>1, <2>2, OutsideKeeps DEF GetHit, Labels, Inside
<1> QED
  BY <1>3, <1>4 DEF GetHit

LEMMA hitKeeps ==
  ASSUME Data = Entry, Inv, NEW p \in Workers, hit(p)
  PROVE  Inv'
<1>1. local[p].key \in Keys /\ p \in Procs /\ Sound(shard) /\ pc[p] = "hit"
  BY AtLabel DEF Inv, Matches, hit
<1>2. HashOf[local[p].key] \in Hashes
  BY <1>1, HashesAreKeys
<1>3. Sound(shard') /\ shard'.entries = shard.entries /\ shard'.hashmap = shard.hashmap
  BY <1>1, <1>2, HitCounted DEF hit
<1>4. Typed'
  BY DEF hit, Inv, Typed
<1>5. IsCall(p, "idle", Idle, clock)
  BY DEF IsCall
<1> QED
  BY <1>1, <1>3, <1>4, <1>5, OutsideKeeps DEF hit, Return, Labels, Inside

LEMMA DelCheckKeeps ==
  ASSUME Data = Entry, Inv, NEW p \in Workers, NEW k \in Keys, DelCheck(p, k)
  PROVE  Inv'
<1>1. ops' \in 0 .. MaxOps /\ pc[p] = "idle"
  BY MakesCall DEF DelCheck, Inv
<1>2. CASE UNCHANGED <<pc, local>> /\ Count("delmisses")
  <2>1. stats' \in [DOMAIN NoStats -> Nat]
    BY <1>2, Counts DEF Inv, NoStats
  <2>2. Typed'
    BY <1>1, <2>1 DEF DelCheck, Inv, Typed
  <2> QED
    BY <1>2, <2>2, CountingKeeps DEF DelCheck
<1>3. CASE Goto(p, "del", [key |-> k, now |-> clock]) /\ UNCHANGED stats
  <2>1. IsCall(p, "del", [key |-> k, now |-> clock], clock)
    BY DEF IsCall
  <2>2. Sound(shard) /\ p \in Procs
    BY AtLabel DEF Inv, Matches
  <2>3. Typed'
    BY <1>1, <1>3 DEF DelCheck, Inv, Typed
  <2> QED
    BY <1>1, <1>3, <2>1, <2>2, <2>3, OutsideKeeps DEF DelCheck, Labels, Inside
<1> QED
  BY <1>2, <1>3 DEF DelCheck

\* What del does to the shard when it finds something under the hash.
LEMMA DeletionKeeps ==
  ASSUME Data = Entry, NEW s, NEW given, NEW now, NEW h \in Hashes,
         Matches(s, given, Hashes, now), IsStored(s, h),
         NEW later, \A k \in Keys : HashOf[k] # h => later[k] = given[k],
         NEW r, r = Forget(resetKeyFromEntry(s, h), h)
  PROVE  Matches(r, later, Hashes, now)
<1> DEFINE m == ResetPrevious(s, h)
<1>1. Sound(s) /\ Points(s, given, {h})
  BY DEF Matches, Points
<1>2. Marks(s, m, h) /\ resetKeyFromEntry(s, h) = m
  BY <1>1, PreviousReset
<1> HIDE DEF m
<1>3. /\ Sound(m) /\ Points(m, given, Hashes \ {h}) /\ Until(m, now)
      /\ AppendsAlone => Covers(m, Hashes \ {h})
  BY <1>1, <1>2, MarkingKeeps DEF Matches, Marks
<1>4. r = Forget(m, h)
  BY <1>2
<1>5. Sound(r) /\ Points(r, later, Hashes) /\ Until(r, now)
  BY <1>3, <1>4, ForgottenKeeps
<1>6. AppendsAlone => Covers(r, Hashes)
  BY <1>3, <1>4, ForgottenKeeps
<1> QED
  BY <1>5, <1>6 DEF Matches

LEMMA DelLockKeeps ==
  ASSUME Data = Entry, Inv, NEW p \in Workers, DelLock(p)
  PROVE  Inv'
<1> DEFINE key == local[p].key
           h   == HashOf[key]
<1>1. /\ p \in Procs /\ p # Janitor /\ pc[p] = "del" /\ lock = NoOne /\ InHand = {}
      /\ key \in Keys /\ h \in Hashes /\ Janitor \in Procs
  BY AtLabel, HashesAreKeys DEF DelLock, Procs
<1>2. Matches(shard, latest, Hashes, clock)
  BY <1>1 DEF Inv
<1>3. latest \in [Keys -> Seq(Values)]
  BY DEF Inv, Typed
<1>4. CallsSound' /\ InHand' = {}
  <2>1. Goto(p, "idle", Idle) /\ UNCHANGED <<lock, clock>>
    BY DEF DelLock, Return
  <2>2. IsCall(p, "idle", Idle, clock)
    BY DEF IsCall
  <2> QED
    BY <1>1, <2>1, <2>2, GotoKeeps DEF Inv, Labels, Inside
<1>5. /\ Matches(shard', latest', Hashes, clock) /\ notified' \subseteq Notices
      /\ latest' \in [Keys -> Seq(Values)]
  <2>1. CASE UNCHANGED <<shard, latest>> /\ notified' = {}
    BY <1>2, <1>3, <2>1
  <2>2. CASE /\ IsStored(shard, h)
             /\ shard' = Forget(resetKeyFromEntry(shard, h), h)
             /\ notified' = {[entry |-> getWrappedEntry(shard, h).data, reason |-> "Deleted"]}
             /\ latest' = [latest EXCEPT ![key] = <<>>]
    <3>1. latest' \in [Keys -> Seq(Values)]
      <4>1. <<>> \in Seq(Values) /\ latest' = [latest EXCEPT ![key] = <<>>]
        BY <2>2
      <4> HIDE DEF key
      <4> QED
        BY <1>3, <4>1
    <3>2. \A k \in Keys : HashOf[k] # h => latest'[k] = latest[k]
      <4> SUFFICES ASSUME NEW k \in Keys, HashOf[k] # h PROVE latest'[k] = latest[k]
        OBVIOUS
      <4>1. k # key
        OBVIOUS
      <4> HIDE DEF key, h
      <4> QED
        BY <1>3, <2>2, <4>1
    <3>3. getWrappedEntry(shard, h).data \in Entry
      BY <1>1, <1>2, <2>2, HitEntry
    <3>4. notified' \subseteq Notices
      BY <2>2, <3>3 DEF Notices
    <3> DEFINE r     == shard'
               later == latest'
    <3>5. /\ r = Forget(resetKeyFromEntry(shard, h), h)
          /\ \A k \in Keys : HashOf[k] # h => later[k] = latest[k]
      BY <2>2, <3>2
    <3> HIDE DEF h, r, later
    <3>6. Matches(r, later, Hashes, clock)
      BY <1>1, <1>2, <2>2, <3>5, DeletionKeeps
    <3> QED
      BY <3>1, <3>4, <3>6 DEF r, later
  <2> QED
    BY <2>1, <2>2 DEF DelLock
<1>6. Typed'
  <2>1. stats' \in [DOMAIN NoStats -> Nat]
    BY Counts DEF Inv, DelLock, NoStats
  <2> QED
    BY <1>5, <2>1 DEF Inv, Typed, DelLock
<1>7. Dated'
  <2>1. lock' # Janitor
    BY <1>1, ShardAssumption DEF DelLock
  <2> QED
    BY <1>1, <1>4, <2>1 DEF CallsSound, Dated, Inside
<1>8. Hashes \ InHand' = Hashes /\ clock' = clock
  BY <1>4 DEF DelLock
<1> QED
  BY <1>4, <1>5, <1>6, <1>7, <1>8 DEF Inv

LEMMA resetKeeps ==
  ASSUME Data = Entry, Inv, NEW p \in Workers, reset(p)
  PROVE  Inv'
<1>1. lock = NoOne /\ InHand = {} /\ p \in Procs /\ Janitor \in Procs
  BY AtLabel DEF reset, Procs
<1>2. Sound(shard)
  BY DEF Inv, Matches
<1>3. /\ QueueInv(Reset(shard.entries)) /\ GapReserved(Reset(shard.entries))
      /\ RingFilled(Reset(shard.entries)) /\ Live(Reset(shard.entries)) = {}
  BY <1>2, ResetInv DEF Sound
<1>4. /\ shard' \in Shards /\ shard'.entries = Reset(shard.entries)
      /\ \A h \in Hashes : shard'.hashmap[h] = 0
  <2>1. Reset(shard.entries) \in Queues
    BY <1>3 DEF QueueInv, IsQueue, Queues
  <2> QED
    BY <1>2, <2>1 DEF Sound, Shards, reset
<1>5. /\ Sound(shard') /\ Points(shard', latest', Hashes) /\ Covers(shard', Hashes)
      /\ Until(shard', clock)
  BY <1>3, <1>4, EmptyIsSound
<1>6. CallsSound' /\ InHand' = InHand
  BY DEF Inv, CallsSound, reset, InHand
<1>7. Typed'
  <2>1. ops' \in 0 .. MaxOps
    BY MakesCall DEF Inv, reset
  <2> QED
    BY <2>1 DEF Inv, Typed, reset
<1>8. Dated'
  <2>1. lock' # Janitor
    BY <1>1, ShardAssumption DEF reset, Procs
  <2> QED
    BY <1>1, <1>6, <2>1 DEF CallsSound, Dated, Inside
<1>9. Matches(shard', latest', Hashes \ InHand', clock')
  BY <1>1, <1>5, <1>6 DEF Matches, reset
<1> QED
  BY <1>6, <1>7, <1>8, <1>9 DEF Inv

-----------------------------------------------------------------------------
(* The steps of the janitor, and of time.                                  *)

LEMMA AtCleaning ==
  ASSUME Inv
  PROVE  /\ Janitor \in Procs /\ Janitor \notin Workers /\ NoOne \notin Procs
         /\ clock \in Nat /\ clock <= MaxClock /\ MaxClock \in Nat
         /\ pc[Janitor] \in {"clean", "cleaning"} =>
              local[Janitor].now \in Nat /\ local[Janitor].now <= clock
         /\ pc[Janitor] = "clean" /\ MaxLag = 0 => local[Janitor].now = clock
         /\ pc[Janitor] = "cleaning" => lock = Janitor /\ InHand = {}
         /\ lock = NoOne => InHand = {}
<1>1. /\ Janitor \in Procs /\ Janitor \notin Workers /\ NoOne \notin Procs /\ MaxClock \in Nat
      /\ Workers \subseteq Procs
  BY ShardAssumption DEF Procs
<1>2. /\ IsCall(Janitor, pc[Janitor], local[Janitor], clock)
      /\ lock = Janitor <=> pc[Janitor] \in Inside
  BY <1>1 DEF Inv, CallsSound
<1>3. clock \in Nat /\ clock <= MaxClock
  BY <1>1 DEF Inv, Typed
<1> QED
  BY <1>1, <1>2, <1>3 DEF IsCall, InHand, Inside

LEMMA CleanStartKeeps ==
  ASSUME Data = Entry, Inv, CleanStart
  PROVE  Inv'
<1>1. Janitor \in Procs /\ clock \in Nat
  BY AtCleaning
<1>2. IsCall(Janitor, "clean", [key |-> NoKey, now |-> clock], clock)
  BY <1>1 DEF IsCall
<1>3. Typed' /\ Sound(shard)
  BY DEF Inv, Typed, Matches, CleanStart
<1> QED
  BY <1>1, <1>2, <1>3, OutsideKeeps DEF CleanStart, Labels, Inside

LEMMA CleanLockKeeps ==
  ASSUME Inv, CleanLock
  PROVE  Inv'
<1>1. /\ Janitor \in Procs /\ clock \in Nat /\ InHand = {}
      /\ local[Janitor].now \in Nat /\ local[Janitor].now <= clock
      /\ MaxLag = 0 => local[Janitor].now = clock
  BY AtCleaning DEF CleanLock
<1>2. IsCall(Janitor, "cleaning", local[Janitor], clock)
  BY <1>1 DEF IsCall
<1>3. CallsSound' /\ InHand' = {}
  BY <1>1, <1>2, GotoKeeps DEF Inv, CleanLock, Labels, Inside
<1>4. Matches(shard', latest', Hashes \ InHand', clock')
  BY <1>1, <1>3 DEF Inv, CleanLock
<1>5. Typed'
  BY DEF Inv, Typed, CleanLock
<1>6. Dated'
  <2>1. local'[Janitor].now = local[Janitor].now
    BY <1>1 DEF CleanLock, Goto, Inv, CallsSound
  <2> QED
    BY <1>1, <2>1 DEF Inv, Matches, Dated, CleanLock
<1> QED
  BY <1>3, <1>4, <1>5, <1>6 DEF Inv

LEMMA CleanEvictKeeps ==
  ASSUME Data = Entry, Inv, CleanEvict
  PROVE  Inv'
<1> DEFINE now == local[Janitor].now
<1>1. Sound(shard) /\ UNCHANGED <<stats, lock, clock, pc, local, ops, latest>>
  BY DEF Inv, Matches, CleanEvict
<1>2. shard' = onEvict(shard, now) /\ notified' = EvictionOf(shard, now)
  BY DEF CleanEvict
<1>3. Matches(shard', latest, Hashes \ InHand, clock)
  <2> DEFINE r      == shard'
             hashes == Hashes \ InHand
  <2>1. /\ Points(shard, latest, hashes) /\ Until(shard, clock)
        /\ AppendsAlone => Covers(shard, hashes)
    BY DEF Inv, Matches
  <2>2. r = onEvict(shard, now) /\ hashes \in SUBSET Hashes
    BY <1>2
  <2> HIDE DEF r, hashes
  <2>3. Sound(r) /\ Points(r, latest, hashes)
    BY <1>1, <2>1, <2>2, EvictionKeeps
  <2>4. Until(r, clock)
    BY <1>1, <2>1, <2>2, EvictionKeeps
  <2>5. AppendsAlone => Covers(r, hashes)
    BY <1>1, <2>1, <2>2, EvictionKeeps
  <2> QED
    BY <2>3, <2>4, <2>5 DEF Matches, r, hashes
<1>4. notified' \subseteq Notices /\ (Until(shard, now) => Until(shard', now))
  BY <1>1, <1>2, EvictionKeeps
<1>5. Typed' /\ Dated'
  BY <1>1, <1>4 DEF Inv, Typed, Dated
<1>6. CallsSound' /\ InHand' = InHand
  BY <1>1 DEF Inv, CallsSound, InHand
<1> QED
  BY <1>1, <1>3, <1>5, <1>6 DEF Inv

LEMMA CleanEndKeeps ==
  ASSUME Inv, CleanEnd
  PROVE  Inv'
<1>1. Janitor \in Procs /\ InHand = {} /\ lock = Janitor
  BY AtCleaning DEF CleanEnd
<1>2. IsCall(Janitor, "idle", Idle, clock)
  BY DEF IsCall
<1>3. CallsSound' /\ InHand' = {}
  BY <1>1, <1>2, GotoKeeps DEF Inv, CleanEnd, Return, Labels, Inside
<1>4. Typed'
  BY DEF Inv, Typed, CleanEnd
<1>5. Dated'
  <2>1. lock' # Janitor
    BY AtCleaning DEF CleanEnd
  <2> QED
    BY <1>1, <1>3, <2>1 DEF CallsSound, Dated, Inside
<1> QED
  BY <1>1, <1>3, <1>4, <1>5 DEF Inv, CleanEnd

LEMMA TickKeeps ==
  ASSUME Data = Entry, Inv, Tick
  PROVE  Inv'
<1>1. clock \in Nat /\ clock' = clock + 1 /\ clock < MaxClock /\ MaxClock \in Nat /\ MaxLag \in Nat
  BY AtCleaning, ShardAssumption DEF Tick
<1>2. UNCHANGED <<shard, stats, lock, pc, local, ops, latest>> /\ notified' = {}
  BY DEF Tick
<1>3. \A p \in Procs : IsCall(p, pc[p], local[p], clock')
  <2> SUFFICES ASSUME NEW p \in Procs PROVE IsCall(p, pc[p], local[p], clock')
    OBVIOUS
  <2>1. IsCall(p, pc[p], local[p], clock)
    BY DEF Inv, CallsSound
  <2>2. pc[p] \in {"set", "clean"} => MaxLag # 0
    BY <1>1, <2>1 DEF Tick, IsCall
  <2>3. pc[p] = "push" => local[p].w.data.ts \in Nat /\ local[p].w.data.ts <= clock
    BY <2>1 DEF IsCall, Entry
  <2>4. pc[p] = "push" => local[p].w.data.ts <= clock'
    BY <1>1, <2>3
  <2>5. \A t \in 0 .. clock : t \in 0 .. clock'
    BY <1>1
  <2> QED
    BY <2>1, <2>2, <2>4, <2>5 DEF IsCall
<1>4. CallsSound' /\ InHand' = InHand
  BY <1>2, <1>3 DEF Inv, CallsSound, InHand
<1>5. Typed' /\ Dated'
  BY <1>1, <1>2 DEF Inv, Typed, Dated
<1>6. Matches(shard, latest, Hashes \ InHand, clock')
  <2>1. ASSUME NEW b \in Live(shard.entries), b.data.ts <= clock
        PROVE  b.data.ts <= clock'
    <3>1. b.data.ts \in Nat
      BY <2>1, LiveEntries DEF Inv, Matches
    <3> QED
      BY <1>1, <2>1, <3>1
  <2> QED
    BY <2>1 DEF Inv, Matches, Until
<1> QED
  BY <1>2, <1>4, <1>5, <1>6 DEF Inv

-----------------------------------------------------------------------------
(* The theorems.                                                           *)

LEMMA NextKeeps ==
  ASSUME Data = Entry, Inv, Undisturbed, [Next]_vars
  PROVE  Inv'
<1>1. CASE UNCHANGED vars
  BY <1>1 DEF vars, Inv, Typed, CallsSound, Dated, InHand
<1>2. ASSUME NEW p \in Workers, Worker(p)
      PROVE  Inv'
  <2>1. CASE \E k \in Keys, v \in Values : SetStart(p, k, v)
    BY <2>1, SetStartKeeps
  <2>2. CASE \E k \in AppendKeys, v \in AppendValues : AppendHit(p, k, v) \/ AppendNew(p, k, v)
    BY <2>2, AppendHitKeeps, AppendNewKeeps
  <2>3. CASE \E k \in AppendKeys : AppendError(p, k)
    BY <2>3, AppendErrorKeeps
  <2>4. CASE \E k \in Keys : GetMiss(p, k) \/ GetHit(p, k) \/ DelCheck(p, k)
    BY <2>4, GetMissKeeps, GetHitKeeps, DelCheckKeeps
  <2>5. CASE reset(p)
    BY <2>5, resetKeeps
  <2>6. CASE Acquire(p)
    BY <2>6, SetLockKeeps, hitKeeps, DelLockKeeps DEF Acquire
  <2>7. CASE Holding(p)
    <3>1. ~PushTooBig(p)
      BY DEF PushTooBig, Undisturbed
    <3> QED
      BY <2>7, <3>1, PushEntryKeeps, PushEvictsKeeps DEF Holding
  <2> QED
    BY <1>2, <2>1, <2>2, <2>3, <2>4, <2>5, <2>6, <2>7 DEF Worker
<1>3. CASE CleanStart \/ CleanLock \/ CleanEvict \/ CleanEnd
  BY <1>3, CleanStartKeeps, CleanLockKeeps, CleanEvictKeeps, CleanEndKeeps
<1>4. CASE Tick
  BY <1>4, TickKeeps
<1> QED
  BY <1>1, <1>2, <1>3, <1>4 DEF Next

LEMMA Invariance ==
  ASSUME Data = Entry
  PROVE  Spec /\ []Undisturbed => []Inv
<1>1. Init => Inv
  BY InitInv
<1>2. Inv /\ Undisturbed /\ [Next]_vars => Inv'
  BY NextKeeps
<1> QED
  BY <1>1, <1>2, PTL DEF Spec

\* The fields of a shard keep their types, and its lock is held by the one
\* goroutine that is in a section it guards (shard.go:20-36): as long as a
\* reallocation of the queue leaves no hole and no push is refused.
THEOREM ShardTyped ==
  ASSUME Data = Entry
  PROVE  Spec /\ []Undisturbed => []TypeOK
<1>1. Inv => TypeOK
  <2> SUFFICES ASSUME Inv PROVE TypeOK
    OBVIOUS
  <2>1. /\ shard.hashmap \in [Hashes -> Nat] /\ shard.hashmapStats \in [Hashes -> Nat]
        /\ IsQueue(shard.entries)
    BY DEF Inv, Matches, Sound, Shards, QueueInv
  <2>2. /\ pc \in [Procs -> {"idle", "set", "push", "hit", "del", "clean", "cleaning"}]
        /\ \A p \in Procs : lock = p <=> pc[p] \in {"push", "cleaning"}
    BY DEF Inv, CallsSound, Labels, Inside
  <2> QED
    BY <2>1, <2>2 DEF Inv, Typed, TypeOK
<1> QED
  BY <1>1, Invariance, PTL

\* A read under the lock finds the value its key was last given, or nothing
\* (shard.go:72-112), whatever was overwritten, deleted, evicted or moved by a
\* reallocation since, and for colliding keys too.
THEOREM ReadsFindLatest ==
  ASSUME Data = Entry
  PROVE  Spec /\ []Undisturbed => []ReadsLatest
<1>1. Inv => ReadsLatest
  <2> SUFFICES ASSUME Inv, NEW k \in Keys, IsHit(shard, k), HashOf[k] \notin InHand
               PROVE  getWrappedEntry(shard, HashOf[k]).data.val = latest[k]
    BY DEF ReadsLatest
  <2>1. Matches(shard, latest, Hashes \ InHand, clock) /\ HashOf[k] \in Hashes \ InHand
    BY HashesAreKeys DEF Inv
  <2>2. IsStored(shard, HashOf[k]) /\ getWrappedEntry(shard, HashOf[k]).data.key = k
    BY DEF IsHit
  <2> QED
    BY <2>1, <2>2, HitEntry
<1> QED
  BY <1>1, Invariance, PTL

\* The hashmap points to the live entries that carry a hash, each to its own
\* and to nothing else (shard.go:20), if Append is called with no key that
\* shares its hash: addNewWithoutLock does not mark the entry of another key.
THEOREM MapMatches ==
  ASSUME Data = Entry, AppendsAlone
  PROVE  Spec /\ []Undisturbed => []MapMatchesEntries
<1>1. Inv => MapMatchesEntries
  <2> SUFFICES ASSUME Inv PROVE Mapped = {<<b.data.hash, b.at>> : b \in Marked}
    BY DEF MapMatchesEntries
  <2> DEFINE hashes == Hashes \ InHand
  <2>1. /\ Points(shard, latest, hashes) /\ Covers(shard, hashes) /\ Sound(shard)
        /\ 0 \notin Hashes
    BY HashesAreKeys DEF Inv, Matches
  <2>2. Mapped \subseteq {<<b.data.hash, b.at>> : b \in Marked}
    <3> SUFFICES ASSUME NEW h \in hashes, shard.hashmap[h] # 0
                 PROVE  \E b \in Marked : <<h, shard.hashmap[h]>> = <<b.data.hash, b.at>>
      BY DEF Mapped, IsMiss
    <3>1. PICK b \in Live(shard.entries) : b.at = shard.hashmap[h] /\ b.data.hash = h
      BY <2>1 DEF Points, IsEntryOf
    <3> QED
      BY <3>1 DEF Marked
  <2>3. {<<b.data.hash, b.at>> : b \in Marked} \subseteq Mapped
    <3> SUFFICES ASSUME NEW b \in Marked PROVE <<b.data.hash, b.at>> \in Mapped
      OBVIOUS
    <3>1. b \in Live(shard.entries) /\ b.data.hash \in hashes /\ b.data.hash # 0
      BY <2>1 DEF Marked
    <3>2. shard.hashmap[b.data.hash] = b.at /\ b.at # 0
      BY <2>1, <3>1, LiveEntries DEF Covers
    <3> QED
      BY <3>1, <3>2 DEF Mapped, IsMiss
  <2> QED
    BY <2>2, <2>3
<1> QED
  BY <1>1, Invariance, PTL

\* An entry that is evicted as of a time it does not come after is dead then.
LEMMA ExpiredAt ==
  ASSUME Data = Entry, NEW s, Sound(s), NEW now \in Nat, now <= MaxClock, Until(s, now),
         NEW n \in EvictionOf(s, now)
  PROVE  n.entry.ts \in Nat /\ now - n.entry.ts > LifeWindow
<1>1. /\ Evicts(s, now) /\ n.entry = Oldest(s)
      /\ Oldest(s) = Peek(s.entries).data /\ Peek(s.entries) \in Live(s.entries)
  <2>1. Evicts(s, now) /\ HasOldest(s) /\ n \in RemovalOf(s, "Expired")
    BY DEF EvictionOf, Evicts
  <2>2. n.entry = Oldest(s)
    BY <2>1 DEF RemovalOf
  <2> QED
    BY <2>1, <2>2, OldestRemoved DEF Removes
<1>2. n.entry.ts \in Nat /\ n.entry.ts <= now /\ Age(now, n.entry.ts) > LifeWindow
  BY <1>1, LiveEntries DEF Until, Evicts
<1>3. LifeWindow \in Nat /\ WordSize \in Nat /\ MaxClock \in Nat /\ LifeWindow < WordSize - MaxClock
  BY ShardAssumption
<1>4. Age(now, n.entry.ts) = now - n.entry.ts
  <2> DEFINE x == now - n.entry.ts
  <2>1. x \in Nat /\ x < WordSize /\ WordSize > 0
    BY <1>2, <1>3
  <2> HIDE DEF x
  <2>2. x % WordSize = x
    BY <1>3, <2>1
  <2> QED
    BY <2>2 DEF Age, x
<1> QED
  BY <1>2, <1>4

LEMMA NextExpires ==
  ASSUME Data = Entry, MaxLag = 0, Inv, ExpiredIsDead, [Next]_vars
  PROVE  ExpiredIsDead'
<1> DEFINE Dead(now) == \A n \in notified' : n.reason = "Expired" => now - n.entry.ts > LifeWindow
<1>0. /\ Sound(shard) /\ Until(shard, clock) /\ clock \in Nat /\ clock <= MaxClock
      /\ Points(shard, latest, Hashes \ InHand)
  BY AtCleaning DEF Inv, Matches
<1>1. CASE UNCHANGED vars
  BY <1>1 DEF vars, ExpiredIsDead
<1>2. ASSUME \A n \in notified' : n.reason # "Expired" PROVE ExpiredIsDead'
  BY <1>2 DEF ExpiredIsDead
<1>3. ASSUME NEW s, Sound(s), Until(s, clock), notified' = EvictionOf(s, clock), UNCHANGED clock
      PROVE  ExpiredIsDead'
  <2>1. \A n \in EvictionOf(s, clock) : clock - n.entry.ts > LifeWindow
    BY <1>0, <1>3, ExpiredAt
  <2> QED
    BY <1>3, <2>1 DEF ExpiredIsDead
<1>4. ASSUME NEW s, Sound(s), Until(s, clock), NEW h \in Hashes, Points(s, latest, {h}),
             notified' = EvictionOf(ResetPrevious(s, h), clock), UNCHANGED clock
      PROVE  ExpiredIsDead'
  <2> DEFINE m == ResetPrevious(s, h)
  <2>1. Marks(s, m, h)
    BY <1>4, PreviousReset
  <2> HIDE DEF m
  <2>2. Sound(m) /\ Until(m, clock)
    BY <1>4, <2>1, MarkingKeeps DEF Marks
  <2>3. notified' = EvictionOf(m, clock)
    BY <1>4 DEF m
  <2> QED
    BY <1>3, <1>4, <2>2, <2>3
<1>5. ASSUME NEW p \in Workers, Worker(p)
      PROVE  ExpiredIsDead'
  <2>1. ASSUME NEW k \in AppendKeys, NEW v \in AppendValues, AppendHit(p, k, v)
        PROVE  ExpiredIsDead'
    <3>1. HashOf[k] \in Hashes /\ InHand = {}
      BY AtLabel, HashesAreKeys, ShardAssumption, <2>1 DEF AppendHit
    <3> DEFINE s == CountHit(shard, HashOf[k])
    <3>2. Sound(s) /\ s.entries = shard.entries /\ s.hashmap = shard.hashmap
      BY <1>0, <3>1, HitCounted
    <3>3. notified' = EvictionOf(ResetPrevious(s, HashOf[k]), clock) /\ UNCHANGED clock
      BY <2>1 DEF AppendHit
    <3> HIDE DEF s
    <3>4. Until(s, clock) /\ Points(s, latest, {HashOf[k]})
      BY <1>0, <3>1, <3>2 DEF Until, Points
    <3> QED
      BY <1>4, <3>1, <3>2, <3>3, <3>4
  <2>2. ASSUME NEW k \in AppendKeys, NEW v \in AppendValues, AppendNew(p, k, v)
        PROVE  ExpiredIsDead'
    BY <1>0, <1>3, <2>2 DEF AppendNew
  <2>3. CASE SetLock(p)
    <3> DEFINE h == HashOf[local[p].key]
    <3>1. h \in Hashes /\ InHand = {} /\ local[p].now = clock
      BY AtLabel, HashesAreKeys, <2>3 DEF SetLock
    <3>2. notified' = EvictionOf(ResetPrevious(shard, h), clock) /\ UNCHANGED clock
      BY <2>3, <3>1 DEF SetLock
    <3>3. Points(shard, latest, {h})
      BY <1>0, <3>1 DEF Points
    <3> HIDE DEF h
    <3> QED
      BY <1>0, <1>4, <3>1, <3>2, <3>3
  <2>4. CASE \/ \E k \in Keys, v \in Values : SetStart(p, k, v)
             \/ \E k \in AppendKeys : AppendError(p, k)
             \/ \E k \in Keys : GetMiss(p, k) \/ GetHit(p, k) \/ DelCheck(p, k)
             \/ reset(p) \/ hit(p) \/ PushEntry(p) \/ PushTooBig(p)
    <3>1. notified' = {}
      BY <2>4 DEF SetStart, AppendError, GetMiss, GetHit, DelCheck, reset, hit, PushEntry,
                  PushTooBig
    <3> QED
      BY <1>2, <3>1
  <2>5. CASE DelLock(p) \/ PushEvicts(p)
    <3>1. \A n \in notified' : n.reason \in {"Deleted", "NoSpace"}
      BY <2>5 DEF DelLock, PushEvicts, RemovalOf
    <3> QED
      BY <1>2, <3>1
  <2> QED
    BY <1>5, <2>1, <2>2, <2>3, <2>4, <2>5 DEF Worker, Acquire, Holding
<1>6. CASE CleanStart \/ CleanLock \/ CleanEnd \/ Tick
  <2>1. notified' = {}
    BY <1>6 DEF CleanStart, CleanLock, CleanEnd, Tick
  <2> QED
    BY <1>2, <2>1
<1>7. CASE CleanEvict
  <2> DEFINE now == local[Janitor].now
  <2>1. now \in Nat /\ now <= clock /\ Until(shard, now) /\ clock \in Nat /\ now <= MaxClock
    BY <1>7, AtCleaning DEF CleanEvict, Inv, Dated
  <2>2. notified' = EvictionOf(shard, now) /\ UNCHANGED clock
    BY <1>7 DEF CleanEvict
  <2> HIDE DEF now
  <2>3. \A n \in EvictionOf(shard, now) : n.entry.ts \in Nat /\ now - n.entry.ts > LifeWindow
    BY <1>0, <2>1, ExpiredAt
  <2>4. \A n \in EvictionOf(shard, now) : clock - n.entry.ts > LifeWindow
    BY <2>1, <2>3, ShardAssumption
  <2> QED
    BY <2>2, <2>4 DEF ExpiredIsDead
<1> QED
  BY <1>1, <1>5, <1>6, <1>7 DEF Next

\* An entry that OnRemove is told has expired has outlived the LifeWindow
\* (shard.go:262-269), when no second passes between a read of the clock and
\* the lock: a later timestamp is subtracted from an earlier one otherwise.
THEOREM ExpiredHaveLived ==
  ASSUME Data = Entry, MaxLag = 0
  PROVE  Spec /\ []Undisturbed => []ExpiredIsDead
<1>1. Init => ExpiredIsDead
  BY DEF Init, ExpiredIsDead
<1>2. Inv /\ ExpiredIsDead /\ [Next]_vars => ExpiredIsDead'
  BY NextExpires
<1> QED
  BY <1>1, <1>2, Invariance, PTL DEF Spec

-----------------------------------------------------------------------------
(* What OnRemove is told.                                                  *)

\* Nothing leaves the hashmap, or the entry that is told of.
Reports(s, r, notices, hashes) ==
  \/ /\ notices = {}
     /\ \A h \in Hashes : r.hashmap[h] = 0 => s.hashmap[h] = 0
  \/ \E b \in Live(s.entries) :
       /\ b.data.hash \in hashes /\ s.hashmap[b.data.hash] = b.at
       /\ r.hashmap = [h \in Hashes |-> IF h = b.data.hash THEN 0 ELSE s.hashmap[h]]
       /\ notices # {} /\ \A n \in notices : n.entry = b.data

LEMMA RemovalReported ==
  ASSUME Data = Entry, NEW s, Sound(s), HasOldest(s), NEW hashes \in SUBSET Hashes,
         Covers(s, hashes), NEW reason
  PROVE  Reports(s, removeOldestEntry(s), RemovalOf(s, reason), hashes)
<1> DEFINE b == Peek(s.entries)
           r == removeOldestEntry(s)
<1>1. Oldest(s) = b.data /\ Removes(s, r, b)
  BY OldestRemoved
<1> HIDE DEF b, r
<1>2. /\ b \in Live(s.entries)
      /\ r.hashmap = [h \in Hashes |-> IF h = b.data.hash THEN 0 ELSE s.hashmap[h]]
  BY <1>1 DEF Removes
<1>3. CASE b.data.hash = 0
  <2>1. RemovalOf(s, reason) = {}
    BY <1>1, <1>3 DEF RemovalOf
  <2>2. \A h \in Hashes : r.hashmap[h] = 0 => s.hashmap[h] = 0
    BY <1>2, <1>3, HashesAreKeys
  <2> QED
    BY <2>1, <2>2 DEF Reports, r
<1>4. CASE b.data.hash # 0
  <2>1. RemovalOf(s, reason) = {[entry |-> b.data, reason |-> reason]}
    BY <1>1, <1>4 DEF RemovalOf
  <2>2. b.data.hash \in hashes /\ s.hashmap[b.data.hash] = b.at
    BY <1>2, <1>4 DEF Covers
  <2>3. RemovalOf(s, reason) # {} /\ \A n \in RemovalOf(s, reason) : n.entry = b.data
    BY <2>1
  <2> QED
    BY <1>2, <2>2, <2>3 DEF Reports, r
<1> QED
  BY <1>3, <1>4

LEMMA EvictionReported ==
  ASSUME Data = Entry, NEW s, Sound(s), NEW now, NEW hashes \in SUBSET Hashes, Covers(s, hashes)
  PROVE  Reports(s, onEvict(s, now), EvictionOf(s, now), hashes)
<1>1. CASE Evicts(s, now)
  <2>1. onEvict(s, now) = removeOldestEntry(s) /\ EvictionOf(s, now) = RemovalOf(s, "Expired")
    BY <1>1 DEF onEvict, EvictionOf
  <2>2. HasOldest(s)
    BY <1>1 DEF Evicts
  <2> QED
    BY <2>1, <2>2, RemovalReported
<1>2. CASE ~Evicts(s, now)
  BY <1>2 DEF onEvict, EvictionOf, Reports
<1> QED
  BY <1>1, <1>2

\* The entry that is replaced is not told of.
LEMMA ReplacingReported ==
  ASSUME Data = Entry, NEW s, Sound(s), NEW given, Points(s, given, Hashes), Covers(s, Hashes),
         NEW h \in Hashes, NEW now
  PROVE  Reports(s, onEvict(ResetPrevious(s, h), now), EvictionOf(ResetPrevious(s, h), now),
                 Hashes \ {h})
<1> DEFINE m == ResetPrevious(s, h)
           r == onEvict(m, now)
           notices == EvictionOf(m, now)
<1>1. Points(s, given, {h})
  BY DEF Points
<1>2. Marks(s, m, h)
  BY <1>1, PreviousReset
<1> HIDE DEF m
<1>3. Sound(m) /\ Covers(m, Hashes \ {h}) /\ m.hashmap = s.hashmap
  BY <1>2, MarkingKeeps DEF Marks
<1>4. Reports(m, r, notices, Hashes \ {h})
  BY <1>3, EvictionReported
<1> HIDE DEF r, notices
<1>5. ASSUME NEW b \in Live(m.entries), b.data.hash \in Hashes
      PROVE  b \in Live(s.entries)
  <2>1. CASE m = s
    BY <2>1
  <2>2. ASSUME NEW c \in Live(s.entries),
               Live(m.entries) = (Live(s.entries) \ {c}) \cup {Unmarked(c)}
        PROVE  b \in Live(s.entries)
    <3>1. Unmarked(c).data.hash = 0
      BY LiveEntries DEF Unmarked, Entry
    <3> QED
      BY <1>5, <2>2, <3>1, HashesAreKeys
  <2> QED
    BY <1>2, <2>1, <2>2 DEF Marks
<1>6. Reports(s, r, notices, Hashes \ {h})
  BY <1>3, <1>4, <1>5 DEF Reports
<1> QED
  BY <1>6 DEF r, notices, m

LEMMA ReportedMeans ==
  ASSUME Data = Entry, Sound(shard), Reports(shard, shard', notified', Hashes \ InHand')
  PROVE  RemovalIsReported
<1> DEFINE gone     == {h \in Hashes \ InHand' : shard.hashmap[h] # 0 /\ shard'.hashmap[h] = 0}
           reported == {n \in notified' : n.entry.hash \notin InHand'}
<1> SUFFICES /\ gone = {n.entry.hash : n \in reported}
             /\ \A n \in reported : n.entry = getWrappedEntry(shard, n.entry.hash).data
  BY DEF RemovalIsReported
<1>1. CASE notified' = {} /\ \A h \in Hashes : shard'.hashmap[h] = 0 => shard.hashmap[h] = 0
  BY <1>1
<1>2. ASSUME NEW b \in Live(shard.entries),
             b.data.hash \in Hashes \ InHand', shard.hashmap[b.data.hash] = b.at,
             shard'.hashmap = [h \in Hashes |-> IF h = b.data.hash THEN 0 ELSE shard.hashmap[h]],
             notified' # {}, \A n \in notified' : n.entry = b.data
      PROVE  /\ gone = {n.entry.hash : n \in reported}
             /\ \A n \in reported : n.entry = getWrappedEntry(shard, n.entry.hash).data
  <2>1. b.at # 0 /\ Get(shard.entries, b.at) = b
    BY LiveEntries
  <2>2. gone = {b.data.hash}
    BY <1>2, <2>1
  <2>3. reported = notified'
    BY <1>2
  <2>4. {n.entry.hash : n \in notified'} = {b.data.hash}
    BY <1>2
  <2>5. getWrappedEntry(shard, b.data.hash) = b
    BY <1>2, <2>1 DEF getWrappedEntry
  <2> HIDE DEF gone, reported
  <2> QED
    BY <1>2, <2>2, <2>3, <2>4, <2>5
<1> HIDE DEF gone, reported
<1> QED
  BY <1>1, <1>2 DEF Reports

LEMMA NextReports ==
  ASSUME Data = Entry, AppendsAlone, Inv, Undisturbed, Next
  PROVE  RemovalIsReported \/ UNCHANGED vars
<1>1. /\ Sound(shard) /\ Covers(shard, Hashes \ InHand) /\ DOMAIN local = Procs
      /\ Points(shard, latest, Hashes \ InHand) /\ Workers \subseteq Procs
      /\ Matches(shard, latest, Hashes \ InHand, clock)
  BY DEF Inv, Matches, CallsSound, Procs
<1>2. ASSUME notified' = {}, \A h \in Hashes : shard'.hashmap[h] = 0 => shard.hashmap[h] = 0
      PROVE  RemovalIsReported
  <2>1. Reports(shard, shard', notified', Hashes \ InHand')
    BY <1>2 DEF Reports
  <2> QED
    BY <1>1, <2>1, ReportedMeans
<1>3. ASSUME NEW p \in Workers, Worker(p)
      PROVE  RemovalIsReported
  <2>1. ASSUME NEW k \in AppendKeys, NEW v \in AppendValues, AppendHit(p, k, v)
        PROVE  RemovalIsReported
    <3> DEFINE h == HashOf[k]
               s == CountHit(shard, h)
    <3>1. /\ h \in Hashes /\ Hashes \ InHand = Hashes /\ p \in Procs
      BY AtLabel, HashesAreKeys, ShardAssumption, <2>1 DEF AppendHit
    <3>2. Sound(s) /\ s.entries = shard.entries /\ s.hashmap = shard.hashmap
      BY <1>1, <3>1, HitCounted
    <3>3. /\ notified' = EvictionOf(ResetPrevious(s, h), clock)
          /\ shard' = onEvict(ResetPrevious(s, h), clock)
      BY <2>1 DEF AppendHit
    <3>4. InHand' = {h}
      <4>1. lock' = p /\ local'[p].key = k
        BY <1>1, <2>1 DEF AppendHit, Goto
      <4> QED
        BY <4>1 DEF InHand
    <3> HIDE DEF s, h
    <3>5. Covers(s, Hashes) /\ Points(s, latest, Hashes)
      BY <1>1, <3>1, <3>2 DEF Covers, Points
    <3>6. Reports(s, shard', notified', Hashes \ {h})
      BY <3>1, <3>2, <3>3, <3>5, ReplacingReported
    <3>7. Reports(shard, shard', notified', Hashes \ {h})
      BY <3>2, <3>6 DEF Reports
    <3> QED
      BY <1>1, <3>4, <3>7, ReportedMeans
  <2>2. ASSUME NEW k \in AppendKeys, NEW v \in AppendValues, AppendNew(p, k, v)
        PROVE  RemovalIsReported
    <3> DEFINE h == HashOf[k]
    <3>1. k \in Keys /\ h \in Hashes /\ Hashes \ InHand = Hashes /\ p \in Procs
      BY AtLabel, HashesAreKeys, ShardAssumption, <2>2 DEF AppendNew
    <3>2. ~IsCollision(shard, k)
      BY <1>1, <3>1, HitEntry DEF IsCollision, AppendsAlone
    <3>3. shard.hashmap[h] = 0
      BY <2>2, <3>2 DEF AppendNew, IsMiss
    <3>4. InHand' = {h}
      <4>1. lock' = p /\ local'[p].key = k
        BY <1>1, <2>2 DEF AppendNew, Goto
      <4> QED
        BY <4>1 DEF InHand
    <3>5. notified' = EvictionOf(shard, clock) /\ shard' = onEvict(shard, clock)
      BY <2>2 DEF AppendNew
    <3> HIDE DEF h
    <3>6. Covers(shard, Hashes \ {h})
      <4> SUFFICES ASSUME NEW c \in Live(shard.entries), c.data.hash # 0
                   PROVE  c.data.hash \in Hashes \ {h} /\ shard.hashmap[c.data.hash] = c.at
        BY DEF Covers
      <4>1. c.data.hash \in Hashes /\ shard.hashmap[c.data.hash] = c.at /\ c.at # 0
        BY <1>1, <3>1, LiveEntries DEF Covers
      <4> QED
        BY <3>3, <4>1
    <3>7. Reports(shard, shard', notified', Hashes \ {h})
      BY <1>1, <3>5, <3>6, EvictionReported
    <3> QED
      BY <1>1, <3>4, <3>7, ReportedMeans
  <2>3. CASE SetLock(p)
    <3> DEFINE h == HashOf[local[p].key]
    <3>1. h \in Hashes /\ Hashes \ InHand = Hashes /\ p \in Procs
      BY AtLabel, HashesAreKeys, <2>3 DEF SetLock
    <3>2. /\ notified' = EvictionOf(ResetPrevious(shard, h), local[p].now)
          /\ shard' = onEvict(ResetPrevious(shard, h), local[p].now)
      BY <2>3 DEF SetLock
    <3>3. InHand' = {h}
      <4>1. lock' = p /\ local'[p].key = local[p].key
        BY <1>1, <2>3 DEF SetLock, Goto
      <4> QED
        BY <4>1 DEF InHand
    <3> HIDE DEF h
    <3>4. Reports(shard, shard', notified', Hashes \ {h})
      BY <1>1, <3>1, <3>2, ReplacingReported
    <3> QED
      BY <1>1, <3>3, <3>4, ReportedMeans
  <2>4. CASE \/ \E k \in Keys, v \in Values : SetStart(p, k, v)
             \/ \E k \in AppendKeys : AppendError(p, k)
             \/ \E k \in Keys : GetMiss(p, k) \/ GetHit(p, k) \/ DelCheck(p, k)
             \/ PushTooBig(p)
    <3>1. notified' = {} /\ shard' = shard
      BY <2>4 DEF SetStart, AppendError, GetMiss, GetHit, DelCheck, PushTooBig
    <3> QED
      BY <1>2, <3>1
  <2>5. CASE hit(p)
    <3>1. HashOf[local[p].key] \in Hashes
      BY <2>5, AtLabel, HashesAreKeys DEF hit
    <3>2. notified' = {} /\ shard'.hashmap = shard.hashmap
      BY <1>1, <2>5, <3>1, HitCounted DEF hit
    <3> QED
      BY <1>2, <3>2
  <2>6. CASE reset(p)
    BY <2>6 DEF RemovalIsReported
  <2>7. CASE PushEntry(p)
    <3> DEFINE c == local[p]
    <3>1. /\ c.key \in Keys /\ c.w.len \in Nat /\ c.w.len >= minimumHeaderSize - 1
          /\ c.w.data \in Entry
      BY <2>7, AtLabel DEF PushEntry
    <3>2. ~PushFails(shard.entries, Need(c.w.len)) /\ ~Holed(shard.entries, Need(c.w.len))
      BY <2>7 DEF PushEntry, Undisturbed
    <3>3. Adds(shard, shard', c.key, c.w.len, c.w.data)
      BY <1>1, <2>7, <3>1, <3>2, Pushed DEF PushEntry
    <3> HIDE DEF c
    <3>4. \A h \in Hashes : shard'.hashmap[h] = 0 => shard.hashmap[h] = 0
      BY <3>3 DEF Adds
    <3>5. notified' = {}
      BY <2>7 DEF PushEntry
    <3> QED
      BY <1>2, <3>4, <3>5
  <2>8. CASE PushEvicts(p)
    <3>1. /\ HasOldest(shard) /\ shard' = removeOldestEntry(shard)
          /\ notified' = RemovalOf(shard, "NoSpace") /\ InHand' = InHand
      BY <2>8 DEF PushEvicts, InHand
    <3>2. Reports(shard, shard', notified', Hashes \ InHand)
      <4> DEFINE hashes == Hashes \ InHand
      <4>1. hashes \in SUBSET Hashes /\ Covers(shard, hashes)
        BY <1>1
      <4> HIDE DEF hashes
      <4>2. Reports(shard, shard', notified', hashes)
        BY <1>1, <3>1, <4>1, RemovalReported
      <4> QED
        BY <4>2 DEF hashes
    <3> QED
      BY <1>1, <3>1, <3>2, ReportedMeans
  <2>9. CASE DelLock(p)
    <3> DEFINE h == HashOf[local[p].key]
               b == getWrappedEntry(shard, h)
    <3>1. /\ local[p].key \in Keys /\ h \in Hashes /\ Hashes \ InHand = Hashes
      BY AtLabel, HashesAreKeys, <2>9 DEF DelLock
    <3>2. InHand' = {}
      BY <2>9, ShardAssumption DEF DelLock, InHand, Procs
    <3>3. CASE notified' = {} /\ UNCHANGED shard
      BY <1>2, <3>3
    <3>4. CASE /\ IsStored(shard, h) /\ shard' = Forget(resetKeyFromEntry(shard, h), h)
               /\ notified' = {[entry |-> b.data, reason |-> "Deleted"]}
      <4>1. b \in Live(shard.entries) /\ b.data.hash = h /\ b.at = shard.hashmap[h]
        <5>1. Points(shard, latest, {h})
          BY <1>1, <3>1 DEF Points
        <5> QED
          BY <1>1, <3>1, <3>4, <5>1, PreviousReset DEF IsEntryOf
      <4>2. shard'.hashmap = [i \in Hashes |-> IF i = h THEN 0 ELSE shard.hashmap[i]]
        <5> DEFINE m == resetKeyFromEntry(shard, h)
        <5>1. Sound(m) /\ m.hashmap = shard.hashmap
          BY <1>1, <3>1, <3>4, PreviousReset DEF Marks, Points
        <5>2. shard' = Forget(m, h)
          BY <3>4
        <5> HIDE DEF m, h
        <5>3. shard'.hashmap = [i \in Hashes |-> IF i = h THEN 0 ELSE m.hashmap[i]]
          BY <3>1, <5>1, <5>2 DEF Forget, Sound, Shards
        <5> QED
          BY <5>1, <5>3
      <4>3. notified' # {} /\ \A n \in notified' : n.entry = b.data
        BY <3>4
      <4> HIDE DEF b, h
      <4>4. Reports(shard, shard', notified', Hashes)
        BY <3>1, <4>1, <4>2, <4>3 DEF Reports
      <4> QED
        BY <1>1, <3>2, <4>4, ReportedMeans
    <3> QED
      BY <2>9, <3>3, <3>4 DEF DelLock
  <2> QED
    BY <1>3, <2>1, <2>2, <2>3, <2>4, <2>5, <2>6, <2>7, <2>8, <2>9 DEF Worker, Acquire, Holding
<1>4. CASE CleanStart \/ CleanLock \/ CleanEnd \/ Tick
  <2>1. notified' = {} /\ shard' = shard
    BY <1>4 DEF CleanStart, CleanLock, CleanEnd, Tick
  <2> QED
    BY <1>2, <2>1
<1>5. CASE CleanEvict
  <2>1. /\ shard' = onEvict(shard, local[Janitor].now) /\ InHand' = InHand
        /\ notified' = EvictionOf(shard, local[Janitor].now)
    BY <1>5 DEF CleanEvict, InHand
  <2> DEFINE hashes == Hashes \ InHand
  <2>2. hashes \in SUBSET Hashes /\ Covers(shard, hashes)
    BY <1>1
  <2> HIDE DEF hashes
  <2>3. Reports(shard, shard', notified', hashes)
    BY <1>1, <2>1, <2>2, EvictionReported
  <2> QED
    BY <1>1, <2>1, <2>3, ReportedMeans DEF hashes
<1> QED
  BY <1>3, <1>4, <1>5 DEF Next

\* OnRemove is told of an entry exactly when its hash leaves the hashmap other
\* than by Reset (config.go:37), and of the entry that was there.
THEOREM RemovalsReported ==
  ASSUME Data = Entry, AppendsAlone
  PROVE  Spec /\ []Undisturbed => RemovalsAreReported
<1>1. Inv /\ Undisturbed /\ [Next]_vars => [RemovalIsReported]_vars
  BY NextReports
<1> QED
  BY <1>1, Invariance, PTL DEF Spec, RemovalsAreReported

-----------------------------------------------------------------------------
(* A shard is a map that may lose entries.                                 *)

SeenIn(s, h) ==
  IF IsStored(s, h) THEN [getWrappedEntry(s, h).data EXCEPT !.hash = h] ELSE Zeroes

\* What is seen under these hashes stays as it is or is lost.
Fades(s, r, hashes) == \A h \in hashes : SeenIn(r, h) \in {SeenIn(s, h), Zeroes}

\* An entry that is popped is forgotten, or was of no hash.
LEMMA RemovalFades ==
  ASSUME Data = Entry, NEW s, Sound(s), HasOldest(s)
  PROVE  Fades(s, removeOldestEntry(s), Hashes)
<1> DEFINE r == removeOldestEntry(s)
<1>1. Removes(s, r, Peek(s.entries))
  BY OldestRemoved
<1>2. /\ r.entries.array = s.entries.array
      /\ \A h \in Hashes : r.hashmap[h] \in {0, s.hashmap[h]}
  BY <1>1 DEF Removes
<1>3. r.entries = Pop(s.entries)
  BY DEF removeOldestEntry, Forget, Sound, Shards
<1>4. /\ r.entries.capacity = s.entries.capacity
      /\ s.entries.count # 0
  BY <1>3 DEF Pop, HasOldest, peekCheckErr, Sound, Shards, Queues
<1> HIDE DEF r
<1>5. \A h \in Hashes : IsStored(r, h) => IsStored(s, h) /\ r.hashmap[h] = s.hashmap[h]
  BY <1>2, <1>4 DEF IsStored, IsMiss, IsError, peekCheckErr
<1>6. \A h \in Hashes : r.hashmap[h] = s.hashmap[h] => getWrappedEntry(r, h) = getWrappedEntry(s, h)
  BY <1>2 DEF getWrappedEntry, Get
<1>7. Fades(s, r, Hashes)
  BY <1>5, <1>6 DEF Fades, SeenIn
<1> QED
  BY <1>7 DEF r

LEMMA EvictionFades ==
  ASSUME Data = Entry, NEW s, Sound(s), NEW now
  PROVE  Fades(s, onEvict(s, now), Hashes)
BY RemovalFades DEF onEvict, Evicts, Fades

LEMMA FadesOn ==
  ASSUME NEW s, NEW m, NEW r, NEW hashes, Fades(s, m, hashes), Fades(m, r, hashes)
  PROVE  Fades(s, r, hashes)
BY DEF Fades

\* What is seen when the hashmap points to the entry of the hash.
LEMMA EntrySeen ==
  ASSUME Data = Entry, NEW s, Sound(s), NEW b \in Live(s.entries), NEW h \in Hashes,
         s.hashmap[h] = b.at
  PROVE  SeenIn(s, h) = [b.data EXCEPT !.hash = h]
BY LiveEntries DEF SeenIn, IsStored, IsMiss, IsError, getWrappedEntry

\* Marking the entry of a hash changes nothing that is seen.
LEMMA MarkingFades ==
  ASSUME Data = Entry, NEW s, Sound(s), NEW given, Points(s, given, Hashes), NEW h \in Hashes,
         NEW r, Marks(s, r, h)
  PROVE  Fades(s, r, Hashes)
<1> SUFFICES ASSUME NEW i \in Hashes PROVE SeenIn(r, i) \in {SeenIn(s, i), Zeroes}
  BY DEF Fades
<1>1. CASE r = s
  BY <1>1
<1>2. ASSUME NEW b \in Live(s.entries), b.at = s.hashmap[h], b.data.hash = h,
             Live(r.entries) = (Live(s.entries) \ {b}) \cup {Unmarked(b)},
             Sound(r), r.hashmap = s.hashmap
      PROVE  SeenIn(r, i) \in {SeenIn(s, i), Zeroes}
  <2>1. CASE s.hashmap[i] = 0
    BY <1>2, <2>1 DEF SeenIn, IsStored, IsMiss
  <2>2. CASE s.hashmap[i] # 0
    <3>1. PICK c \in Live(s.entries) : c.at = s.hashmap[i] /\ c.data.hash = i
      BY <2>2 DEF Points, IsEntryOf
    <3>2. SeenIn(s, i) = [c.data EXCEPT !.hash = i]
      BY <3>1, EntrySeen
    <3>3. CASE c = b
      <4> DEFINE u == Unmarked(b)
      <4>1. u \in Live(r.entries) /\ u.at = b.at /\ u.data = [b.data EXCEPT !.hash = 0]
        BY <1>2 DEF Unmarked
      <4> HIDE DEF u
      <4>2. SeenIn(r, i) = [u.data EXCEPT !.hash = i]
        <5>1. r.hashmap[i] = u.at /\ u \in Live(r.entries) /\ Sound(r)
          BY <1>2, <3>1, <3>3, <4>1
        <5> QED
          BY <5>1, EntrySeen
      <4>3. b.data \in Entry
        BY LiveEntries
      <4>4. [[b.data EXCEPT !.hash = 0] EXCEPT !.hash = i] = [b.data EXCEPT !.hash = i]
        BY <4>3 DEF Entry
      <4> QED
        BY <3>2, <3>3, <4>1, <4>2, <4>4
    <3>4. CASE c # b
      <4>1. c \in Live(r.entries)
        BY <1>2, <3>4
      <4>2. SeenIn(r, i) = [c.data EXCEPT !.hash = i]
        BY <1>2, <3>1, <4>1, EntrySeen
      <4> QED
        BY <3>2, <4>2
    <3> QED
      BY <3>3, <3>4
  <2> QED
    BY <2>1, <2>2
<1> QED
  BY <1>1, <1>2 DEF Marks

LEMMA ReplacingFades ==
  ASSUME Data = Entry, NEW s, Sound(s), NEW given, Points(s, given, Hashes), NEW h \in Hashes,
         NEW now
  PROVE  Fades(s, onEvict(ResetPrevious(s, h), now), Hashes)
<1> DEFINE m == ResetPrevious(s, h)
<1>1. Points(s, given, {h})
  BY DEF Points
<1>2. Marks(s, m, h)
  BY <1>1, PreviousReset
<1> HIDE DEF m
<1>3. Sound(m) /\ Fades(s, m, Hashes)
  BY <1>2, MarkingFades DEF Marks
<1>4. Fades(m, onEvict(m, now), Hashes)
  BY <1>3, EvictionFades
<1>5. Fades(s, onEvict(m, now), Hashes)
  BY <1>3, <1>4, FadesOn
<1> QED
  BY <1>5 DEF m

\* A push writes the entry of its key, and keeps every other.
LEMMA AdditionWrites ==
  ASSUME Data = Entry, NEW s, Sound(s), NEW given, NEW key \in Keys,
         Points(s, given, Hashes \ {HashOf[key]}),
         NEW len, NEW data \in Entry, data.key = key, NEW r, Adds(s, r, key, len, data)
  PROVE  /\ Fades(s, r, Hashes \ {HashOf[key]})
         /\ SeenIn(r, HashOf[key]) # Zeroes /\ SeenIn(r, HashOf[key]).key = key
<1> DEFINE h == HashOf[key]
<1>1. PICK at \in Nat \ {0} :
        LET b == [at |-> at, len |-> len, data |-> data]
        IN  /\ b \in Live(r.entries)
            /\ r.hashmap = [i \in Hashes |-> IF i = h THEN at ELSE s.hashmap[i]]
  BY DEF Adds
<1> DEFINE b == [at |-> at, len |-> len, data |-> data]
<1>2. /\ b.at = at /\ b.data = data /\ b \in Live(r.entries) /\ Sound(r)
      /\ Live(s.entries) \subseteq Live(r.entries) /\ h \in Hashes /\ NoKey \notin Keys
  BY <1>1, HashesAreKeys DEF Adds
<1> HIDE DEF b
<1>3. r.hashmap[h] = at
  BY <1>1, <1>2
<1>4. SeenIn(r, h) = [data EXCEPT !.hash = h]
  BY <1>2, <1>3, EntrySeen
<1>5. SeenIn(r, h).key = key /\ SeenIn(r, h) # Zeroes
  <2>1. [data EXCEPT !.hash = h].key = key
    BY DEF Entry
  <2> QED
    BY <1>2, <1>4, <2>1 DEF Zeroes
<1>6. ASSUME NEW i \in Hashes \ {h}
      PROVE  SeenIn(r, i) \in {SeenIn(s, i), Zeroes}
  <2>1. r.hashmap[i] = s.hashmap[i]
    BY <1>1, <1>6
  <2>2. CASE s.hashmap[i] = 0
    BY <2>1, <2>2 DEF SeenIn, IsStored, IsMiss
  <2>3. CASE s.hashmap[i] # 0
    <3>1. PICK c \in Live(s.entries) : c.at = s.hashmap[i]
      BY <1>6, <2>3 DEF Points
    <3>2. c \in Live(r.entries)
      BY <1>2, <3>1
    <3>3. SeenIn(s, i) = [c.data EXCEPT !.hash = i] /\ SeenIn(r, i) = [c.data EXCEPT !.hash = i]
      BY <1>2, <2>1, <3>1, <3>2, EntrySeen
    <3> QED
      BY <3>3
  <2> QED
    BY <2>2, <2>3
<1> QED
  BY <1>5, <1>6 DEF Fades

LEMMA NextFades ==
  ASSUME Data = Entry, Inv, Undisturbed, Next
  PROVE  \/ Fades(shard, shard', Hashes)
         \/ \E key \in Keys : /\ Fades(shard, shard', Hashes \ {HashOf[key]})
                              /\ SeenIn(shard', HashOf[key]) # Zeroes
                              /\ SeenIn(shard', HashOf[key]).key = key
<1>1. Sound(shard) /\ Points(shard, latest, Hashes \ InHand)
  BY DEF Inv, Matches
<1>2. ASSUME shard'.entries = shard.entries, \A h \in Hashes : shard'.hashmap[h] \in {0, shard.hashmap[h]}
      PROVE  Fades(shard, shard', Hashes)
  BY <1>2 DEF Fades, SeenIn, IsStored, IsMiss, IsError, getWrappedEntry
<1>3. ASSUME NEW p \in Workers, Worker(p), ~PushEntry(p)
      PROVE  Fades(shard, shard', Hashes)
  <2>1. ASSUME NEW k \in AppendKeys, NEW v \in AppendValues, AppendHit(p, k, v)
        PROVE  Fades(shard, shard', Hashes)
    <3> DEFINE h == HashOf[k]
               s == CountHit(shard, h)
    <3>1. /\ h \in Hashes /\ Hashes \ InHand = Hashes
      BY AtLabel, HashesAreKeys, ShardAssumption, <2>1 DEF AppendHit
    <3>2. Sound(s) /\ s.entries = shard.entries /\ s.hashmap = shard.hashmap
      BY <1>1, <3>1, HitCounted
    <3>3. shard' = onEvict(ResetPrevious(s, h), clock)
      BY <2>1 DEF AppendHit
    <3> HIDE DEF s, h
    <3>4. Points(s, latest, Hashes)
      BY <1>1, <3>1, <3>2 DEF Points
    <3>5. Fades(s, shard', Hashes)
      BY <3>1, <3>2, <3>3, <3>4, ReplacingFades
    <3>6. \A i \in Hashes : SeenIn(s, i) = SeenIn(shard, i)
      BY <3>2 DEF SeenIn, IsStored, IsMiss, IsError, getWrappedEntry
    <3> QED
      BY <3>5, <3>6 DEF Fades
  <2>2. CASE \E k \in AppendKeys, v \in AppendValues : AppendNew(p, k, v)
    BY <1>1, <2>2, EvictionFades DEF AppendNew
  <2>3. CASE SetLock(p)
    <3> DEFINE h == HashOf[local[p].key]
    <3>1. h \in Hashes /\ Hashes \ InHand = Hashes
      BY AtLabel, HashesAreKeys, <2>3 DEF SetLock
    <3>2. shard' = onEvict(ResetPrevious(shard, h), local[p].now)
      BY <2>3 DEF SetLock
    <3> HIDE DEF h
    <3> QED
      BY <1>1, <3>1, <3>2, ReplacingFades
  <2>4. CASE \/ \E k \in Keys, v \in Values : SetStart(p, k, v)
             \/ \E k \in AppendKeys : AppendError(p, k)
             \/ \E k \in Keys : GetMiss(p, k) \/ GetHit(p, k) \/ DelCheck(p, k)
             \/ PushTooBig(p)
    <3>1. shard' = shard
      BY <2>4 DEF SetStart, AppendError, GetMiss, GetHit, DelCheck, PushTooBig
    <3> QED
      BY <1>2, <3>1
  <2>5. CASE hit(p)
    <3>1. HashOf[local[p].key] \in Hashes
      BY <2>5, AtLabel, HashesAreKeys DEF hit
    <3>2. shard'.entries = shard.entries /\ shard'.hashmap = shard.hashmap
      BY <1>1, <2>5, <3>1, HitCounted DEF hit
    <3> QED
      BY <1>2, <3>2
  <2>6. CASE reset(p)
    <3>1. \A h \in Hashes : shard'.hashmap[h] = 0
      BY <1>1, <2>6 DEF reset, Sound, Shards
    <3> QED
      BY <3>1 DEF Fades, SeenIn, IsStored, IsMiss
  <2>7. CASE PushEvicts(p)
    BY <1>1, <2>7, RemovalFades DEF PushEvicts
  <2>8. CASE DelLock(p)
    <3> DEFINE h == HashOf[local[p].key]
    <3>1. h \in Hashes /\ Hashes \ InHand = Hashes
      BY AtLabel, HashesAreKeys, <2>8 DEF DelLock
    <3>2. CASE UNCHANGED shard
      BY <1>2, <3>2
    <3>3. CASE IsStored(shard, h) /\ shard' = Forget(resetKeyFromEntry(shard, h), h)
      <4> DEFINE m == ResetPrevious(shard, h)
      <4>1. Points(shard, latest, {h}) /\ Points(shard, latest, Hashes)
        BY <1>1, <3>1 DEF Points
      <4>2. Marks(shard, m, h) /\ shard' = Forget(m, h)
        BY <1>1, <3>1, <3>3, <4>1, PreviousReset
      <4> HIDE DEF m, h
      <4>3. Fades(shard, m, Hashes) /\ Sound(m)
        BY <1>1, <3>1, <4>1, <4>2, MarkingFades DEF Marks
      <4>4. shard'.entries = m.entries /\ \A i \in Hashes : shard'.hashmap[i] \in {0, m.hashmap[i]}
        BY <3>1, <4>2, <4>3 DEF Forget, Sound, Shards
      <4>5. Fades(m, shard', Hashes)
        BY <4>4 DEF Fades, SeenIn, IsStored, IsMiss, IsError, getWrappedEntry
      <4> QED
        BY <4>3, <4>5, FadesOn
    <3> QED
      BY <2>8, <3>2, <3>3 DEF DelLock
  <2> QED
    BY <1>3, <2>1, <2>2, <2>3, <2>4, <2>5, <2>6, <2>7, <2>8 DEF Worker, Acquire, Holding
<1>4. ASSUME NEW p \in Workers, PushEntry(p)
      PROVE  \E key \in Keys : /\ Fades(shard, shard', Hashes \ {HashOf[key]})
                               /\ SeenIn(shard', HashOf[key]) # Zeroes
                               /\ SeenIn(shard', HashOf[key]).key = key
  <2> DEFINE c == local[p]
  <2>1. /\ c.key \in Keys /\ c.w.len \in Nat /\ c.w.len >= minimumHeaderSize - 1
        /\ c.w.data \in Entry /\ c.w.data.key = c.key /\ InHand = {HashOf[c.key]}
    BY <1>4, AtLabel DEF PushEntry
  <2>2. ~PushFails(shard.entries, Need(c.w.len)) /\ ~Holed(shard.entries, Need(c.w.len))
    BY <1>4 DEF PushEntry, Undisturbed
  <2>3. Adds(shard, shard', c.key, c.w.len, c.w.data)
    BY <1>1, <1>4, <2>1, <2>2, Pushed DEF PushEntry
  <2> HIDE DEF c
  <2>4. Points(shard, latest, Hashes \ {HashOf[c.key]})
    BY <1>1, <2>1
  <2> QED
    BY <1>1, <2>1, <2>3, <2>4, AdditionWrites
<1>5. CASE CleanStart \/ CleanLock \/ CleanEnd \/ Tick
  BY <1>2, <1>5 DEF CleanStart, CleanLock, CleanEnd, Tick
<1>6. CASE CleanEvict
  BY <1>1, <1>6, EvictionFades DEF CleanEvict
<1> QED
  BY <1>3, <1>4, <1>5, <1>6 DEF Next

\* To those who share it a shard is a map from hashes to entries that may lose
\* them: no step of a push, an eviction or a reallocation changes the entry
\* under a hash for another, or brings one back, but the write of a key.
THEOREM PromiseKept ==
  ASSUME Data = Entry
  PROVE  Spec /\ []Undisturbed => ShardKeepsPromise
<1> DEFINE store == [h \in Hashes |-> Seen(h)]
<1>1. Promise!Hashes = Hashes
  BY DEF Promise!Hashes, Hashes
<1>2. Init => store = Promise!Empty
  BY <1>1 DEF Init, Promise!Empty, Seen, IsStored, IsMiss
<1>3. Inv /\ Undisturbed /\ [Next]_vars => [Promise!Next]_store
  <2>1. ASSUME Inv, Undisturbed, Next
        PROVE  Promise!Next
    <3>1. \A h \in Hashes : store[h] = SeenIn(shard, h)
      BY DEF Seen, SeenIn
    <3>2. \A h \in Hashes : store'[h] = SeenIn(shard', h)
      BY DEF Seen, SeenIn
    <3> HIDE DEF store
    <3>3. CASE Fades(shard, shard', Hashes)
      <4>1. \A h \in Hashes : store'[h] \in {store[h], Zeroes}
        BY <3>1, <3>2, <3>3 DEF Fades
      <4> QED
        BY <1>1, <4>1 DEF Promise!Next, Promise!Lose, Promise!OnlyLoses, store
    <3>4. ASSUME NEW key \in Keys, Fades(shard, shard', Hashes \ {HashOf[key]}),
                 SeenIn(shard', HashOf[key]) # Zeroes, SeenIn(shard', HashOf[key]).key = key
          PROVE  Promise!Next
      <4>1. \A h \in Hashes \ {HashOf[key]} : store'[h] \in {store[h], Zeroes}
        BY <3>1, <3>2, <3>4 DEF Fades
      <4>2. store'[HashOf[key]] # Zeroes /\ store'[HashOf[key]].key = key
        BY <3>2, <3>4, HashesAreKeys
      <4>3. Promise!Write(key)
        BY <1>1, <4>1, <4>2 DEF Promise!Write, Promise!OnlyLoses, store
      <4> QED
        BY <4>3 DEF Promise!Next
    <3> QED
      BY <2>1, <3>3, <3>4, NextFades
  <2>2. ASSUME UNCHANGED vars PROVE UNCHANGED store
    BY <2>2 DEF vars, Seen, IsStored, IsMiss, IsError, getWrappedEntry
  <2> HIDE DEF store
  <2> QED
    BY <2>1, <2>2
<1> QED
  BY <1>2, <1>3, Invariance, PTL DEF Spec, ShardKeepsPromise, Promise!Spec
=============================================================================
