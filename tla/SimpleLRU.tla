----------------------------- MODULE SimpleLRU -----------------------------
(***************************************************************************)
(* The LRU of golang-lru (src/golang-lru/simplelru/lru.go) as a value: the *)
(* evictList with its most recently used element first, the keys of the    *)
(* items map, and the size.  One operator per method, which gives what the *)
(* method makes of the cache.  LRUCache, TwoQueueCache and ARCCache are    *)
(* built from it.                                                          *)
(***************************************************************************)
EXTENDS Naturals, Sequences

CONSTANTS
  Keys,
  Values,
  Nil        \* the value of a ghost entry

Seqs == INSTANCE SequencesExt

NewLRU(size) == [size |-> size, evictList |-> <<>>, items |-> {}]

KeysOf(list) == {list[i].key : i \in DOMAIN list}

Position(list, key) == CHOOSE i \in DOMAIN list : list[i].key = key

Contains(c, key) == key \in c.items

Peek(c, key) == c.evictList[Position(c.evictList, key)].value

Length(c) == Len(c.evictList)

\* Takes an element out of the list and its key out of the map.
removeElement(c, i) ==
  [c EXCEPT !.evictList = Seqs!RemoveAt(@, i), !.items = @ \ {c.evictList[i].key}]

Oldest(c) == c.evictList[Length(c)]

\* RemoveOldest returns the element that removeOldest removes.
removeOldest(c) == IF c.evictList = <<>> THEN c ELSE removeElement(c, Length(c))

\* Gives a key that is there its value, at the front.
MoveToFront(c, key, value) ==
  LET i == Position(c.evictList, key)
  IN  [c EXCEPT !.evictList = <<[key |-> key, value |-> value]>> \o Seqs!RemoveAt(@, i)]

PushFront(c, key, value) ==
  [c EXCEPT !.evictList = <<[key |-> key, value |-> value]>> \o @,
            !.items = @ \cup {key}]

\* A new key evicts the oldest when there is one too many.
Evicts(c, key) == ~Contains(c, key) /\ Length(c) + 1 > c.size

\* Faulty: updates a value without moving the key.
AddInPlace(c, key, value) ==
  IF Contains(c, key)
  THEN [c EXCEPT !.evictList[Position(c.evictList, key)].value = value]
  ELSE IF Evicts(c, key) THEN removeOldest(PushFront(c, key, value))
       ELSE PushFront(c, key, value)

Add(c, key, value) ==
  IF Contains(c, key) THEN MoveToFront(c, key, value)
  ELSE IF Evicts(c, key) THEN removeOldest(PushFront(c, key, value))
       ELSE PushFront(c, key, value)

Get(c, key) == IF Contains(c, key) THEN MoveToFront(c, key, Peek(c, key)) ELSE c

Remove(c, key) ==
  IF Contains(c, key) THEN removeElement(c, Position(c.evictList, key)) ELSE c

\* What Resize removes, one removeOldest at a time.
Excess(c, size) == IF Length(c) > size THEN Length(c) - size ELSE 0

Resize(c, size) ==
  LET kept == SubSeq(c.evictList, 1, Length(c) - Excess(c, size))
  IN  [size |-> size, evictList |-> kept,
       items |-> c.items \ (KeysOf(c.evictList) \ KeysOf(kept))]

Purge(c) == NewLRU(c.size)

-----------------------------------------------------------------------------
(* What is true of an LRU between calls.                                   *)

Entries == [key : Keys, value : Values \cup {Nil}]

IsLRU(c) ==
  /\ c = [size |-> c.size, evictList |-> c.evictList, items |-> c.items]
  /\ c.size \in Nat
  /\ c.evictList \in Seq(Entries)
  /\ c.items \subseteq Keys

\* Each key has one element, and the map has the keys of the list.
Consistent(c) ==
  /\ \A i, j \in DOMAIN c.evictList :
       c.evictList[i].key = c.evictList[j].key => i = j
  /\ c.items = KeysOf(c.evictList)

Bounded(c) == Length(c) <= c.size

\* The mapping from keys to values.
Content(c) == [key \in c.items |-> Peek(c, key)]
=============================================================================
