--------------------------- MODULE TwoQueueCache ---------------------------
(***************************************************************************)
(* The 2Q cache of golang-lru (src/golang-lru/2q.go): keys that have been  *)
(* used once are in recent, those used again in frequent, and recentEvict  *)
(* has the ghosts of keys evicted from recent.  Every method holds the     *)
(* lock throughout, so that a call is one step; there is one action for    *)
(* each of its ways.                                                       *)
(***************************************************************************)
EXTENDS SimpleLRU, LRUSizes

VARIABLES
  recent, frequent, recentEvict,
  recentSize,    \* the share of recent, which stays what New2QParams makes it
  uses    \* history: how often each key was used since it was new, 2 for more

twoQueueVars == <<recent, frequent, recentEvict, recentSize, uses>>

TwoQueueInit ==
  /\ recent = NewLRU(Size)
  /\ frequent = NewLRU(Size)
  /\ recentEvict = NewLRU(GhostSize)
  /\ recentSize \in RecentSizes
  /\ uses = [k \in Keys |-> 0]

CountUse(key) == uses' = [uses EXCEPT ![key] = IF @ = 2 THEN 2 ELSE @ + 1]

HasRoom == Length(recent) + Length(frequent) < Size

\* Faulty: gives up the recent keys last.
EvictsRecentLate(ghost) ==
  Length(recent) > 0 /\ Length(recent) > recentSize /\ Length(frequent) = 0

\* The target of ensureSpace is recent, or it is frequent.
EvictsRecent(ghost) ==
  /\ Length(recent) > 0
  /\ \/ Length(recent) > recentSize
     \/ Length(recent) = recentSize /\ ~ghost

\* What ensureSpace makes of the three lists.
RecentAfter(ghost) ==
  IF ~HasRoom /\ EvictsRecent(ghost) THEN removeOldest(recent) ELSE recent
FrequentAfter(ghost) ==
  IF ~HasRoom /\ ~EvictsRecent(ghost) THEN removeOldest(frequent) ELSE frequent
GhostsAfter(ghost) ==
  IF ~HasRoom /\ EvictsRecent(ghost)
  THEN Add(recentEvict, Oldest(recent).key, Nil) ELSE recentEvict

\* Get and Add of a frequent key.
GetFrequent(key) ==
  /\ Contains(frequent, key)
  /\ frequent' = Get(frequent, key)
  /\ CountUse(key)
  /\ UNCHANGED <<recent, recentEvict>>

AddFrequent(key, value) ==
  /\ Contains(frequent, key)
  /\ frequent' = Add(frequent, key, value)
  /\ CountUse(key)
  /\ UNCHANGED <<recent, recentEvict>>

\* Get and Add of a recent key promote it: Get with the value it has.
TwoQueuePromote(key, value) ==
  /\ ~Contains(frequent, key) /\ Contains(recent, key)
  /\ recent' = Remove(recent, key)
  /\ frequent' = Add(frequent, key, value)
  /\ CountUse(key)
  /\ UNCHANGED recentEvict

\* Faulty: makes room in the cache, as Add does for a new key.
GetRecentMakesRoom(key) ==
  /\ ~Contains(frequent, key) /\ Contains(recent, key)
  /\ recent' = Remove(RecentAfter(FALSE), key)
  /\ frequent' = Add(FrequentAfter(FALSE), key, Peek(recent, key))
  /\ CountUse(key)
  /\ UNCHANGED recentEvict

GetRecent(key)        == Contains(recent, key) /\ TwoQueuePromote(key, Peek(recent, key))
AddRecent(key, value) == TwoQueuePromote(key, value)

\* Faulty: adds the key to recent.
AddGhostRecent(key, value) ==
  /\ ~Contains(frequent, key) /\ ~Contains(recent, key) /\ Contains(recentEvict, key)
  /\ recent' = Add(RecentAfter(TRUE), key, value)
  /\ frequent' = FrequentAfter(TRUE)
  /\ recentEvict' = Remove(GhostsAfter(TRUE), key)
  /\ CountUse(key)

\* Add of a key that has a ghost.
AddGhost(key, value) ==
  /\ ~Contains(frequent, key) /\ ~Contains(recent, key) /\ Contains(recentEvict, key)
  /\ recent' = RecentAfter(TRUE)
  /\ frequent' = Add(FrequentAfter(TRUE), key, value)
  /\ recentEvict' = Remove(GhostsAfter(TRUE), key)
  /\ CountUse(key)

\* Add of any other key.
TwoQueueAddNew(key, value) ==
  /\ ~Contains(frequent, key) /\ ~Contains(recent, key) /\ ~Contains(recentEvict, key)
  /\ recent' = Add(RecentAfter(FALSE), key, value)
  /\ frequent' = FrequentAfter(FALSE)
  /\ recentEvict' = GhostsAfter(FALSE)
  /\ uses' = [uses EXCEPT ![key] = 1]

\* Remove tries frequent, recent and recentEvict, and stops at the first that
\* has the key.
TwoQueueRemoveKey(key) ==
  /\ \/ /\ Contains(frequent, key)
        /\ frequent' = Remove(frequent, key)
        /\ UNCHANGED <<recent, recentEvict>>
     \/ /\ ~Contains(frequent, key) /\ Contains(recent, key)
        /\ recent' = Remove(recent, key)
        /\ UNCHANGED <<frequent, recentEvict>>
     \/ /\ ~Contains(frequent, key) /\ ~Contains(recent, key)
        /\ recentEvict' = Remove(recentEvict, key)
        /\ UNCHANGED <<recent, frequent>>
  /\ uses' = [uses EXCEPT ![key] = 0]

TwoQueuePurgeAll ==
  /\ recent' = Purge(recent)
  /\ frequent' = Purge(frequent)
  /\ recentEvict' = Purge(recentEvict)
  /\ uses' = [k \in Keys |-> 0]

TwoQueueAdd(key, value) ==
  \/ AddFrequent(key, value) \/ AddRecent(key, value)
  \/ AddGhost(key, value)    \/ TwoQueueAddNew(key, value)

TwoQueueGet(key) == GetFrequent(key) \/ GetRecent(key)

TwoQueueNext ==
  /\ \/ \E key \in Keys, value \in Values : TwoQueueAdd(key, value)
     \/ \E key \in Keys : TwoQueueGet(key) \/ TwoQueueRemoveKey(key)
     \/ TwoQueuePurgeAll
  /\ UNCHANGED recentSize

TwoQueueSpec == TwoQueueInit /\ [][TwoQueueNext]_twoQueueVars

-----------------------------------------------------------------------------

\* The three lists are well formed, and no key is in two of them: it is
\* resident once, or it is a ghost.
TwoQueueKeyInOneList ==
  /\ \A c \in {recent, frequent, recentEvict} : IsLRU(c) /\ Consistent(c) /\ Bounded(c)
  /\ recent.items \cap frequent.items = {}
  /\ (recent.items \cup frequent.items) \cap recentEvict.items = {}

\* The two resident lists share one budget, the size; but with a recentRatio
\* of 1, ensureSpace may find the frequent list empty and remove nothing.
TwoQueueSpare == IF recentSize = Size THEN 1 ELSE 0
TwoQueueSizeIsShared == Length(recent) + Length(frequent) <= Size + TwoQueueSpare

\* What 2Q is for: a key that has been used once cannot be in frequent, and
\* one that has been used again cannot be left in recent.
TwoQueueFrequentIsEarned ==
  /\ \A key \in recent.items : uses[key] = 1
  /\ \A key \in frequent.items : uses[key] = 2

\* "This avoids a burst in access to new entries from evicting frequently used
\* entries" (2q.go:23): a new key takes the place of a frequent one only while
\* the recent keys have not got their share, or there are none.
TwoQueueBurstIsHarmless ==
  \A key \in Keys :
    key \notin recent.items /\ key \in recent'.items
      /\ Length(frequent') < Length(frequent)
      => Length(recent') <= recentSize \/ recent.items = {}

TwoQueueBurstsAreHarmless == [][TwoQueueBurstIsHarmless]_twoQueueVars

TwoQueuePeekKey(key) ==
  IF Contains(frequent, key) THEN Peek(frequent, key) ELSE Peek(recent, key)

\* The mapping from keys to values: Keys, and what Peek gives for them.
TwoQueueHeld == [key \in frequent.items \cup recent.items |-> TwoQueuePeekKey(key)]

\* A 2Q is a lossy cache: what is promoted keeps its value.
TwoQueuePromise ==
  INSTANCE LossyCache WITH content <- TwoQueueHeld, size <- Size, spare <- TwoQueueSpare

\* Each method does what it promises: a Get promotes a key without losing one,
\* unless there are too many, and Add loses no more than it must (2q.go:87, 109).
TwoQueueCallIsKept ==
  /\ \A key \in Keys, value \in Values : TwoQueueAdd(key, value) => TwoQueuePromise!Add(key, value)
  /\ \A key \in Keys : TwoQueueGet(key) => TwoQueuePromise!Get(key)
  /\ \A key \in Keys : TwoQueueRemoveKey(key) => TwoQueuePromise!Remove(key)
  /\ TwoQueuePurgeAll => TwoQueuePromise!Purge

TwoQueueKeepsPromise == TwoQueuePromise!Spec /\ [][TwoQueueCallIsKept]_twoQueueVars
=============================================================================
