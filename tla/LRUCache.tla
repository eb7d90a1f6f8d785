----------------------------- MODULE LRUCache -----------------------------
(***************************************************************************)
(* The Cache of golang-lru (src/golang-lru/lru.go): an LRU with a callback *)
(* under a lock that every method holds from its first line to its last,   *)
(* so that a call is one step.                                             *)
(***************************************************************************)
EXTENDS SimpleLRU, LRUSizes

VARIABLES
  lru,
  evicted,    \* the calls of onEvict in the last step
  usedAfter   \* history: the pairs of keys of which the first was used later

lruVars == <<lru, evicted, usedAfter>>

LRUInit ==
  /\ lru = NewLRU(InitSize)
  /\ evicted = {}
  /\ usedAfter = {}

Use(key) ==
  usedAfter' = {pair \in usedAfter : pair[2] # key /\ pair[1] # key}
                 \cup {<<key, other>> : other \in Keys \ {key}}

\* The callback of the entries of a set of positions.
Calls(positions) == evicted' = {lru.evictList[i] : i \in positions}

\* Faulty: reports the value that is overwritten as evicted.
CacheAddReported(key, value) ==
  /\ lru' = Add(lru, key, value)
  /\ Calls(IF Contains(lru, key) THEN {Position(lru.evictList, key)}
           ELSE IF Evicts(lru, key) THEN {Length(lru)} ELSE {})
  /\ Use(key)

\* ContainsOrAdd and PeekOrAdd do this when the key is not there, and nothing
\* when it is.
CacheAdd(key, value) ==
  /\ lru' = Add(lru, key, value)
  /\ Calls(IF Evicts(lru, key) THEN {Length(lru)} ELSE {})
  /\ Use(key)

CacheGet(key) ==
  /\ lru' = Get(lru, key)
  /\ evicted' = {}
  /\ IF Contains(lru, key) THEN Use(key) ELSE UNCHANGED usedAfter

CacheRemove(key) ==
  /\ Contains(lru, key)
  /\ lru' = Remove(lru, key)
  /\ Calls({Position(lru.evictList, key)})
  /\ UNCHANGED usedAfter

CacheRemoveOldest ==
  /\ lru.evictList # <<>>
  /\ lru' = removeOldest(lru)
  /\ Calls({Length(lru)})
  /\ UNCHANGED usedAfter

CacheResize(size) ==
  /\ lru' = Resize(lru, size)
  /\ Calls({i \in DOMAIN lru.evictList : i > Length(lru) - Excess(lru, size)})
  /\ UNCHANGED usedAfter

CachePurge ==
  /\ lru' = Purge(lru)
  /\ Calls(DOMAIN lru.evictList)
  /\ UNCHANGED usedAfter

LRUNext ==
  \/ \E key \in Keys, value \in Values : CacheAdd(key, value)
  \/ \E key \in Keys : CacheGet(key) \/ CacheRemove(key)
  \/ CacheRemoveOldest
  \/ \E size \in Sizes : CacheResize(size)
  \/ CachePurge

LRUSpec == LRUInit /\ [][LRUNext]_lruVars

-----------------------------------------------------------------------------

\* The list and the map of lru.go describe the same keys, once each, and there
\* are never more than the size, which Resize may change.
ListMatchesItems == IsLRU(lru) /\ Consistent(lru) /\ Bounded(lru)

\* The list is in the order of use, so that what Add, RemoveOldest and Resize
\* remove are the least recently used keys.
LRUOrderIsRecency ==
  \A i, j \in DOMAIN lru.evictList :
    i < j => <<lru.evictList[i].key, lru.evictList[j].key>> \in usedAfter

\* onEvict is called with every entry that goes, with its value, and with no
\* other: not with one whose value is overwritten.
LRUEvictionIsReported ==
  evicted' = {lru.evictList[i] :
                i \in {j \in DOMAIN lru.evictList :
                         lru.evictList[j].key \notin KeysOf(lru'.evictList)}}

LRUEvictionsAreReported == [][LRUEvictionIsReported]_lruVars

\* An LRU is a lossy cache of its size: what is used, evicted to make room or
\* resized keeps its value.
LRUPromise == INSTANCE LossyCache WITH content <- Content(lru), size <- lru.size, spare <- 0

\* Each method does what it promises.  A Get that adds nothing loses nothing, and
\* Add and Resize lose no more than they must (simplelru/lru.go:51, 149).
LRUCallIsKept ==
  /\ \A key \in Keys, value \in Values : CacheAdd(key, value) => LRUPromise!Add(key, value)
  /\ \A key \in Keys : CacheGet(key) => LRUPromise!Get(key)
  /\ \A key \in Keys : CacheRemove(key) => LRUPromise!Remove(key)
  /\ CacheRemoveOldest => LRUPromise!Remove(Oldest(lru).key)
  /\ \A size \in Sizes : CacheResize(size) => LRUPromise!Resize(size)
  /\ CachePurge => LRUPromise!Purge

LRUKeepsPromise == LRUPromise!Spec /\ [][LRUCallIsKept]_lruVars
=============================================================================
