------------------------------ MODULE BigCache ------------------------------
(***************************************************************************)
(* The front end of bigcache (src/bigcache/bigcache.go) and its iterator   *)
(* (iterator.go).  Each shard is the map that ShardMap promises: a write   *)
(* of a key and a deletion are one step, and entries may go at any time.   *)
(* Reset empties one shard after the other, and the iteration copies the   *)
(* hashes of one shard and reads their entries later, one at each SetNext. *)
(***************************************************************************)
EXTENDS Integers

CONSTANTS
  Keys,
  HashOf,      \* the hash of each key
  NumShards,   \* Config.Shards
  Readers,     \* the goroutines that share one iterator
  NoOne,       \* the iterator's mutex is free
  NoKey,       \* there is no entry
  MaxWrites    \* bounds the writes

Hashes == {HashOf[k] : k \in Keys}
Shards == 0 .. NumShards - 1

ASSUME BigCacheAssumption ==
  /\ HashOf \in [Keys -> Nat \ {0}]
  /\ NumShards \in Nat \ {0}
  /\ NoOne \notin Readers /\ NoKey \notin Keys
  /\ MaxWrites \in Nat

VARIABLES
  stored,      \* for each hash the key whose entry its shard has, or NoKey
  writes,      \* the writes so far
  resetting,   \* the next shard that Reset empties, NumShards when none runs
  it,          \* the iterator: its shard, the hashes it has yet to visit, the
               \* hash of currentEntryInfo (None for an empty one), and valid
  mutex,       \* who holds its mutex
  readers,     \* where each reader is in SetNext
  stable,      \* history: the hashes that had an entry ever since Iterator
  handed,      \* history: how often SetNext moved to each hash
  ended        \* history: SetNext has returned false

cacheVars == <<stored, writes, resetting>>
iterVars  == <<it, mutex, readers, handed, ended>>
allVars   == <<cacheVars, iterVars, stable>>

Idle == [pc |-> "idle"]
None == 0    \* not a hash
NoIterator == [shard |-> -1, todo |-> {}, current |-> None, valid |-> FALSE]

\* The shard of a hash: hashedKey & shardMask.
getShard(hash) == hash % NumShards

Stored == {h \in Hashes : stored[h] # NoKey}

copyHashedKeys(shard) == {h \in Stored : getShard(h) = shard}

CacheInit ==
  /\ stored = [h \in Hashes |-> NoKey]
  /\ writes = 0
  /\ resetting = NumShards
  /\ it = NoIterator
  /\ mutex = NoOne
  /\ readers = [r \in Readers |-> Idle]
  /\ stable = {}
  /\ handed = [h \in Hashes |-> 0]
  /\ ended = FALSE

-----------------------------------------------------------------------------
(* The cache.                                                              *)

\* Entries change, and those that had one before still have it or not.
StoredBecomes(entries) ==
  /\ stored' = entries
  /\ stable' = {h \in stable : entries[h] # NoKey}

Without(hashes) == [h \in Hashes |-> IF h \in hashes THEN NoKey ELSE stored[h]]

\* Set and Append.
Set(key) ==
  /\ writes < MaxWrites
  /\ writes' = writes + 1
  /\ StoredBecomes([stored EXCEPT ![HashOf[key]] = key])
  /\ UNCHANGED <<resetting, iterVars>>

\* Delete; an entry that is evicted as another is written, or that cleanUp finds
\* expired.
Delete(hash) ==
  /\ hash \in Stored
  /\ StoredBecomes(Without({hash}))
  /\ UNCHANGED <<writes, resetting, iterVars>>

ResetStart ==
  /\ resetting = NumShards
  /\ resetting' = 0
  /\ UNCHANGED <<stored, writes, stable, iterVars>>

ResetShard ==
  /\ resetting < NumShards
  /\ StoredBecomes(Without(copyHashedKeys(resetting)))
  /\ resetting' = resetting + 1
  /\ UNCHANGED <<writes, iterVars>>

-----------------------------------------------------------------------------
(* The iterator.  The hashes that copyHashedKeys found come in the order   *)
(* of a Go map, so the next one is any that has not been visited.          *)

Goto(r, where) == readers' = [readers EXCEPT ![r] = where]

\* Iterator: newIterator copies the hashes of the first shard.
NewIterator ==
  /\ it = NoIterator
  /\ it' = [NoIterator EXCEPT !.shard = 0, !.todo = copyHashedKeys(0)]
  /\ stable' = Stored
  /\ UNCHANGED <<cacheVars, mutex, readers, handed, ended>>

SetNext(r) ==
  /\ it # NoIterator /\ readers[r].pc = "idle"
  /\ Goto(r, [pc |-> "lock"])
  /\ UNCHANGED <<cacheVars, it, mutex, stable, handed, ended>>

\* Faulty: does not move on.
MoveToStays(r, shard, hashes) ==
  \E h \in hashes :
    /\ it' = [it EXCEPT !.shard = shard, !.todo = hashes, !.valid = TRUE]
    /\ Goto(r, [pc |-> "entry", hash |-> h])

\* SetNext has a hash whose entry it is about to read.
MoveTo(r, shard, hashes) ==
  \E h \in hashes :
    /\ it' = [it EXCEPT !.shard = shard, !.todo = hashes \ {h}, !.valid = TRUE]
    /\ Goto(r, [pc |-> "entry", hash |-> h])

\* It takes the mutex, and goes on with the hashes that are left, ...
NextOfShard(r) ==
  /\ readers[r].pc = "lock" /\ mutex = NoOne
  /\ it.todo # {}
  /\ mutex' = r
  /\ MoveTo(r, it.shard, it.todo)
  /\ UNCHANGED <<cacheVars, stable, handed, ended>>

\* ... or, if there are none, with the next shard.
NoneInShard(r) ==
  /\ readers[r].pc = "lock" /\ mutex = NoOne
  /\ it.todo = {}
  /\ mutex' = r
  /\ it' = [it EXCEPT !.valid = FALSE]
  /\ Goto(r, [pc |-> "scan", shard |-> it.shard + 1])
  /\ UNCHANGED <<cacheVars, stable, handed, ended>>

ScanFull(r) ==
  /\ readers[r].pc = "scan" /\ readers[r].shard < NumShards
  /\ copyHashedKeys(readers[r].shard) # {}
  /\ MoveTo(r, readers[r].shard, copyHashedKeys(readers[r].shard))
  /\ UNCHANGED <<cacheVars, mutex, stable, handed, ended>>

\* Faulty: skips the shard after an empty one.
ScanEmptySkips(r) ==
  /\ readers[r].pc = "scan" /\ readers[r].shard < NumShards
  /\ copyHashedKeys(readers[r].shard) = {}
  /\ Goto(r, [pc |-> "scan", shard |-> readers[r].shard + 2])
  /\ UNCHANGED <<cacheVars, it, mutex, stable, handed, ended>>

ScanEmpty(r) ==
  /\ readers[r].pc = "scan" /\ readers[r].shard < NumShards
  /\ copyHashedKeys(readers[r].shard) = {}
  /\ Goto(r, [pc |-> "scan", shard |-> readers[r].shard + 1])
  /\ UNCHANGED <<cacheVars, it, mutex, stable, handed, ended>>

\* There is no shard left: false.
ScanEnd(r) ==
  /\ readers[r].pc = "scan" /\ readers[r].shard >= NumShards
  /\ mutex' = NoOne
  /\ ended' = TRUE
  /\ Goto(r, Idle)
  /\ UNCHANGED <<cacheVars, it, stable, handed>>

\* setCurrentEntry: the entry is there, ...  An error other than that it is not,
\* which Value returns, comes only of an offset that the queue refuses, as a
\* refused Push may leave one in the hashmap (Shard); ShardMap has no such state.
EntryFound(r) ==
  /\ readers[r].pc = "entry" /\ readers[r].hash \in Stored
  /\ handed' = [handed EXCEPT ![readers[r].hash] = @ + 1]
  /\ it' = [it EXCEPT !.current = readers[r].hash]
  /\ mutex' = NoOne
  /\ Goto(r, Idle)
  /\ UNCHANGED <<cacheVars, stable, ended>>

\* Faulty: takes the hash up again.
EntryGoneRetried(r) ==
  /\ readers[r].pc = "entry" /\ readers[r].hash \notin Stored
  /\ mutex' = NoOne
  /\ it' = [it EXCEPT !.current = None, !.todo = @ \cup {readers[r].hash}]
  /\ Goto(r, [pc |-> "lock"])
  /\ UNCHANGED <<cacheVars, stable, handed, ended>>

\* ... or it has gone meanwhile, and SetNext calls itself without the mutex.
EntryGone(r) ==
  /\ readers[r].pc = "entry" /\ readers[r].hash \notin Stored
  /\ it' = [it EXCEPT !.current = None]
  /\ mutex' = NoOne
  /\ Goto(r, [pc |-> "lock"])
  /\ UNCHANGED <<cacheVars, stable, handed, ended>>

-----------------------------------------------------------------------------

\* What a call of SetNext does by itself.
Lock(r)   == NextOfShard(r) \/ NoneInShard(r)
Moving(r) == ScanFull(r) \/ ScanEmpty(r) \/ ScanEnd(r) \/ EntryFound(r) \/ EntryGone(r)

Cache ==
  \/ \E key \in Keys : Set(key)
  \/ \E hash \in Hashes : Delete(hash)
  \/ ResetStart \/ ResetShard

Iteration ==
  \/ NewIterator
  \/ \E r \in Readers : SetNext(r) \/ Lock(r) \/ Moving(r)

CacheNext == Cache \/ Iteration

CacheSpec == CacheInit /\ [][CacheNext]_allVars

\* A goroutine runs on, and sync.Mutex lets in those who wait.
Fairness == \A r \in Readers : SF_allVars(Lock(r)) /\ WF_allVars(Moving(r))

FairSpec == CacheSpec /\ Fairness

-----------------------------------------------------------------------------

\* An iteration that has come to its end has moved to every hash that had an
\* entry all the time, "from whole cache" (bigcache.go:215), whatever was
\* written, deleted or evicted meanwhile, and whoever took the steps.
StableKeysAreSeen == ended => \A h \in stable : handed[h] > 0

\* No entry is handed out twice, whoever shares the iterator and whatever comes
\* into the shards it has left behind.
NoEntryTwice == \A h \in Hashes : handed[h] <= 1

\* SetNext returns (iterator.go:63): it calls itself for each entry that has
\* gone, but the hashes it has copied come to an end, however many are written.
SetNextReturns == \A r \in Readers : readers[r].pc # "idle" ~> readers[r].pc = "idle"
=============================================================================
