------------------------------- MODULE Shard -------------------------------
(***************************************************************************)
(* A shard of bigcache (src/bigcache/shard.go): a hashmap from the hash of *)
(* a key to the index of its entry in a BytesQueue, under one RWMutex.     *)
(*                                                                         *)
(* What runs under the lock is one step, except that each turn of the      *)
(* loops that push and clean up is one; what happens before a lock is      *)
(* taken (a read of the clock) or between two acquisitions is another.     *)
(* The atomic counters commute with everything and are bumped with a       *)
(* neighbouring step.  Workers call the methods; the janitor is the        *)
(* goroutine of newBigCache that calls cleanUp with the time of a tick.    *)
(***************************************************************************)
EXTENDS BytesQueue, Sequences

CONSTANTS
  Workers,       \* goroutines that use the cache
  Janitor,       \* the goroutine of the CleanWindow ticker
  NoOne,         \* the lock is free
  Methods,       \* what the workers call
  Keys,
  NoKey,         \* the key read from zeroed bytes
  HashOf,        \* the hash of each key; 0 is taken by resetKeyFromEntry
  KeyLen,        \* the length of every key
  Values,        \* what is written
  ValueLen,      \* the length of each value
  AppendKeys,    \* the keys Append is called with
  AppendValues,  \* and what it appends
  LifeWindow,    \* seconds an entry lives
  StatsEnabled,  \* Config.StatsEnabled
  WordSize,      \* the modulus of the unsigned timestamps, 2^64 in the code
  MaxClock,      \* bound: the last second
  MaxLag,        \* bound: seconds between a read of the clock and its use
  MaxOps         \* bound: calls of the workers

Hashes == {HashOf[k] : k \in Keys}
Procs  == Workers \cup {Janitor}

\* What the bytes of an entry say: wrapEntry puts a timestamp, a hash, the
\* length of the key and the key in front of the value.  Appending makes a
\* value of several pieces.
Entry ==
  [ts : Nat, hash : Hashes \cup {0}, key : Keys \cup {NoKey}, val : Seq(Values)]

\* The bytes of the empty entry that fills a gap.
Zeroes == [ts |-> 0, hash |-> 0, key |-> NoKey, val |-> <<>>]

ASSUME ShardAssumption ==
  /\ Janitor \notin Workers /\ NoOne \notin Procs /\ NoKey \notin Keys
  /\ HashOf \in [Keys -> Nat \ {0}]
  /\ ValueLen \in [Values -> Nat]
  /\ AppendKeys \subseteq Keys /\ AppendValues \subseteq Values
  /\ StatsEnabled \in BOOLEAN
  /\ {KeyLen, LifeWindow, WordSize, MaxClock, MaxLag, MaxOps} \subseteq Nat
  /\ LifeWindow < WordSize - MaxClock
  /\ ZeroBlob = Zeroes

VARIABLES
  shard,     \* what the lock guards: hashmap, entries and hashmapStats
  stats,     \* the atomic counters
  lock,      \* who holds the write lock
  clock,     \* clock.Epoch()
  pc,        \* where each goroutine is
  local,     \* the arguments and local variables of its call
  ops,       \* calls made so far
  notified,  \* the call of onRemove in the last step, if there was one
  latest     \* history: the value each key was last given, <<>> for none

vars == <<shard, stats, lock, clock, pc, local, ops, notified, latest>>

-----------------------------------------------------------------------------
(* The entries of a shard.                                                 *)

headersSizeInBytes == 18

wrapEntry(now, key, val) ==
  [len  |-> headersSizeInBytes + KeyLen + ValueLen[val],
   data |-> [ts |-> now, hash |-> HashOf[key], key |-> key, val |-> <<val>>]]

\* The key and the hash are copied from the entry that is there.
appendToWrappedEntry(now, block, val) ==
  [len  |-> block.len + ValueLen[val],
   data |-> [block.data EXCEPT !.ts = now, !.val = Append(@, val)]]

\* Unsigned subtraction: a timestamp that is later than now is very old.
Age(now, ts) == (now - ts) % WordSize

\* Nothing is at the index: a key that is not there, or the error of the
\* queue that it gets for an index that no longer means anything.
IsMiss(s, hash)   == s.hashmap[hash] = 0
IsError(s, hash)  == ~IsMiss(s, hash) /\ peekCheckErr(s.entries, s.hashmap[hash])
IsStored(s, hash) == ~IsMiss(s, hash) /\ ~IsError(s, hash)

getWrappedEntry(s, hash) == Get(s.entries, s.hashmap[hash])

\* The entry under the hash of a key may be that of another key.
IsHit(s, key) ==
  IsStored(s, HashOf[key]) /\ getWrappedEntry(s, HashOf[key]).data.key = key
IsCollision(s, key) ==
  IsStored(s, HashOf[key]) /\ getWrappedEntry(s, HashOf[key]).data.key # key

\* Marks the entry of a hash, where it lies, as one that is not in the
\* hashmap any more.
resetKeyFromEntry(s, hash) ==
  [s EXCEPT !.entries.array =
     {IF b.at = s.hashmap[hash] THEN [b EXCEPT !.data.hash = 0] ELSE b : b \in @}]

\* Faulty: leaves the entry that is replaced as it is.
PreviousLeft(s, hash) == s

\* What set does with the entry it replaces.
ResetPrevious(s, hash) ==
  IF IsStored(s, hash) THEN resetKeyFromEntry(s, hash) ELSE s

\* Faulty: takes it out of hashmapStats alone.
ForgetStats(s, hash) ==
  [s EXCEPT !.hashmapStats[hash] = IF StatsEnabled THEN 0 ELSE @]

\* Takes a hash out of the maps.
Forget(s, hash) ==
  [s EXCEPT !.hashmap[hash] = 0,
            !.hashmapStats[hash] = IF StatsEnabled THEN 0 ELSE @]

HasOldest(s) == ~peekCheckErr(s.entries, s.entries.head)
Oldest(s)    == Peek(s.entries).data

\* Faulty: peeks at the oldest entry where it should pop it.
removeOldestEntryPeeked(s) ==
  IF Oldest(s).hash = 0 THEN s ELSE Forget(s, Oldest(s).hash)

removeOldestEntry(s) ==
  LET popped == [s EXCEPT !.entries = Pop(@)]
  IN  IF Oldest(s).hash = 0 THEN popped ELSE Forget(popped, Oldest(s).hash)

\* Faulty: reports the entries that were marked too.
RemovalOfAny(s, reason) == {[entry |-> Oldest(s), reason |-> reason]}

\* The call of onRemove that goes with it.
RemovalOf(s, reason) ==
  IF Oldest(s).hash = 0 THEN {} ELSE {[entry |-> Oldest(s), reason |-> reason]}

\* Faulty: evicts an entry in its last second.
EvictsEarly(s, now) == HasOldest(s) /\ Age(now, Oldest(s).ts) >= LifeWindow

\* The oldest entry has outlived its window.
Evicts(s, now) == HasOldest(s) /\ Age(now, Oldest(s).ts) > LifeWindow

onEvict(s, now) == IF Evicts(s, now) THEN removeOldestEntry(s) ELSE s

EvictionOf(s, now) == IF Evicts(s, now) THEN RemovalOf(s, "Expired") ELSE {}

CountHit(s, hash) ==
  IF StatsEnabled THEN [s EXCEPT !.hashmapStats[hash] = @ + 1] ELSE s

-----------------------------------------------------------------------------

NoStats == [hits |-> 0, misses |-> 0, delhits |-> 0, delmisses |-> 0, collisions |-> 0]
Idle    == [key |-> NoKey, now |-> 0]

Init ==
  /\ shard = [hashmap |-> [h \in Hashes |-> 0], entries |-> NewBytesQueue,
              hashmapStats |-> [h \in Hashes |-> 0]]
  /\ stats = NoStats
  /\ lock = NoOne
  /\ clock = 0
  /\ pc = [p \in Procs |-> "idle"]
  /\ local = [p \in Procs |-> Idle]
  /\ ops = 0
  /\ notified = {}
  /\ latest = [k \in Keys |-> <<>>]

\* A worker makes a call.
Calls(p, method) ==
  /\ method \in Methods
  /\ pc[p] = "idle"
  /\ ops < MaxOps
  /\ ops' = ops + 1

Goto(p, label, locals) ==
  /\ pc' = [pc EXCEPT ![p] = label]
  /\ local' = [local EXCEPT ![p] = locals]

Return(p) == Goto(p, "idle", Idle)

Count(counter) == stats' = [stats EXCEPT ![counter] = @ + 1]

-----------------------------------------------------------------------------
(* set and append.                                                         *)

\* set reads the clock before it takes the lock.
SetStart(p, k, v) ==
  /\ Calls(p, "Set")
  /\ Goto(p, "set", [key |-> k, now |-> clock, val |-> v])
  /\ notified' = {}
  /\ UNCHANGED <<shard, stats, lock, clock, latest>>

\* The lock is taken, the previous entry is marked, and the oldest one may go.
SetLock(p) ==
  LET c == local[p]
      s == ResetPrevious(shard, HashOf[c.key])
  IN  /\ pc[p] = "set"
      /\ lock = NoOne
      /\ lock' = p
      /\ shard' = onEvict(s, c.now)
      /\ notified' = EvictionOf(s, c.now)
      /\ Goto(p, "push", [key |-> c.key, now |-> c.now,
                          w |-> wrapEntry(c.now, c.key, c.val)])
      /\ UNCHANGED <<stats, clock, ops, latest>>

\* append takes the lock, and finds the key: the entry is replaced by one
\* that is longer (setWrappedEntryWithoutLock).
AppendHit(p, k, v) ==
  LET hash == HashOf[k]
      s    == ResetPrevious(CountHit(shard, hash), hash)
  IN  /\ Calls(p, "Append")
      /\ lock = NoOne
      /\ IsHit(shard, k)
      /\ lock' = p
      /\ shard' = onEvict(s, clock)
      /\ notified' = EvictionOf(s, clock)
      /\ Count("hits")
      /\ Goto(p, "push", [key |-> k, now |-> clock,
                          w |-> appendToWrappedEntry(clock, getWrappedEntry(shard, hash), v)])
      /\ UNCHANGED <<clock, latest>>

\* append does not find the key, and adds it (addNewWithoutLock).  An entry
\* of another key with the same hash is not marked.
AppendNew(p, k, v) ==
  /\ Calls(p, "Append")
  /\ lock = NoOne
  /\ \/ IsMiss(shard, HashOf[k]) /\ Count("misses")
     \/ IsCollision(shard, k)    /\ Count("collisions")
  /\ lock' = p
  /\ shard' = onEvict(shard, clock)
  /\ notified' = EvictionOf(shard, clock)
  /\ Goto(p, "push", [key |-> k, now |-> clock, w |-> wrapEntry(clock, k, v)])
  /\ UNCHANGED <<clock, latest>>

AppendError(p, k) ==
  /\ Calls(p, "Append")
  /\ lock = NoOne
  /\ IsError(shard, HashOf[k])
  /\ Count("misses")
  /\ notified' = {}
  /\ UNCHANGED <<shard, lock, clock, pc, local, latest>>

\* The three ways of a turn of the loop that pushes: the entry fits, ...
PushEntry(p) ==
  LET c == local[p]
  IN  /\ pc[p] = "push"
      /\ ~PushFails(shard.entries, Need(c.w.len))
      /\ shard' = [shard EXCEPT
                     !.entries = Push(@, c.w.len, c.w.data),
                     !.hashmap[HashOf[c.key]] = PushIndex(shard.entries, c.w.len)]
      /\ latest' = [latest EXCEPT ![c.key] = c.w.data.val]
      /\ lock' = NoOne
      /\ notified' = {}
      /\ Return(p)
      /\ UNCHANGED <<stats, clock, ops>>

\* ... the oldest entry makes room, ...
PushEvicts(p) ==
  /\ pc[p] = "push"
  /\ PushFails(shard.entries, Need(local[p].w.len))
  /\ HasOldest(shard)
  /\ shard' = removeOldestEntry(shard)
  /\ notified' = RemovalOf(shard, "NoSpace")
  /\ UNCHANGED <<stats, lock, clock, pc, local, ops, latest>>

\* ... or there is none left: "entry is bigger than max shard size".
PushTooBig(p) ==
  /\ pc[p] = "push"
  /\ PushFails(shard.entries, Need(local[p].w.len))
  /\ ~HasOldest(shard)
  /\ lock' = NoOne
  /\ notified' = {}
  /\ Return(p)
  /\ UNCHANGED <<shard, stats, clock, ops, latest>>

-----------------------------------------------------------------------------
(* get and getWithInfo, which change the same state.                       *)

GetMiss(p, k) ==
  /\ Calls(p, "Get")
  /\ lock = NoOne
  /\ \/ IsMiss(shard, HashOf[k])  /\ Count("misses")
     \/ IsError(shard, HashOf[k]) /\ Count("misses")
     \/ IsCollision(shard, k)     /\ Count("collisions")
  /\ notified' = {}
  /\ UNCHANGED <<shard, lock, clock, pc, local, latest>>

\* The value is copied under the read lock; hit takes the write lock later.
GetHit(p, k) ==
  /\ Calls(p, "Get")
  /\ lock = NoOne
  /\ IsHit(shard, k)
  /\ Count("hits")
  /\ IF StatsEnabled THEN Goto(p, "hit", [key |-> k, now |-> clock])
                     ELSE UNCHANGED <<pc, local>>
  /\ notified' = {}
  /\ UNCHANGED <<shard, lock, clock, latest>>

hit(p) ==
  /\ pc[p] = "hit"
  /\ lock = NoOne
  /\ shard' = CountHit(shard, HashOf[local[p].key])
  /\ notified' = {}
  /\ Return(p)
  /\ UNCHANGED <<stats, lock, clock, ops, latest>>

-----------------------------------------------------------------------------
(* del.                                                                    *)

\* The check under the read lock.
DelCheck(p, k) ==
  /\ Calls(p, "Delete")
  /\ lock = NoOne
  /\ \/ /\ IsStored(shard, HashOf[k])
        /\ Goto(p, "del", [key |-> k, now |-> clock])
        /\ UNCHANGED stats
     \/ /\ ~IsStored(shard, HashOf[k])
        /\ Count("delmisses")
        /\ UNCHANGED <<pc, local>>
  /\ notified' = {}
  /\ UNCHANGED <<shard, lock, clock, latest>>

\* The same again under the write lock.  The key of the entry is not
\* compared: whatever is under the hash goes.
DelLock(p) ==
  LET hash == HashOf[local[p].key]
  IN  /\ pc[p] = "del"
      /\ lock = NoOne
      /\ \/ /\ IsStored(shard, hash)
            /\ shard' = Forget(resetKeyFromEntry(shard, hash), hash)
            /\ notified' = {[entry |-> getWrappedEntry(shard, hash).data,
                             reason |-> "Deleted"]}
            /\ latest' = [latest EXCEPT ![local[p].key] = <<>>]
            /\ Count("delhits")
         \/ /\ ~IsStored(shard, hash)
            /\ notified' = {}
            /\ Count("delmisses")
            /\ UNCHANGED <<shard, latest>>
      /\ Return(p)
      /\ UNCHANGED <<lock, clock, ops>>

-----------------------------------------------------------------------------
(* reset and cleanUp.                                                      *)

\* hashmapStats is not made anew.
reset(p) ==
  /\ Calls(p, "Reset")
  /\ lock = NoOne
  /\ shard' = [shard EXCEPT !.hashmap = [h \in Hashes |-> 0], !.entries = Reset(@)]
  /\ latest' = [k \in Keys |-> <<>>]
  /\ notified' = {}
  /\ UNCHANGED <<stats, lock, clock, pc, local>>

\* The ticker has sent a time.
CleanStart ==
  /\ pc[Janitor] = "idle"
  /\ Goto(Janitor, "clean", [key |-> NoKey, now |-> clock])
  /\ notified' = {}
  /\ UNCHANGED <<shard, stats, lock, clock, ops, latest>>

CleanLock ==
  /\ pc[Janitor] = "clean"
  /\ lock = NoOne
  /\ lock' = Janitor
  /\ Goto(Janitor, "cleaning", local[Janitor])
  /\ notified' = {}
  /\ UNCHANGED <<shard, stats, clock, ops, latest>>

\* Faulty: removes one entry at each tick.
CleanEvictOnce ==
  /\ pc[Janitor] = "cleaning"
  /\ Evicts(shard, local[Janitor].now)
  /\ shard' = onEvict(shard, local[Janitor].now)
  /\ notified' = EvictionOf(shard, local[Janitor].now)
  /\ lock' = NoOne
  /\ Return(Janitor)
  /\ UNCHANGED <<stats, clock, ops, latest>>

\* A turn of the loop, and the one that ends it.
CleanEvict ==
  /\ pc[Janitor] = "cleaning"
  /\ Evicts(shard, local[Janitor].now)
  /\ shard' = onEvict(shard, local[Janitor].now)
  /\ notified' = EvictionOf(shard, local[Janitor].now)
  /\ UNCHANGED <<stats, lock, clock, pc, local, ops, latest>>

\* Faulty: does not unlock.
CleanEndLocked ==
  /\ pc[Janitor] = "cleaning"
  /\ ~Evicts(shard, local[Janitor].now)
  /\ notified' = {}
  /\ Return(Janitor)
  /\ UNCHANGED <<shard, stats, lock, clock, ops, latest>>

CleanEnd ==
  /\ pc[Janitor] = "cleaning"
  /\ ~Evicts(shard, local[Janitor].now)
  /\ lock' = NoOne
  /\ notified' = {}
  /\ Return(Janitor)
  /\ UNCHANGED <<shard, stats, clock, ops, latest>>

-----------------------------------------------------------------------------

\* A second passes.  MaxLag bounds how long a goroutine that has read the
\* clock may wait for the lock.
Tick ==
  /\ clock < MaxClock
  /\ \A p \in Procs : pc[p] \in {"set", "clean"} => clock - local[p].now < MaxLag
  /\ clock' = clock + 1
  /\ notified' = {}
  /\ UNCHANGED <<shard, stats, lock, pc, local, ops, latest>>

\* The steps of a call that is under way.
Acquire(p) == SetLock(p) \/ hit(p) \/ DelLock(p)
Holding(p) == PushEntry(p) \/ PushEvicts(p) \/ PushTooBig(p)

Worker(p) ==
  \/ \E k \in Keys, v \in Values : SetStart(p, k, v)
  \/ \E k \in AppendKeys, v \in AppendValues : AppendHit(p, k, v) \/ AppendNew(p, k, v)
  \/ \E k \in AppendKeys : AppendError(p, k)
  \/ \E k \in Keys : GetMiss(p, k) \/ GetHit(p, k) \/ DelCheck(p, k)
  \/ reset(p)
  \/ Acquire(p)
  \/ Holding(p)

Next ==
  \/ \E p \in Workers : Worker(p)
  \/ CleanStart \/ CleanLock \/ CleanEvict \/ CleanEnd
  \/ Tick

Spec == Init /\ [][Next]_vars

\* A goroutine that holds the lock runs on, and sync.RWMutex passes the lock
\* on to one that waits for it.
Fairness ==
  /\ \A p \in Workers : SF_vars(Acquire(p)) /\ WF_vars(Holding(p))
  /\ SF_vars(CleanLock) /\ WF_vars(CleanEvict) /\ WF_vars(CleanEnd)

FairSpec == Spec /\ Fairness

-----------------------------------------------------------------------------
(* Safety.                                                                 *)

Notices == [entry : Entry, reason : {"Expired", "NoSpace", "Deleted"}]

\* The fields of the shard have their types, and the write lock is held by
\* the goroutine that is in a section it guards, and by no other.
TypeOK ==
  /\ shard.hashmap \in [Hashes -> Nat]
  /\ shard.hashmapStats \in [Hashes -> Nat]
  /\ IsQueue(shard.entries)
  /\ stats \in [DOMAIN NoStats -> Nat]
  /\ clock \in 0 .. MaxClock /\ ops \in 0 .. MaxOps
  /\ pc \in [Procs -> {"idle", "set", "push", "hit", "del", "clean", "cleaning"}]
  /\ \A p \in Procs : lock = p <=> pc[p] \in {"push", "cleaning"}
  /\ notified \subseteq Notices
  /\ latest \in [Keys -> Seq(Values)]

\* The hash that the holder of the lock is giving a new entry.
InHand == IF lock \in Workers THEN {HashOf[local[lock].key]} ELSE {}

Mapped == {<<h, shard.hashmap[h]>> : h \in {x \in Hashes \ InHand : ~IsMiss(shard, x)}}
Marked == {b \in Live(shard.entries) : b.data.hash \in Hashes \ InHand}

\* The hashmap points to the live entries that carry a hash, each to its own
\* and to nothing else, whatever was overwritten, deleted, evicted, expired or
\* moved by a reallocation: "a mapping of the hash of a key and the offset of
\* its value" (shard.go:20).  So no entry leaks, and no popped index is read.
MapMatchesEntries == Mapped = {<<b.data.hash, b.at>> : b \in Marked}

\* A read finds the value its key was last given, or nothing: an overwritten,
\* deleted or reset value never comes back, nor does that of another key.
ReadsLatest ==
  \A k \in Keys :
    IsHit(shard, k) /\ HashOf[k] \notin InHand =>
      getWrappedEntry(shard, HashOf[k]).data.val = latest[k]

\* OnRemove is told of an entry exactly when its hash leaves the hashmap other
\* than by Reset (config.go:37), and of the entry that was there.
RemovalIsReported ==
  LET gone     == {h \in Hashes \ InHand' : shard.hashmap[h] # 0 /\ shard'.hashmap[h] = 0}
      reported == {n \in notified' : n.entry.hash \notin InHand'}
  IN  \/ \E p \in Workers : reset(p)
      \/ /\ gone = {n.entry.hash : n \in reported}
         /\ \A n \in reported : n.entry = getWrappedEntry(shard, n.entry.hash).data

RemovalsAreReported == [][RemovalIsReported]_vars

\* An entry that onRemove is told has expired has outlived the LifeWindow.
ExpiredIsDead ==
  \A n \in notified : n.reason = "Expired" => clock - n.entry.ts > LifeWindow

\* "All the dead entries will be deleted" (README.md:95): a clean-up leaves no
\* entry that was dead when it began.
NoDeadAfterCleanUp ==
  pc[Janitor] = "cleaning" /\ pc'[Janitor] = "idle" =>
    \A b \in Live(shard.entries) : local[Janitor].now - b.data.ts <= LifeWindow

CleanUpLeavesNoDead == [][NoDeadAfterCleanUp]_vars

\* What a goroutine that gets the lock may find under a hash.  A write is seen
\* when it is complete: until then the entry it replaces is what it was.
Seen(hash) ==
  IF IsStored(shard, hash)
  THEN [getWrappedEntry(shard, hash).data EXCEPT !.hash = hash]
  ELSE Zeroes

Promise ==
  INSTANCE ShardMap WITH store <- [h \in Hashes |-> Seen(h)], Nothing <- Zeroes

\* To those who share it a shard is a map that may lose entries: no step of a
\* push, an eviction or a reallocation changes the entry under a hash for
\* another one, or brings one back, but the write of a key with that hash.
ShardKeepsPromise == Promise!Spec

-----------------------------------------------------------------------------
(* Liveness.                                                               *)

\* Every call returns: the loops under the lock end, and whoever waits for it
\* gets it.
CallsReturn == \A p \in Procs : pc[p] # "idle" ~> pc[p] = "idle"
=============================================================================
