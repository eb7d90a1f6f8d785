# Specifications of cache-read-record

The repository holds annotated copies of four in-memory caches for Go: bigcache,
golang-lru, groupcache and go-cache. This directory holds TLA+ modules that model them,
TLC configurations that check the modules on small instances, and proofs of what holds of
them in general.

`tlc -config X.cfg M` checks module `M` with the configuration `X.cfg`; `tlapm M.tla` checks
the proofs of module `M`. `PROJECT.json` lists the components, the runs, the definition each
property is sensitive to, the source lines behind every definition, the findings and the
theorems.

## The system

| Component | State | Operations | What is hard | What makes it correct |
|---|---|---|---|---|
| bigcache byte queue (`bigcache/queue`) | one byte array, `head`, `tail`, `rightMargin`, `count`, `full`, `capacity` | `Push`, `Pop`, `Peek`, `Get`, `Reset`, reallocation | pointer arithmetic of a ring whose entries have headers of 1 to 5 bytes; full and empty look alike; growing moves pointers | an index stays good until its entry is popped; blocks do not overlap; pops follow pushes |
| bigcache shard (`bigcache/shard.go`) | `hashmap` from hash to index, the queue, statistics, an `RWMutex` | `get`, `set`, `append`, `del`, `reset`, `cleanUp` | the clock is read outside the lock; `del` and `hit` take two locks in turn; entries are marked, not removed; hashes collide; a push may fail half way | hashmap and queue agree; reads see the last write; removals are reported; expiry follows the `LifeWindow` |
| bigcache front end (`bigcache/bigcache.go`) | the shards, a janitor goroutine, the callbacks | routing by hash, sums over shards, `Close` | the janitor races the callers | the clean-up removes the dead and nothing else |
| bigcache iterator | a shard, its hashes that are left, the current entry, a mutex | `Iterator`, `SetNext`, `Value` | hashes are copied and read later; the mutex is given up between entries | it comes to all that stays, to nothing twice, and to an end |
| bigcache server | none | HTTP handlers | - | - |
| golang-lru `simplelru` | a list and a map | `Add`, `Get`, `Remove`, `RemoveOldest`, `Resize`, `Purge` | list and map must agree | size bound, order of eviction, one callback per eviction |
| golang-lru 2Q, ARC | three and four LRUs, the target `p` | `Get`, `Add`, `Remove`, `Purge` | a key moves between lists; adaptation of `p` | a key is in one list; the size is bounded |
| groupcache group | main and hot cache, statistics | `Get`, `load`, `populateCache` | several goroutines and peers; failures of peers; byte accounting | one load per key at a time; byte counts; size bound |
| groupcache sinks and views | the buffer behind a value | `SetString`, `SetBytes`, `SetProto`, `setView` of five sinks; `ByteSlice`, `Slice` | a view is cached and handed out, while getters and callers write their buffers | what is cached stays what was loaded; every sink ends with the value |
| groupcache singleflight, lru, consistent hash, HTTP pool | calls under way; list and map; ring of hashes; peers | `Do`; `Add`, `Get`, `Remove`; `Add`, `Get`; `Set`, `PickPeer` | waiting calls; panics; collisions of hashes | nobody waits for ever; a key has one owner |
| go-cache | items with expiry, callback, janitor | `Set`, `Add`, `Replace`, `Get`, `Increment*`, `Delete*`, `Load`, `Flush` | callbacks run outside the lock; wrapping integers; stopping the janitor | expired items are not returned; each removal is reported once |
| go-cache sharded | one cache for each bucket, a janitor, its stop channel | as go-cache, by bucket; `DeleteExpired` and `Flush` over all | buckets are swept one after the other; the janitor makes its channel late | a sweep leaves nothing that was expired; the janitor can be stopped |

The four caches do not call each other. Inside bigcache the front end calls the shard, and
the shard is the only caller of the queue and holds its lock whenever it does. Inside
groupcache the group uses the LRU, the single flight and the peers, and peers find each other
through the consistent hash. The ARC and 2Q caches are built from `simplelru`.

## The modules

### The byte queue

* `BytesQueue` is the queue as a value: a record with the fields of the Go struct and one
  operator for each method, with its name. The array is abstracted to the set of *blocks* that
  can be read from it. A block has its position, its length and the data its bytes stand for;
  writing one destroys those it overlaps, and nothing else is ever erased, as in the code.
  All positions and lengths are the code's own numbers, headers of the uvarint encoding
  included.
* `BytesQueueSpec` calls `Push`, `Pop` and `Reset` in any order. `layout` records whether a
  reallocation has left a hole that no block covers (see *Findings*), and stops describing the
  queue once a `Pop` has read such a hole.
* `RotatingFifo` is what the queue promises: a sequence, to whose end `Push` adds. A growing
  push may rotate it first.
* `MCBytesQueue` has the refinement mapping: the items are the data of the live blocks, in the
  order `Pop` finds them. It also has the cache of `BigCache`; a behaviour uses one of the two.
* `BytesQueueLemmas` says what each method keeps and makes of a queue, and `BytesQueueProofs`
  has the proofs about the specification.

### The shard

`Shard` has the shard, its lock, the clock, and a program counter and locals for every
goroutine. A critical section is one step unless it has a loop, and then each turn is one:
goroutines that find the lock taken wait. Reading the clock before the lock (`set`, the ticker)
and the second lock of `del` and of `hit` are steps of their own, so everything may happen in
between. Atomic counters are bumped with the step next to them.

| Code | Actions |
|---|---|
| `set` | `SetStart` (clock), `SetLock` (mark the previous entry, evict an expired one), then `PushEntry`, `PushEvicts` or `PushTooBig` |
| `append` | `AppendHit` or `AppendNew` under the lock, then the same three; `AppendError` |
| `get`, `getWithInfo` | `GetHit`, then `hit` when statistics are on; `GetMiss` |
| `del` | `DelCheck` (read lock), `DelLock` (write lock) |
| `reset` | `reset` |
| ticker and `cleanUp` | `CleanStart`, `CleanLock`, `CleanEvict` for each entry, `CleanEnd` |

`wrapEntry` and the readers of `encoding.go` are records with their exact lengths;
`resetKeyFromEntry` zeroes the hash of the entry where it lies and leaves its key, as in the
code. A hash of 0 is not given to any key: the code takes it for the mark. `notified` holds the
calls of `onRemove` in the last step, and `latest` is a history variable with the value each key was last
given. The age of an entry is computed modulo `WordSize`, as the unsigned subtraction does.

`ShardMap` is what a shard promises to those who share it: a map in which a write of a key is
one step and entries may be lost at any time, and nothing lost comes back. `Shard` has the mapping (`Promise`):
the entries that the hashmap leads to. Steps that leave the map in the middle of its work, as
between a mark and a push, only lose entries. `ShardProofs` has the proofs, which use
`BytesQueueLemmas`.

### The front end and the iterator of bigcache

`BigCache` has several shards, each as `ShardMap` promises, and one iterator that goroutines
share. `getShard` is the hash modulo the number of shards. `Reset` empties the shards one after the
other. `SetNext` is a step to the mutex (`NextOfShard`, `NoneInShard`), then the search of
further shards (`ScanFull`, `ScanEmpty`, `ScanEnd`) or the reading of the entry (`EntryFound`,
`EntryGone`), with writes, evictions and resets in between; when the entry has gone the code
gives the mutex up and calls itself, so another goroutine may come first. `stable`, `handed` and
`ended` are history.

| Code | Actions |
|---|---|
| `Set`, `Append` | `Set` |
| `Delete`, evictions, `cleanUp` | `Delete` |
| `Reset` | `ResetStart`, `ResetShard` |
| `Iterator`, `newIterator` | `NewIterator` |
| `SetNext` | `SetNext`, `NextOfShard`, `NoneInShard`, `ScanFull`, `ScanEmpty`, `ScanEnd` |
| `setCurrentEntry` | `EntryFound`, `EntryGone` |

### golang-lru

* `SimpleLRU` is the LRU of `simplelru` as a value: its list and the keys of its map are kept
  apart, and every method changes both or not as the code does.
* `LRUCache`, `TwoQueueCache` and `ARCCache` are built from it. Every method of these caches
  holds the lock throughout, so a call is one step, and `Add` has one action for each of its
  ways. `LRUSizes` has the sizes they are made with and the assumption about them.
* `LossyCache` is what all three promise, call by call: `Add` gives its key its value, no key has
  another value than it was last given, `Remove` takes one key, and what other calls lose makes
  room: with it there were more keys than the size, and as many as the size are left. So a `Get`,
  which adds no key, loses none unless there was one too many.
  Each of the three has its mapping to it (`Promise`): what `Keys` and `Peek` give of the cache.
* `MCGolangLRU` runs any one of the three, and checks that it implements `LossyCache`, and that
  each of its calls implements the call of that name (`KeepsPromise`). An LRU has no key to spare;
  an ARC has one, and so has a 2Q with a `recentRatio` of 1: see finding 6.
* `GolangLRUProofs` has lemmas on what each method of `SimpleLRU` makes of an LRU, then the
  proofs about the three caches and about the cache of `MCGolangLRU`, which is any of them.

In `LRUCache`, `evicted` holds the calls of `onEvict` in the last step, and `usedAfter` is the
history of use from which the order of eviction is judged. In `TwoQueueCache`, `uses` counts
how often a key was used.

### groupcache

`Group` has any number of processes that share one group. A `Get` is a record with its program
counter and locals; the one by which a process serves a request is tied to the one that waits
for its answer. Each lock is held for one step: a look into one cache, an `add`, a reading of a
byte count, an eviction, `Do`'s use of its map. Waking those who wait on a `call` is part of
the step that ends it (`Finish`), since all they do then is return. `ByteCache` is one of the
two caches with its LRU as a value, and `ConsistentHash` the ring. The answer to a request and
the start of its `Get` are single steps for both sides, but a request may also not arrive, or
break off while the other side goes on.

| Code | Actions |
|---|---|
| `Get`, `lookupCache` | `Get`, `lookupHit`, `lookupMiss` (main cache, then hot) |
| `load`, `Do` | `DoLead`, `DoWait`, `DoLate`; the second lookup; `Finish`, `Forget` |
| `PickPeer`, `getFromPeer` | `PickSelf`, `PickRemote`, `PickUnreachable`, `RequestFails`, `AnswerOk`, `AnswerError`, `Unheard` |
| `getLocally`, `populateCache` | `LocalOk`, `LocalError`, `MainBytes`, `BothFit`, `ChooseVictim`, `Evict` |
| `HTTPPool.Set` | `SetPeers` |

`Sinks` is the memory behind a value, for one key of one process. Buffers are sequences of bytes with a
name; a `ByteView` or what a sink fills is a part of one, or a string. A load takes one step, and
those who share its flight set their sinks later (`setSinkView`). The getter may write the buffer it
has given to `SetBytes`, and a client the slice it was given, at any time; a buffer that nobody
refers to is forgotten. `MCGroup` has both modules, one of which a behaviour uses. `GroupProofs` and
`SinksProofs` have the proofs.

| Code | Actions |
|---|---|
| `Get` with a new sink | `GetInto`, `Hit` |
| `getLocally` with `SetString`, `SetBytes`, `SetProto` of the five sinks | `LoadLocally`, `LoadLocallyFails` |
| `getFromPeer`, `setSinkView`, `setView` | `LoadFromPeer`, `setSinkView` |
| `cache.removeOldest` | `DropView` |
| `ByteView.ByteSlice`, `Slice`, `SliceFrom` | `ByteSlice`, `Slice` |

### go-cache

`GoCache` has the map, the callback, the clock, a program counter for each goroutine and one
for the janitor. `Set` and `DeleteExpired` read the clock before they take the lock; `Delete`
and `DeleteExpired` call the callback after they have released it, and read it again to do so,
which is where it may be nil. Objects are signed and unsigned integers of `WordSize` values,
floats, and others; the 30 methods that increment and decrement are ten actions, one for each
way the code converts the number and tests the type. An item carries the number of the write it comes from and the
number it would be without a width, for the properties only.

`ShardedGoCache` has the buckets of one map, the goroutines that sweep them one after the other,
each bucket with its own reading of the clock and its own lock, and the janitor, whose stop
channel exists only once its goroutine runs. What a bucket does by itself is in `GoCache`.
In both the finalizer may come at any time, as methods that are at work hold the inner cache and
not the wrapper that is collected (`cache.go:1141`); no method is called after it.
`MCGoCache` has both.

## What is checked

| Run | Question | Bounds and why they are enough |
|---|---|---|
| `queue` | structure, stable indexes, refinement of `RotatingFifo`; the iterator over a cache | 200 bytes that may grow to 700, entries of 19, 36 and 146 bytes (headers of one and two bytes), six pushes: the ring wraps, fills exactly, is reallocated in each shape, reaches the limit, and has gaps of 128 and 129 bytes. Four shards of which two are never used, two keys in the first and one in the third, three writes, two goroutines on the iterator |
| `queue_fifo` | does `Pop` return the oldest entry? | the queue as above; violated, see *Findings* |
| `queue_hole` | is there an entry at the head? | as above; violated |
| `shard` | map and queue agree, reads see the latest write, removals are reported, `ShardMap` is implemented | two goroutines and the janitor, four calls, two colliding keys and a third, 60 bytes that may grow to 100: wrap, growth, eviction for space and for age, appends, deletes, resets |
| `shard_expiry` | expiry, clean-up, refused entries, termination | 60 bytes, at the limit from the start, so pushes are refused and evict; three calls, LifeWindow 1 and a clock of 3 values, statistics off |
| `golang_lru` | LRU, 2Q and ARC keep their structure and their promises | five keys, two values, sizes 1 to 3; 2 for ARC and 2Q, whose lists and ghosts then fill, overflow and move in every way; a `recentRatio` of 0, of a half and of 1; every reachable state, no bound on the calls. No key is special, so states that differ by a permutation of the keys are one (`KeySymmetry`); no property is about liveness |
| `groupcache` | single loads, byte counts, limits, statistics, termination; the memory of values | two processes, two callers of one of them, three keys of which one is the other's, three `Get`s, one failure; the limit is such that one add evicts twice, from either cache. Two clients, a value longer than their slices and a shorter one that is no message: any number of loads, evictions and writes |
| `go_cache` | callbacks, expiry, wrapping, stopping the janitor; sweeps of a sharded cache | two goroutines and the janitor, two keys, four calls, integers of two bits, two files with floats and unsigned integers, with items that never expire, that have, and that have for `Increment` and not for `Get`. Three buckets of which the first stays empty, one goroutine and the janitor, two writes |
| `arc_size` | does ARC hold no more than its size? | size 1; violated |
| `shard_dangling` | the hashmap after a refused push | violated |
| `shard_collision` | removal reports after an append to a colliding hash | violated |
| `shard_clock` | expiry when the lock is waited for over a second | violated |

`MaxOps`, `MaxPushes`, `MaxWrites`, `MaxSets`, `MaxClock`, `MaxTime`, `MaxLag`, `MaxGets`,
`MaxErrors` and `MaxHops` are the bounds. A run with two questions about parts that share
nothing has one behaviour for each (`used`), so neither multiplies the states of the other. `MaxLag` says how many seconds
may go by between reading the clock and getting the lock. `shard` allows one; `shard_expiry`
none, because the two properties of expiry do not hold otherwise, which is what `shard_clock`
shows. `shard_expiry` also keeps the capacity fixed, because a clean-up relies on the queue's
order and a growing queue changes it (`queue_fifo`).
`shard` appends small values and only to a key whose hash is its own: entries always fit the
first array, and the two defects of `shard_dangling` and `shard_collision` do not occur. In
`shard_expiry`, where refused entries do occur, all entries that are stored have the same
length, so that a dangling index still falls on the start of some entry.

In `groupcache` all processes give `Set` the same list, at any time: when
lists differ, two processes may wait for each other (see below).

Fairness (`FairSpec` of `Shard`): a goroutine that holds the lock keeps running, and one that waits for the
lock gets it if it is free again and again. The first is what the Go scheduler does with a
runnable goroutine; `sync.RWMutex` hands the lock to waiters that have starved, and a waiting writer
blocks new readers. No fairness is assumed of the callers, the ticker or the clock.
`Group` assumes only that some call goes on while one can; the getter returns, a request that
arrived is answered, and neither failures nor `Set` have to happen. `GoCache` and `ShardedGoCache` assume
that the janitor goes on with what it does, and that `select`, which chooses at random among the
channels that are ready, does not pass the stop over for ever (strong fairness). `BigCache` assumes
that a goroutine inside `SetNext` runs on, and that `sync.Mutex`, which hands itself to waiters
that have starved, lets in those who wait (strong fairness); readers need not call `SetNext`.

## What is proved

`BytesQueueProofs` proves that every invariant of the run `queue` holds for all capacities, all
lengths of entries of at least 16 bytes, any data and any number of calls, and that indexes are
stable. The inductive invariant (`Inv`) is `QueueInv`
together with the types of the history. `QueueInv` is
the conjunction of the properties themselves: none is inductive alone. Disjointness of the
blocks needs the order of the pointers; that a push fits needs the reserve `GapReserved`, which
says the gap of a ring never drops below 17 bytes; that a reallocation can fill the gap needs
that reserve; and the count of live blocks needs disjointness. That blocks tile the ring
(`RingFilled`) is claimed only while no hole has been left.

The argument follows the code, in `BytesQueueLemmas`. `PushBlock` deals with `push` into any queue that has room at its
tail. `MoveTailBeforeHead`, `Unroll` and `Reallocate` show that each of `Push`'s ways to find room gives
such a queue, `PopInv` deals with the block at the head, and `BytesQueueProofs` assembles them
over the actions.

`ShardProofs` proves every property of the run `shard`, and `ExpiredIsDead`, for any number of
goroutines, keys, colliding hashes, values, lengths of entries and sizes of the array: the map
and the queue agree, a read finds the latest value, removals are reported, and the shard
implements `ShardMap`. The code does not keep these without conditions, and the theorems say under
which it does:

* `Undisturbed`, in all: while a push is under way, the reallocation it would make leaves no
  hole and, if it is refused, there is an entry to evict. Findings 2 and 3 are what happens
  otherwise. With `HardMaxCacheSize` 0, the default, no push is refused; holes need a gap of a
  few lengths. A condition on the states a behaviour goes through and not on
  constants, because it says exactly what the proof needs; it is an invariant of the instance of
  the run `shard`, which wraps, grows and evicts, so it excludes none of that.
* `AppendsAlone`, in `MapMatches` and `RemovalsReported`: a key that is appended to shares its hash
  with no other. Finding 4 is what happens otherwise. Reads and the promise do without it.
* `MaxLag = 0`, in `ExpiredHaveLived`: no second passes between a reading of the clock and the
  lock. Finding 5 is what happens otherwise.
* `Data = Entry`: the queue of a shard holds entries.

The inductive invariant (`Inv`) relates the two structures of the shard at all hashes but those
of a goroutine that is in the middle of a write (`InHand`), whose entry is marked or about to be
pushed. What the hashmap points to is a live entry with that hash and the value its key was last given
(`Points`), and each live entry that carries a hash is pointed to (`Covers`); neither alone is
kept by an eviction, which unmaps by the hash that an entry carries. `Until` bounds the
timestamps of entries, without which the unsigned age of an entry is not its age. A lemma for each
operation on the shard says what it keeps, whoever calls it: `MarkingKeeps` of `resetKeyFromEntry`,
`ForgottenKeeps` of unmapping, `RemovalKeeps` and `EvictionKeeps` of `Pop` and of what it reports, `AdditionKeeps`
of a push, which may move every entry. `Reports` and `Fades` say of a step what
`RemovalsAreReported` and `ShardMap` ask, and are shown of each action.

`BigCacheProofs` proves `StableKeysAreSeen` and `NoEntryTwice` for any keys and hashes, any number of shards
and any number of goroutines on the iterator. Neither is inductive: a stable hash that was
not handed out is still ahead, in a shard to come or among the hashes that are left, or is the
one a goroutine holds the mutex for (`StableIsAwaited`); what is ahead was not handed out
(`AheadIsNew`); and both need that the goroutine inside has the mutex (`MutexIsHeld`), and is at
the iterator's shard (`InPlace`).

`GoCacheProofs` proves `CountersWrap`, `ItemsAreReportedOnce` and `OnlyTheExpiredGo` for any
number of goroutines, keys, callbacks and files and integers of any even number of values.
Wrapping is proved for the items that goroutines are about to store, too (`AllWrap`), from
lemmas on remainders (`Divisible`, `Remainder`, `ConvertedWraps`). That an item is reported once
needs that every item comes from a write of its own and that what is stored was not removed before
(`IdsAreNew`), and that a goroutine that panics had been told (`DisabledIsKnown`). That nothing
goes before it expires needs that clocks that were read are in the past (`ClocksArePast`).
It also proves `SweepsAreWhole` of the sharded cache (`NothingIsMissed`), for any number of buckets and of
goroutines that sweep: what a sweep has left to remove is in a bucket to come and had expired before
that bucket's clock is read (`DoomedAreAhead`), which a `Set` does not disturb because what it stores
is of a write of its own (`WritesAreNew`).

`GroupProofs` proves `FlightHasALeader`, `KeyInOneCache` and `CachesFit` for any processes, lists of peers, callers,
keys, sizes and hops. The key of a flight stays in `Do`'s map as long as one call leads, whose outcome
it has once there is one (`Flights`); that needs what a call at each point may be (`Roles`), and
that every request that waits has the `Get` that answers it, and that one the other (`Requests`). That a
key is in one cache follows because a call that has passed the second lookup of `load` knows
that its key is in neither (`Absent`), and nobody else may add it (`AddKeeps`). The steps of one call that leave the
loads as they are share `QuietMove` and `QuietLeave`. It also proves `CachesFit`: a process over its limit has
a call that watches (`Watches`), which is evicting and goes by no fewer bytes of the main cache
than there are. The count of the main cache that a call has read stays good because whoever adds after it
watches in its place (`AddWatches`), and nobody else makes the caches larger (`LimitsStay`).

`GroupProofs` also proves `StatsAddUp` and `BytesAreExact`. The byte count of a cache is the sum over
its list, a recursive function; that adding an element in front or taking one out changes
it by the size of that element is shown by a least counterexample (`Least`).

`SinksProofs` proves `CachedBytesStand` and `ClientsGetTheValue` for any number of clients, contents,
slices and parts. The invariant (`Sound`) says who may refer to which buffer: a view that is cached or shared has
one that is neither the getter's nor a client's (`Shared`), a client's slice its own (`Owned`). A
write to a buffer then changes nothing for all others (`OthersStay`), and a collection nothing for anybody
(`Collected`). For every kind of sink `SettingDst` shows that setting it writes the client's buffer only and
leaves it with the value. That the names of the clients' buffers are not those of views is an
assumption on names (`SinksAssumption`); that there is always a number that is free needs that
memory is finite (`FreeName`).

`GolangLRUProofs` proves the invariants and action properties that the run
`golang_lru` checks of the three caches, for any keys, values and sizes. They rest on the lemmas on `SimpleLRU`:
each method leaves an LRU well formed, and its keys and its length are then such and such. For
the LRU, `Ordered` is inductive because taking an element out of the list or putting one in front
keeps the order of the rest (`OrderedWithout`, `OrderedWith`). That no key of 2Q or ARC is in two
lists needs that what is evicted to make room becomes a ghost in the same step (`SpaceEnsured`,
`Replaced`), also when it was the ghost of the key being added that had to make way. That 2Q's frequent
keys were used again needs that a ghost was used once (`Earned`). The bounds on the two resident
lists together (`TwoQueueSizeIsShared`, `ARCHoldsOneTooMany`) need that each alone is within the size: only
then can a list that has nothing to give up be empty without the sum growing by more than one.

It also proves that each of the three implements `LossyCache`, and each call the call it should
(`PromiseKept`), for any keys, values and sizes. The argument is about
the elements of the lists: in a well-formed cache no key has two, so that they stand for a mapping
(`ContentOf`), of one list (`ContentOfList`) or of two with no key in common (`ContentOfTwo`). A step
that leaves no element that was not there only loses keys (`ContentLost`); one that adds a single
element, and keeps it, gives its key a value (`ContentPut`). `Get` and promotion are of the first kind,
since the element they put in front was there. That `Add` keeps its new element when it evicts
needs a size above zero (`AddedElements`). That what is lost makes room is a count: the keys of a
cache are as many as its lists are long (`KeysCounted`, `KeysOfTwoCounted`), and a step that takes
a key out leaves the lists as long as the size (`LeavesRoom`). For a new key that is what
`ensureSpace` and `replace` are for (`RoomForOne`); for a promotion, that a list which drops its
oldest element was full (`RoomToPromote`).

Only model-checked: the refinement of `RotatingFifo`, whose mapping sorts a set;
`CleanUpLeavesNoDead`, which does not hold of a queue that grows or a clock that goes on while the
lock is waited for; and liveness, which is out of the prover's reach.

## Findings

1. **Growing rotates the queue** (`queue_fifo`). After a reallocation of a ring that has gone
   round, newer entries are popped before older ones.
2. **A hole of one byte** (`queue_hole`). The filler for a gap of 128 or 129 bytes (and at the
   next sizes of uvarints) is one byte short. A later `Pop` reads the byte as a header.
3. **A refused push leaves a dangling index** (`shard_dangling`).
4. **Append after a collision** (`shard_collision`) leaves two entries with one hash, and the
   eviction of the first unmaps the second.
5. **Entries from the future** (`shard_clock`) are taken for very old and evicted as expired.
6. **ARC holds one too many** (`arc_size`): `replace` removes nothing when `t1` is within its
   target and `t2` is empty. `KeepsPromise` shows that it is never more than one. While it is, a
   `Get` can lose a key: with size 1, `Add` of one key, of another and of the first again leave
   both, and a `Get` of the second promotes it to `t2`, which is full and drops the first
   (`arc.go:70`). `LossyCache` allows a `Get` that, and no other loss. 2Q does the same with
   a `recentRatio` of 1, when `ensureSpace` finds nothing in the frequent list
   (`TwoQueueSizeIsShared`).

Also seen, and not the subject of a run: the limit of a queue is tested against the capacity
before growth (`bytes_queue.go:103`), so a shard refuses entries that its maximum size would
hold; and `hit` can make statistics for a key that has just been deleted.
In groupcache, `Loads` is not `gets - cacheHits` (`groupcache.go:203`) when the second lookup
hits; a local load after a failed request puts a key of another process into `mainCache`
(`groupcache.go:161`); `hotCache` is not kept under an eighth of `mainCache`
(`groupcache.go:364`); a getter that panics leaves those who wait for it waiting; processes
whose lists of peers differ can ask each other for a key and wait for ever; a getter that sets
no sink and returns no error has what the sink held cached; and `AllocatingByteSliceSink` tests for a nil
destination only where it is set to bytes (`sinks.go:260`), so a hit panics.

In go-cache, `OnEvicted(nil)` can make a `Delete` that is under way panic (`ItemsAreReportedOnce` shows
that nothing else loses a report), and an item from a file whose `Expiration` is below 0 is there for
`Get` and expired for `Increment` and `Load` (`cache.go:20`, `cache.go:136`; `Found` and
`Expired`). `stopShardedJanitor` blocks for ever if it comes before the
janitor's goroutine has made its channel (the finalizer's `"blocked"` in `ShardedGoCache`), and
that janitor's `time.Tick` is never stopped. `djb33` never hashes the last byte of a key
(`sharded.go:50`), so keys that differ there alone share a bucket.
`SaveFile` empties the file before it encodes, so a dump that fails leaves none.

In bigcache, an iterator that has returned false may find entries again if called once more;
`Close` a second time panics; after a refused push (finding 3) the iterator's `Value` may return the
queue's error for an entry, which `BigCache` does not have, as a shard that keeps the promise of
`ShardMap` has no such offset; and zero shards pass the test for a power of two.

## What is not modelled, and the plan

Read-only methods (`Len`, `Capacity`, `Keys`, `Stats`, `Value`, `Get` of go-cache, `Items`)
change no state. The HTTP server of bigcache, parsing and headers of the HTTP pool, logging and the
generated protocol buffers are pure input and output. The 32-bit truncation of an index needs
arrays of 4 GB. Of bigcache `Close` and the configuration are left out, of golang-lru `Resize`
to no size, of go-cache `Save`, of groupcache the counters `nget`, `nhit` and `nevict` and the
registries of groups, which are filled at start. The spread of the hash functions is no subject: they are constants.

What remains worth doing:

1. A proof of the refinement of `RotatingFifo`, which needs what the positions of blocks say of their order
   in a sorted sequence.
2. Violations in groupcache and go-cache: a getter that panics, lists of peers that differ,
   the sharded janitor.
