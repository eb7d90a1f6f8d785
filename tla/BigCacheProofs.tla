--------------------------- MODULE BigCacheProofs ---------------------------
(***************************************************************************)
(* What BigCache says of its iterator, for any keys, hashes, shards and    *)
(* goroutines.                                                             *)
(***************************************************************************)
EXTENDS BigCache, TLAPS

Steps ==
  {Idle, [pc |-> "lock"]} \cup [pc : {"scan"}, shard : Int] \cup [pc : {"entry"}, hash : Hashes]

TypeOK ==
  /\ stored \in [Hashes -> Keys \cup {NoKey}]
  /\ it \in [shard : Int, todo : SUBSET Hashes, current : Hashes \cup {None}, valid : BOOLEAN]
  /\ mutex \in Readers \cup {NoOne}
  /\ readers \in [Readers -> Steps]
  /\ stable \subseteq Hashes
  /\ handed \in [Hashes -> Nat]
  /\ ended \in BOOLEAN

\* Who looks for an entry holds the mutex.
MutexIsHeld == \A r \in Readers : readers[r].pc \in {"scan", "entry"} <=> mutex = r

\* Before there is an iterator nothing has happened to it.
BeforeIterator ==
  it = NoIterator =>
    /\ \A r \in Readers : readers[r] = Idle
    /\ \A h \in Hashes : handed[h] = 0
    /\ stable = {} /\ ~ended

\* Where the iterator is: at the hashes of one shard, or past them.
InPlace ==
  /\ it # NoIterator => it.shard >= 0
  /\ \A h \in it.todo : getShard(h) = it.shard
  /\ \A r \in Readers :
       /\ readers[r].pc = "scan" => it.todo = {} /\ readers[r].shard > it.shard
       /\ readers[r].pc = "entry" =>
            getShard(readers[r].hash) = it.shard /\ readers[r].hash \notin it.todo

\* What it has yet to come to was not handed out.
AheadIsNew ==
  /\ \A h \in Hashes : h \in it.todo \/ getShard(h) > it.shard => handed[h] = 0
  /\ \A r \in Readers : readers[r].pc = "entry" => handed[readers[r].hash] = 0

\* A stable hash was handed out, or the iterator comes to it.
Awaited(h) ==
  \/ getShard(h) > it.shard \/ h \in it.todo
  \/ \E r \in Readers : readers[r].pc = "entry" /\ readers[r].hash = h

StableIsAwaited ==
  /\ stable \subseteq Stored
  /\ \A h \in stable : handed[h] > 0 \/ Awaited(h)
  /\ \A r \in Readers, h \in stable :
       readers[r].pc = "scan" /\ getShard(h) > it.shard => getShard(h) >= readers[r].shard

Inv ==
  /\ TypeOK /\ MutexIsHeld /\ BeforeIterator /\ InPlace /\ AheadIsNew /\ StableIsAwaited
  /\ NoEntryTwice /\ StableKeysAreSeen

-----------------------------------------------------------------------------

\* A hash has a shard.
LEMMA ShardOfHash ==
  ASSUME NEW h \in Hashes
  PROVE  h \in Nat \ {0} /\ getShard(h) \in 0 .. NumShards - 1
<1>1. h \in Nat \ {0}
  BY BigCacheAssumption DEF Hashes
<1>2. NumShards \in Nat \ {0}
  BY BigCacheAssumption
<1> QED
  BY <1>1, <1>2 DEF getShard

LEMMA InitInv == CacheInit => Inv
<1> SUFFICES ASSUME CacheInit
             PROVE  Inv
  OBVIOUS
<1>1. TypeOK
  <2>1. readers \in [Readers -> Steps]
    BY DEF CacheInit, Steps
  <2>2. handed \in [Hashes -> Nat] /\ stored \in [Hashes -> Keys \cup {NoKey}]
    BY DEF CacheInit
  <2>3. it \in [shard : Int, todo : SUBSET Hashes, current : Hashes \cup {None}, valid : BOOLEAN]
    BY DEF CacheInit, NoIterator
  <2> QED
    BY <2>1, <2>2, <2>3 DEF CacheInit, TypeOK
<1>2. MutexIsHeld
  BY BigCacheAssumption DEF CacheInit, MutexIsHeld, Idle
<1>3. BeforeIterator /\ InPlace /\ AheadIsNew
  BY DEF CacheInit, BeforeIterator, InPlace, AheadIsNew, NoIterator, Idle
<1>4. StableIsAwaited /\ NoEntryTwice /\ StableKeysAreSeen
  BY DEF CacheInit, StableIsAwaited, NoEntryTwice, StableKeysAreSeen
<1> QED
  BY <1>1, <1>2, <1>3, <1>4 DEF Inv

\* Whatever happens to the entries, those that are stable have theirs.
LEMMA EntriesStep ==
  ASSUME Inv, NEW entries \in [Hashes -> Keys \cup {NoKey}],
         StoredBecomes(entries), UNCHANGED iterVars
  PROVE  Inv'
<1> USE DEF Inv, iterVars
<1>1. stored' = entries /\ stable' \subseteq stable
  BY DEF StoredBecomes
<1>2. stable' \subseteq Stored'
  BY DEF StoredBecomes, Stored, TypeOK
<1>3. TypeOK'
  BY <1>1 DEF TypeOK
<1>4. MutexIsHeld' /\ BeforeIterator' /\ InPlace' /\ AheadIsNew'
  BY <1>1 DEF MutexIsHeld, BeforeIterator, InPlace, AheadIsNew
<1>5. StableIsAwaited'
  BY <1>1, <1>2 DEF StableIsAwaited, Awaited
<1>6. NoEntryTwice' /\ StableKeysAreSeen'
  BY <1>1 DEF NoEntryTwice, StableKeysAreSeen
<1> QED
  BY <1>3, <1>4, <1>5, <1>6

\* Writes, deletions, evictions and the steps of Reset.
LEMMA CacheStep == ASSUME Inv, Cache PROVE Inv'
<1>1. ASSUME NEW key \in Keys, Set(key) PROVE Inv'
  <2>1. [stored EXCEPT ![HashOf[key]] = key] \in [Hashes -> Keys \cup {NoKey}]
    BY DEF Inv, TypeOK
  <2> QED
    BY <1>1, <2>1, EntriesStep DEF Set
<1>2. ASSUME NEW hashes PROVE Without(hashes) \in [Hashes -> Keys \cup {NoKey}]
  BY DEF Inv, TypeOK, Without
<1>3. ASSUME NEW hash \in Hashes, Delete(hash) PROVE Inv'
  BY <1>2, <1>3, EntriesStep DEF Delete
<1>4. CASE ResetStart
  BY <1>4 DEF ResetStart, iterVars, Inv, TypeOK, MutexIsHeld, BeforeIterator, InPlace,
     AheadIsNew, StableIsAwaited, Awaited, Stored, NoEntryTwice, StableKeysAreSeen
<1>5. CASE ResetShard
  BY <1>2, <1>5, EntriesStep DEF ResetShard
<1> QED
  BY <1>1, <1>3, <1>4, <1>5 DEF Cache

-----------------------------------------------------------------------------

\* The first shard's hashes are those to come to; the others are in later ones.
LEMMA NewIteratorStep == ASSUME Inv, NewIterator PROVE Inv'
<1> USE DEF Inv, NewIterator, cacheVars
<1>1. /\ it' = [shard |-> 0, todo |-> copyHashedKeys(0), current |-> None, valid |-> FALSE]
      /\ stable' = Stored /\ Stored' = Stored /\ Stored \subseteq Hashes
      /\ \A r \in Readers : readers'[r] = Idle
      /\ \A h \in Hashes : handed'[h] = 0
      /\ ~ended'
  BY DEF BeforeIterator, NoIterator, Stored
<1>2. copyHashedKeys(0) = {h \in Stored : getShard(h) = 0}
  BY DEF copyHashedKeys
<1>3. TypeOK'
  <2>1. it' \in [shard : Int, todo : SUBSET Hashes, current : Hashes \cup {None}, valid : BOOLEAN]
    <3>1. copyHashedKeys(0) \in SUBSET Hashes
      BY <1>1, <1>2
    <3> HIDE DEF Inv, NewIterator, cacheVars
    <3> QED
      BY <1>1, <3>1
  <2> QED
    BY <1>1, <2>1 DEF TypeOK
<1>4. MutexIsHeld' /\ BeforeIterator'
  BY <1>1 DEF MutexIsHeld, BeforeIterator, NoIterator
<1>5. InPlace' /\ AheadIsNew'
  BY <1>1, <1>2 DEF InPlace, AheadIsNew, Idle
<1>6. StableIsAwaited'
  BY <1>1, <1>2, ShardOfHash DEF StableIsAwaited, Awaited, Idle
<1>7. NoEntryTwice' /\ StableKeysAreSeen'
  BY <1>1 DEF NoEntryTwice, StableKeysAreSeen
<1> QED
  BY <1>3, <1>4, <1>5, <1>6, <1>7

\* A goroutine that goes to wait for the mutex.
LEMMA WaitStep ==
  ASSUME Inv, NEW r \in Readers, readers[r].pc = "idle", it # NoIterator,
         Goto(r, [pc |-> "lock"]), UNCHANGED <<cacheVars, it, mutex, stable, handed, ended>>
  PROVE  Inv'
<1> USE DEF Inv, Goto, cacheVars
<1>1. TypeOK'
  BY DEF TypeOK, Steps
<1>2. \A q \in Readers : readers'[q] = IF q = r THEN [pc |-> "lock"] ELSE readers[q]
  BY DEF TypeOK
<1>3. MutexIsHeld' /\ BeforeIterator' /\ InPlace' /\ AheadIsNew'
  BY <1>2 DEF MutexIsHeld, BeforeIterator, InPlace, AheadIsNew
<1>4. StableIsAwaited'
  <2>1. ASSUME NEW h \in stable, Awaited(h) PROVE Awaited(h)'
    BY <1>2, <2>1 DEF Awaited
  <2> QED
    BY <1>2, <2>1 DEF StableIsAwaited, Stored
<1>5. NoEntryTwice' /\ StableKeysAreSeen'
  BY DEF NoEntryTwice, StableKeysAreSeen
<1> QED
  BY <1>1, <1>3, <1>4, <1>5

\* SetNext moves to one of the hashes of a shard, the iterator's or a later one.
LEMMA MoveStep ==
  ASSUME Inv, NEW r \in Readers, NEW shard \in Int, NEW hashes \in SUBSET Hashes,
         MoveTo(r, shard, hashes), mutex' = r, mutex \in {NoOne, r},
         UNCHANGED <<cacheVars, stable, handed, ended>>,
         it # NoIterator, shard >= it.shard,
         \A h \in hashes : getShard(h) = shard /\ handed[h] = 0,
         \A h \in stable : handed[h] > 0 \/ getShard(h) > shard \/ h \in hashes
  PROVE  Inv'
<1> USE DEF Inv, cacheVars
<1>1. PICK h \in hashes :
        /\ it' = [it EXCEPT !.shard = shard, !.todo = hashes \ {h}, !.valid = TRUE]
        /\ readers' = [readers EXCEPT ![r] = [pc |-> "entry", hash |-> h]]
  BY DEF MoveTo, Goto
<1>2. TypeOK'
  BY <1>1 DEF TypeOK, Steps
<1>3. it.shard \in Int /\ it'.shard = shard /\ it'.todo = hashes \ {h}
  BY <1>1 DEF TypeOK
<1>4. \A q \in Readers : readers'[q] = IF q = r THEN [pc |-> "entry", hash |-> h] ELSE readers[q]
  BY <1>1 DEF TypeOK
<1>5. \A q \in Readers \ {r} : readers[q].pc \notin {"scan", "entry"}
  BY BigCacheAssumption DEF MutexIsHeld
<1>6. MutexIsHeld'
  BY <1>4, <1>5 DEF MutexIsHeld
<1>7. shard >= 0
  BY <1>3 DEF InPlace
<1>8. BeforeIterator' /\ InPlace'
  BY <1>3, <1>4, <1>5, <1>7 DEF BeforeIterator, InPlace, NoIterator
<1>9. AheadIsNew'
  <2>1. ASSUME NEW g \in Hashes, getShard(g) > shard PROVE handed[g] = 0
    BY <1>3, <2>1, ShardOfHash DEF AheadIsNew
  <2> QED
    BY <1>3, <1>4, <1>5, <2>1 DEF AheadIsNew
<1>10. StableIsAwaited'
  <2>1. \A g \in stable : handed[g] > 0 \/ Awaited(g)'
    BY <1>3, <1>4 DEF Awaited
  <2> QED
    BY <1>4, <1>5, <2>1 DEF StableIsAwaited, Stored
<1>11. NoEntryTwice' /\ StableKeysAreSeen'
  BY DEF NoEntryTwice, StableKeysAreSeen
<1> QED
  BY <1>2, <1>6, <1>8, <1>9, <1>10, <1>11

\* A goroutine that has the mutex has an iterator, and nobody else looks.
LEMMA OneLooks ==
  ASSUME Inv, NEW r \in Readers, readers[r].pc \in {"scan", "entry"}
  PROVE  /\ mutex = r /\ it # NoIterator
         /\ \A q \in Readers \ {r} : readers[q].pc \notin {"scan", "entry"}
BY DEF Inv, MutexIsHeld, BeforeIterator, Idle

\* SetNext takes the mutex and goes on in its shard.
LEMMA NextOfShardStep == ASSUME Inv, NEW r \in Readers, NextOfShard(r) PROVE Inv'
<1> USE DEF Inv, NextOfShard
<1>1. it # NoIterator
  BY DEF BeforeIterator, Idle
<1>2. it.shard \in Int /\ it.todo \in SUBSET Hashes
  BY DEF TypeOK
<1>3. \A h \in it.todo : getShard(h) = it.shard /\ handed[h] = 0
  BY <1>2 DEF InPlace, AheadIsNew
<1>4. \A q \in Readers : readers[q].pc \notin {"scan", "entry"}
  BY BigCacheAssumption DEF MutexIsHeld
<1>5. \A h \in stable : handed[h] > 0 \/ getShard(h) > it.shard \/ h \in it.todo
  BY <1>4 DEF StableIsAwaited, Awaited
<1> QED
  BY <1>1, <1>2, <1>3, <1>5, MoveStep

\* A goroutine with the mutex goes to a shard, and none of those it passes has a
\* stable hash.
LEMMA ScanStep ==
  ASSUME Inv, NEW r \in Readers, NEW shard \in Int,
         Goto(r, [pc |-> "scan", shard |-> shard]), it' \in {it, [it EXCEPT !.valid = FALSE]},
         mutex' = r, mutex \in {NoOne, r},
         UNCHANGED <<cacheVars, stable, handed, ended>>,
         it # NoIterator, it.todo = {}, readers[r].pc # "entry", shard > it.shard,
         \A h \in stable : getShard(h) > it.shard => getShard(h) >= shard
  PROVE  Inv'
<1> USE DEF Inv, cacheVars
<1>1. \A q \in Readers : readers'[q] =
        IF q = r THEN [pc |-> "scan", shard |-> shard] ELSE readers[q]
  BY DEF Goto, TypeOK
<1>2. it'.shard = it.shard /\ it'.todo = {} /\ it.shard \in Int
  BY DEF TypeOK
<1>3. \A q \in Readers \ {r} : readers[q].pc \notin {"scan", "entry"}
  BY BigCacheAssumption DEF MutexIsHeld
<1>4. TypeOK'
  BY DEF Goto, TypeOK, Steps
<1>5. MutexIsHeld'
  BY <1>1, <1>3 DEF MutexIsHeld
<1>6. it.shard >= 0
  BY DEF InPlace
<1>7. BeforeIterator' /\ InPlace' /\ AheadIsNew'
  BY <1>1, <1>2, <1>3, <1>6 DEF BeforeIterator, InPlace, AheadIsNew, NoIterator
<1>8. StableIsAwaited'
  <2>1. \A g \in stable : handed[g] > 0 \/ getShard(g) > it.shard
    BY <1>3 DEF StableIsAwaited, Awaited
  <2> QED
    BY <1>1, <1>2, <1>3, <2>1 DEF StableIsAwaited, Stored, Awaited
<1>9. NoEntryTwice' /\ StableKeysAreSeen'
  BY DEF NoEntryTwice, StableKeysAreSeen
<1> QED
  BY <1>4, <1>5, <1>7, <1>8, <1>9

LEMMA NoneInShardStep == ASSUME Inv, NEW r \in Readers, NoneInShard(r) PROVE Inv'
<1> USE DEF Inv, NoneInShard
<1>1. it # NoIterator
  BY DEF BeforeIterator, Idle
<1>2. it.shard \in Int /\ stable \subseteq Hashes
  BY DEF TypeOK
<1>3. \A h \in stable : getShard(h) > it.shard => getShard(h) >= it.shard + 1
  BY <1>2, ShardOfHash
<1>4. /\ it.shard + 1 \in Int /\ it.shard + 1 > it.shard
      /\ mutex \in {NoOne, r} /\ readers[r].pc # "entry"
  BY <1>2
<1> QED
  BY <1>1, <1>3, <1>4, ScanStep

LEMMA ScanFullStep == ASSUME Inv, NEW r \in Readers, ScanFull(r) PROVE Inv'
<1> DEFINE shard == readers[r].shard
<1>1. mutex = r /\ it # NoIterator /\ \A q \in Readers : readers[q].pc # "entry"
  BY OneLooks DEF ScanFull
<1>2. shard \in Int /\ it.shard \in Int /\ shard > it.shard /\ it.todo = {}
  BY DEF Inv, TypeOK, InPlace, Steps, ScanFull, Idle
<1>3. copyHashedKeys(shard) = {h \in Stored : getShard(h) = shard} /\ Stored \subseteq Hashes
  BY DEF copyHashedKeys, Stored
<1>4. \A h \in copyHashedKeys(shard) : getShard(h) = shard /\ handed[h] = 0
  BY <1>2, <1>3 DEF Inv, AheadIsNew
<1>5. \A h \in stable :
        handed[h] > 0 \/ getShard(h) > shard \/ h \in copyHashedKeys(shard)
  <2>1. ASSUME NEW h \in stable, ~(handed[h] > 0)
        PROVE  getShard(h) >= shard /\ h \in Stored
    BY <1>1, <1>2, <2>1 DEF Inv, StableIsAwaited, Awaited, ScanFull
  <2>2. \A h \in stable : getShard(h) \in Int
    BY ShardOfHash DEF Inv, TypeOK
  <2> QED
    BY <1>2, <1>3, <2>1, <2>2
<1> QED
  BY <1>1, <1>2, <1>3, <1>4, <1>5, MoveStep DEF ScanFull

LEMMA ScanEmptyStep == ASSUME Inv, NEW r \in Readers, ScanEmpty(r) PROVE Inv'
<1> DEFINE shard == readers[r].shard
<1>1. mutex = r /\ it # NoIterator
  BY OneLooks DEF ScanEmpty
<1>2. shard \in Int /\ it.shard \in Int /\ shard > it.shard /\ it.todo = {}
  BY DEF Inv, TypeOK, InPlace, Steps, ScanEmpty, Idle
<1>3. \A h \in stable : getShard(h) # shard
  BY DEF Inv, StableIsAwaited, ScanEmpty, copyHashedKeys
<1>4. \A h \in stable : getShard(h) > it.shard => getShard(h) >= shard + 1
  <2>1. \A h \in stable : getShard(h) > it.shard => getShard(h) >= shard
    BY DEF Inv, StableIsAwaited, ScanEmpty
  <2>2. \A h \in stable : getShard(h) \in Int
    BY ShardOfHash DEF Inv, TypeOK
  <2> QED
    BY <1>2, <1>3, <2>1, <2>2
<1>5. it' = it
  BY DEF ScanEmpty
<1>6. mutex' = r /\ mutex \in {NoOne, r} /\ readers[r].pc # "entry" /\ shard + 1 > it.shard
      /\ shard + 1 \in Int
  BY <1>1, <1>2 DEF ScanEmpty
<1>7. Goto(r, [pc |-> "scan", shard |-> shard + 1]) /\ UNCHANGED <<cacheVars, stable, handed, ended>>
  BY DEF ScanEmpty
<1> HIDE DEF shard
<1> QED
  BY <1>1, <1>2, <1>4, <1>5, <1>6, <1>7, ScanStep

\* A goroutine that looks gives the mutex up, and what it looked for has been
\* handed out, or is not stable any more.
LEMMA ReleaseStep ==
  ASSUME Inv, NEW r \in Readers, NEW where \in {Idle, [pc |-> "lock"]},
         NEW current \in Hashes \cup {None}, NEW end \in {ended, TRUE},
         Goto(r, where), it' \in {it, [it EXCEPT !.current = current]},
         mutex = r, mutex' = NoOne, it # NoIterator,
         UNCHANGED <<cacheVars, stable>>, ended' = end,
         handed' \in [Hashes -> Nat],
         \A h \in Hashes : handed'[h] = handed[h] \/
            (handed'[h] = 1 /\ readers[r].pc = "entry" /\ h = readers[r].hash),
         readers[r].pc = "entry" => handed'[readers[r].hash] = 1 \/ readers[r].hash \notin stable,
         end /\ ~ended => \A h \in stable : handed'[h] > 0
  PROVE  Inv'
<1> USE DEF Inv, cacheVars
<1>1. \A q \in Readers : readers'[q] = IF q = r THEN where ELSE readers[q]
  BY DEF Goto, TypeOK
<1>2. it'.shard = it.shard /\ it'.todo = it.todo /\ it.shard \in Int /\ it.todo \subseteq Hashes
  BY DEF TypeOK
<1>3. where.pc \notin {"scan", "entry"}
  BY DEF Idle
<1>4. \A q \in Readers \ {r} : readers[q].pc \notin {"scan", "entry"}
  BY DEF MutexIsHeld
<1>5. TypeOK'
  <2>1. readers' \in [Readers -> Steps]
    BY DEF Goto, TypeOK, Steps
  <2>2. ended' \in BOOLEAN
    BY DEF TypeOK
  <2> QED
    BY <2>1, <2>2 DEF TypeOK
<1>6. MutexIsHeld'
  BY <1>1, <1>3, <1>4, BigCacheAssumption DEF MutexIsHeld
<1>7. it.shard >= 0
  BY DEF InPlace
<1>8. BeforeIterator' /\ InPlace'
  BY <1>1, <1>2, <1>3, <1>7 DEF BeforeIterator, InPlace, NoIterator
<1>9. \A h \in Hashes : h \in it.todo \/ getShard(h) > it.shard => handed'[h] = handed[h]
  <2>1. readers[r].pc = "entry" =>
          getShard(readers[r].hash) = it.shard /\ readers[r].hash \notin it.todo
    BY DEF InPlace
  <2> QED
    BY <1>2, <2>1
<1>10. AheadIsNew'
  BY <1>1, <1>2, <1>3, <1>4, <1>9 DEF AheadIsNew
<1>11. \A h \in stable : handed[h] > 0 => handed'[h] > 0
  BY DEF TypeOK
<1>12. StableIsAwaited'
  <2>1. ASSUME NEW h \in stable PROVE handed'[h] > 0 \/ Awaited(h)'
    <3>1. CASE handed[h] > 0
      BY <1>11, <3>1
    <3>2. CASE getShard(h) > it.shard \/ h \in it.todo
      BY <1>2, <3>2 DEF Awaited
    <3>3. CASE readers[r].pc = "entry" /\ readers[r].hash = h
      BY <3>3
    <3> QED
      BY <1>4, <3>1, <3>2, <3>3 DEF StableIsAwaited, Awaited
  <2> QED
    BY <1>1, <1>3, <1>4, <2>1 DEF StableIsAwaited, Stored
<1>13. NoEntryTwice'
  BY DEF NoEntryTwice, TypeOK
<1>14. StableKeysAreSeen'
  BY <1>11 DEF StableKeysAreSeen
<1> QED
  BY <1>5, <1>6, <1>8, <1>10, <1>12, <1>13, <1>14

\* At the end no stable hash is ahead, so all have been handed out.
LEMMA ScanEndStep == ASSUME Inv, NEW r \in Readers, ScanEnd(r) PROVE Inv'
<1>1. mutex = r /\ it # NoIterator /\ \A q \in Readers : readers[q].pc # "entry"
  BY OneLooks DEF ScanEnd
<1>2. /\ it.todo = {} /\ it.shard \in Int /\ readers[r].shard \in Int
      /\ readers[r].shard >= NumShards /\ stable \subseteq Hashes /\ handed \in [Hashes -> Nat]
  BY DEF Inv, TypeOK, InPlace, Steps, ScanEnd, Idle
<1>3. \A h \in stable : getShard(h) \in Int /\ getShard(h) < NumShards
  BY <1>2, ShardOfHash, BigCacheAssumption
<1>4. \A h \in stable : handed[h] > 0
  <2>1. \A h \in stable : ~(getShard(h) > it.shard)
    BY <1>2, <1>3, BigCacheAssumption DEF Inv, StableIsAwaited, ScanEnd
  <2> QED
    BY <1>1, <1>2, <2>1 DEF Inv, StableIsAwaited, Awaited
<1>5. it' = it /\ mutex' = NoOne /\ ended' = TRUE /\ handed' = handed /\ Goto(r, Idle)
      /\ UNCHANGED <<cacheVars, stable>> /\ readers[r].pc # "entry"
  BY DEF ScanEnd
<1>6. None \in Hashes \cup {None}
  OBVIOUS
<1> QED
  BY <1>1, <1>2, <1>4, <1>5, <1>6, ReleaseStep

LEMMA EntryFoundStep == ASSUME Inv, NEW r \in Readers, EntryFound(r) PROVE Inv'
<1> DEFINE hash == readers[r].hash
<1>1. mutex = r /\ it # NoIterator
  BY OneLooks DEF EntryFound
<1>2. hash \in Hashes /\ handed[hash] = 0 /\ handed \in [Hashes -> Nat]
  BY DEF Inv, TypeOK, AheadIsNew, EntryFound, Stored
<1>3. /\ handed' \in [Hashes -> Nat] /\ handed'[hash] = 1
      /\ \A h \in Hashes : h # hash => handed'[h] = handed[h]
  BY <1>2 DEF EntryFound
<1>4. /\ it' = [it EXCEPT !.current = hash] /\ mutex' = NoOne /\ ended' = ended
      /\ Goto(r, Idle) /\ readers[r].pc = "entry" /\ UNCHANGED <<cacheVars, stable>>
  BY DEF EntryFound
<1>5. ended \in {ended, TRUE} /\ hash \in Hashes \cup {None}
  BY <1>2
<1> QED
  BY <1>1, <1>3, <1>4, <1>5, ReleaseStep

LEMMA EntryGoneStep == ASSUME Inv, NEW r \in Readers, EntryGone(r) PROVE Inv'
<1>1. mutex = r /\ it # NoIterator
  BY OneLooks DEF EntryGone
<1>2. handed \in [Hashes -> Nat] /\ readers[r].hash \notin stable
  BY DEF Inv, TypeOK, StableIsAwaited, EntryGone
<1>3. /\ it' = [it EXCEPT !.current = None] /\ mutex' = NoOne /\ ended' = ended
      /\ handed' = handed /\ Goto(r, [pc |-> "lock"]) /\ UNCHANGED <<cacheVars, stable>>
  BY DEF EntryGone
<1> QED
  BY <1>1, <1>2, <1>3, ReleaseStep

-----------------------------------------------------------------------------

LEMMA NextInv == Inv /\ [CacheNext]_allVars => Inv'
<1> SUFFICES ASSUME Inv, [CacheNext]_allVars
             PROVE  Inv'
  OBVIOUS
<1>1. CASE Cache
  BY <1>1, CacheStep
<1>2. CASE NewIterator
  BY <1>2, NewIteratorStep
<1>3. ASSUME NEW r \in Readers, SetNext(r) PROVE Inv'
  BY <1>3, WaitStep DEF SetNext
<1>4. ASSUME NEW r \in Readers, Lock(r) PROVE Inv'
  BY <1>4, NextOfShardStep, NoneInShardStep DEF Lock
<1>5. ASSUME NEW r \in Readers, Moving(r) PROVE Inv'
  BY <1>5, ScanFullStep, ScanEmptyStep, ScanEndStep, EntryFoundStep, EntryGoneStep DEF Moving
<1>6. CASE UNCHANGED allVars
  BY <1>6 DEF allVars, cacheVars, iterVars, Inv, TypeOK, MutexIsHeld, BeforeIterator, InPlace,
     AheadIsNew, StableIsAwaited, Awaited, Stored, NoEntryTwice, StableKeysAreSeen
<1> QED
  BY <1>1, <1>2, <1>3, <1>4, <1>5, <1>6 DEF CacheNext, Iteration

\* The invariant holds, whatever is written, deleted, evicted and reset between
\* the steps of any number of goroutines that share the iterator.
THEOREM Invariance == CacheSpec => []Inv
  BY InitInv, NextInv, PTL DEF CacheSpec

\* An iteration that has come to its end has moved to every hash that had an
\* entry all the time (bigcache.go:215).
THEOREM StableKeysSeen == CacheSpec => []StableKeysAreSeen
<1>1. Inv => StableKeysAreSeen
  BY DEF Inv
<1> QED
  BY <1>1, Invariance, PTL

\* No hash is handed out twice.
THEOREM NothingTwice == CacheSpec => []NoEntryTwice
<1>1. Inv => NoEntryTwice
  BY DEF Inv
<1> QED
  BY <1>1, Invariance, PTL
=============================================================================
