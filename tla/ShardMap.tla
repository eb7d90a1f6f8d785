------------------------------ MODULE ShardMap ------------------------------
(***************************************************************************)
(* What a shard of bigcache promises to those who share it: a map from     *)
(* hashes to entries.  A write gives the hash of its key a new entry, and  *)
(* entries may be lost at any time, for they expire, are evicted, deleted  *)
(* and reset.  Nothing else changes, and nothing that was lost comes back. *)
(***************************************************************************)
CONSTANTS
  Keys,
  HashOf,    \* the hash of each key
  Nothing    \* there is no entry

VARIABLE store    \* for each hash its entry, which has the key

Hashes == {HashOf[k] : k \in Keys}

Empty == [h \in Hashes |-> Nothing]

\* Each entry of next that prev does not have is lost.
OnlyLoses(prev, next, hashes) == \A h \in hashes : next[h] \in {prev[h], Nothing}

Lose == OnlyLoses(store, store', Hashes)

\* The entry of another key with the same hash is replaced.
Write(key) ==
  /\ store'[HashOf[key]] # Nothing
  /\ store'[HashOf[key]].key = key
  /\ OnlyLoses(store, store', Hashes \ {HashOf[key]})

Next == Lose \/ \E key \in Keys : Write(key)

Spec == store = Empty /\ [][Next]_store
=============================================================================
