----------------------------- MODULE ByteCache -----------------------------
(***************************************************************************)
(* A cache of a groupcache group as a value: the LRU of groupcache/lru, the*)
(* key used last in front, under the cache of groupcache.go, which counts  *)
(* the bytes of what it holds.  Each method holds the cache's lock.        *)
(***************************************************************************)
EXTENDS Integers, Sequences

CONSTANTS
  Keys,
  Bytes      \* the bytes of a key and its value

Seqs == INSTANCE SequencesExt

EmptyCache == [keys |-> <<>>, nbytes |-> 0]

KeysIn(c) == {c.keys[i] : i \in DOMAIN c.keys}

\* An element of a list is there once.
Without(c, key) ==
  IF key \in KeysIn(c)
  THEN Seqs!RemoveAt(c.keys, CHOOSE i \in DOMAIN c.keys : c.keys[i] = key)
  ELSE c.keys

MoveToFront(c, key) == [c EXCEPT !.keys = <<key>> \o Without(c, key)]

\* The bytes are counted whether or not the key was there.
add(c, key) == [MoveToFront(c, key) EXCEPT !.nbytes = @ + Bytes[key]]

get(c, key) == IF key \in KeysIn(c) THEN MoveToFront(c, key) ELSE c

\* OnEvicted takes the bytes off again.
removeOldest(c) ==
  IF c.keys = <<>> THEN c
  ELSE [keys |-> Seqs!Front(c.keys), nbytes |-> c.nbytes - Bytes[Seqs!Last(c.keys)]]

-----------------------------------------------------------------------------

\* What the entries of a cache take: the first n of them, and all.
TotalBytes(c) ==
  LET first[n \in 0 .. Len(c.keys)] == IF n = 0 THEN 0 ELSE first[n - 1] + Bytes[c.keys[n]]
  IN  first[Len(c.keys)]
=============================================================================
