----------------------------- MODULE MCGoCache -----------------------------
(***************************************************************************)
(* A go-cache, or a sharded one, for TLC: a behaviour uses one of them.    *)
(***************************************************************************)
EXTENDS GoCache, TLC

CONSTANTS k1, k2

CONSTANTS Users, NumBuckets, Bucket, Lives, MaxTime, MaxSets    \* of ShardedGoCache

ASSUME ShardedAssumption ==
  /\ NumBuckets \in Nat /\ Bucket \in [Keys -> 0 .. NumBuckets - 1]
  /\ Lives \subseteq Nat /\ MaxTime \in Nat /\ MaxSets \in Nat

VARIABLES
  used,    \* what this behaviour uses
  shardItems, time, users, janitor, finalizer, sets    \* ShardedGoCache

shardedVars == <<shardItems, time, users, janitor, finalizer, sets>>

\* A file with an item that has expired and one that never does, and a file with
\* an item that has expired for Increment and not for Get.
Files == {(k1 :> [type |-> "signed", n |-> 1, expiration |-> 1])
            @@ (k2 :> [type |-> "unsigned", n |-> 1, expiration |-> 0]),
          (k1 :> [type |-> "signed", n |-> 1, expiration |-> -1])
            @@ (k2 :> [type |-> "float", n |-> 0, expiration |-> 0])}

\* The integers have two bits, so that they wrap at both ends; the unsigned ones,
\* the floats and what never expires come from a file.
Objects == {[type |-> "signed", n |-> 1, d |-> 0]}

\* The first of three buckets has no key.
Buckets == (k1 :> 1) @@ (k2 :> 2)

Sharded == INSTANCE ShardedGoCache WITH items <- shardItems

MCInit == used \in {"cache", "sharded"} /\ Init /\ Sharded!Init

UseCache   == used = "cache"   /\ Next         /\ UNCHANGED <<used, shardedVars>>
UseSharded == used = "sharded" /\ Sharded!Next /\ UNCHANGED <<used, vars>>

MCNext == UseCache \/ UseSharded

\* What is not used has no fair step to take.
MCFairSpec ==
  MCInit /\ [][MCNext]_<<used, vars, shardedVars>> /\ Fairness /\ Sharded!Fairness

-----------------------------------------------------------------------------

\* DeleteExpired and Flush miss no bucket (sharded.go).
SweepsAreWhole == Sharded!SweepsAreWhole

\* The finalizers that stop the janitors return, unless the janitor panicked
\* (cache.go:1108) or, of the sharded cache, has not made its channel when the
\* finalizer reads it (sharded.go:144).
StopsReturn == StopReturns /\ Sharded!StopReturns
=============================================================================
