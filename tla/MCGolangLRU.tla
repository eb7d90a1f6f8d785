---------------------------- MODULE MCGolangLRU ----------------------------
(***************************************************************************)
(* The three caches of golang-lru for TLC: a behaviour uses one of them.   *)
(***************************************************************************)
EXTENDS LRUCache, TwoQueueCache, ARCCache, FiniteSets, TLC

VARIABLE used   \* the cache this behaviour uses

\* No key is special.
KeySymmetry == Permutations(Keys)

Init ==
  /\ used \in {"lru", "2q", "arc"}
  /\ LRUInit /\ TwoQueueInit /\ ARCInit

UseLRU      == used = "lru" /\ LRUNext      /\ UNCHANGED <<used, twoQueueVars, arcVars>>
UseTwoQueue == used = "2q"  /\ TwoQueueNext /\ UNCHANGED <<used, lruVars, arcVars>>
UseARC      == used = "arc" /\ ARCNext      /\ UNCHANGED <<used, lruVars, twoQueueVars>>

Next == UseLRU \/ UseTwoQueue \/ UseARC

vars == <<used, lruVars, twoQueueVars, arcVars>>

Spec == Init /\ [][Next]_vars

-----------------------------------------------------------------------------

\* Each is a lossy cache, 2Q and ARC with one key to spare where replace and
\* ensureSpace need it (ARCHoldsItsSize), and each call does what it promises:
\* Get returns what was last added and loses nothing, unless there is one key too
\* many; other calls lose keys only to make room; what is promoted, evicted,
\* resized or brought back keeps its value (lru.go, 2q.go, arc.go).
KeepsPromise == LRUKeepsPromise /\ TwoQueueKeepsPromise /\ ARCKeepsPromise

\* The list and the map of the LRU agree, and no key of 2Q or of ARC is in two of
\* its lists (2q.go:131, arc.go:104).
KeysAreInOneList ==
  ListMatchesItems /\ TwoQueueKeyInOneList /\ ARCKeyInOneList
=============================================================================
