---------------------------- MODULE LossyCache ----------------------------
(***************************************************************************)
(* What the caches of golang-lru promise: a key has the value it was last  *)
(* given or none, the key that was given one last has it, and there are no *)
(* more keys than the size and what there is to spare.  A call that does   *)
(* not remove keys loses some only to make room, and no more than make     *)
(* it: with them there were more keys than the size, and as many as the    *)
(* size are left.  A read adds no key, so that it loses none unless there  *)
(* were too many.  Which keys are lost is left open.                       *)
(***************************************************************************)
EXTENDS FiniteSets, Naturals, Functions

CONSTANTS Keys, Values, Sizes    \* the sizes given to Resize

VARIABLES
  content,   \* the values of the keys that are there
  size,      \* how many keys the cache is made for
  spare      \* how many more it may have nevertheless

cacheVars == <<content, size, spare>>

Held == Cardinality(DOMAIN content)

Init ==
  /\ content = [k \in {} |-> CHOOSE v \in Values : TRUE]
  /\ size \in Nat /\ spare \in Nat

MakesRoom == DOMAIN content \subseteq DOMAIN content' \/ Held' >= size'

Keeps(kept) == content' = Restrict(content, kept)

\* Add: other keys may have to go.
Add(key, value) ==
  /\ \E kept \in SUBSET (DOMAIN content \ {key}) :
       content' = [k \in kept \cup {key} |-> IF k = key THEN value ELSE content[k]]
  /\ MakesRoom
  /\ UNCHANGED <<size, spare>>

Get(key) ==
  /\ \E kept \in SUBSET DOMAIN content : {key} \cap DOMAIN content \subseteq kept /\ Keeps(kept)
  /\ MakesRoom
  /\ UNCHANGED <<size, spare>>

\* Remove and RemoveOldest.
Remove(key) == Keeps(DOMAIN content \ {key}) /\ UNCHANGED <<size, spare>>

Purge == Keeps({}) /\ UNCHANGED <<size, spare>>

Resize(to) ==
  /\ size' = to
  /\ \E kept \in SUBSET DOMAIN content : Keeps(kept)
  /\ MakesRoom
  /\ UNCHANGED spare

Next ==
  /\ \/ \E key \in Keys, value \in Values : Add(key, value)
     \/ \E key \in Keys : Get(key) \/ Remove(key)
     \/ \E to \in Sizes : Resize(to)
     \/ Purge
  /\ Held' <= size' + spare'

Spec == Init /\ [][Next]_cacheVars
=============================================================================
