--------------------------- MODULE MCBytesQueue ---------------------------
(***************************************************************************)
(* The byte queue of a shard with the refinement of RotatingFifo, or a     *)
(* cache of four shards and its iterator, for TLC: a behaviour uses one of *)
(* them.                                                                   *)
(***************************************************************************)
EXTENDS BytesQueueSpec, BigCache, Sequences, TLC

CONSTANTS k1, k2, k3

VARIABLE used    \* what this behaviour uses

\* k1 and k2 are in the first shard of the cache, k3 in the third.
CacheHash == (k1 :> 4) @@ (k2 :> 8) @@ (k3 :> 6)

MCInit == used \in {"queue", "cache"} /\ Init /\ CacheInit

UseQueue == used = "queue" /\ Next      /\ UNCHANGED <<used, allVars>>
UseCache == used = "cache" /\ CacheNext /\ UNCHANGED <<used, vars>>

MCNext == UseQueue \/ UseCache

\* What is not used has no step to take.
MCFairSpec == MCInit /\ [][MCNext]_<<used, vars, allVars>> /\ Fairness

-----------------------------------------------------------------------------

\* The blocks in the order of their positions.
ByPosition(blocks) ==
  [i \in 1 .. Cardinality(blocks) |->
     CHOOSE b \in blocks : Cardinality({c \in blocks : c.at <= b.at}) = i]

\* The live entries in the order in which Pop would return them.
Contents ==
  LET order == ByPosition(FrontBlocks(q)) \o ByPosition(BackBlocks(q))
  IN  [i \in DOMAIN order |-> order[i].data]

Fifo == INSTANCE RotatingFifo
          WITH Items <- 1 .. MaxPushes, Filler <- ZeroBlob, items <- Contents

\* The queue implements a FIFO queue that reallocation may rotate.
RefinesRotatingFifo == Fifo!Spec
=============================================================================
