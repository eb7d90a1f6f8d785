------------------------------ MODULE LRUSizes ------------------------------
(***************************************************************************)
(* The sizes the caches of golang-lru are made with.                       *)
(***************************************************************************)
EXTENDS Naturals

CONSTANTS
  InitSize,     \* LRUCache: the size given to New
  Sizes,        \* LRUCache: the sizes given to Resize
  Size,         \* TwoQueueCache and ARCCache: the size given to their New
  RecentSizes,  \* TwoQueueCache: int(size * recentRatio), for some ratios
  GhostSize     \* TwoQueueCache: int(size * ghostRatio)

\* NewLRU refuses sizes that are not positive, those of ghosts included; Resize
\* does not, but is given none here.
ASSUME SizesAssumption ==
  /\ InitSize \in Nat \ {0} /\ Sizes \subseteq Nat \ {0}
  /\ Size \in Nat \ {0} /\ GhostSize \in Nat \ {0}
  /\ RecentSizes \subseteq 0 .. Size
=============================================================================
