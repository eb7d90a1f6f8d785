--------------------------- MODULE ConsistentHash ---------------------------
(***************************************************************************)
(* The ring of groupcache/consistenthash as a value: the hashMap, whose    *)
(* domain is what the sorted keys hold.                                    *)
(***************************************************************************)
EXTENDS Naturals, Sequences

CONSTANTS
  KeyHash,       \* the hash of a key
  ReplicaHash    \* the hashes of a peer's replicas

EmptyRing == [point \in {} |-> {}]

IsEmpty(ring) == DOMAIN ring = {}

\* A replica whose hash is taken takes the point over, so the peer that comes
\* last has it.
AddPeers(ring, peers) ==
  LET those(point) == {i \in DOMAIN peers : point \in ReplicaHash[peers[i]]}
  IN  [point \in DOMAIN ring \cup UNION {ReplicaHash[peers[i]] : i \in DOMAIN peers} |->
         IF those(point) = {} THEN ring[point]
         ELSE peers[CHOOSE i \in those(point) : \A j \in those(point) : j <= i]]

First(points) == CHOOSE point \in points : \A other \in points : point <= other

\* The first point from the key's hash on, or else the first of all.
Owner(ring, key) ==
  LET after == {point \in DOMAIN ring : point >= KeyHash[key]}
  IN  ring[First(IF after = {} THEN DOMAIN ring ELSE after)]
=============================================================================
