----------------------------- MODULE ARCCache -----------------------------
(***************************************************************************)
(* The adaptive replacement cache of golang-lru (src/golang-lru/arc.go):   *)
(* t1 has the keys used once, t2 those used again, b1 and b2 the ghosts of *)
(* what was evicted from each, and p the length t1 should have.  Every     *)
(* method holds the lock throughout, so that a call is one step; there is  *)
(* one action for each of its ways.                                        *)
(***************************************************************************)
EXTENDS SimpleLRU, LRUSizes, Integers

VARIABLES t1, t2, b1, b2, p

arcVars == <<t1, t2, b1, b2, p>>

ARCInit ==
  /\ t1 = NewLRU(Size) /\ t2 = NewLRU(Size)
  /\ b1 = NewLRU(Size) /\ b2 = NewLRU(Size)
  /\ p = 0

Resident(key) == Contains(t1, key) \/ Contains(t2, key)

IsFull == Length(t1) + Length(t2) >= Size

\* How far a hit in one list of ghosts moves p: the more the shorter it is.
Delta(hit, other) ==
  IF Length(other) > Length(hit) THEN Length(other) \div Length(hit) ELSE 1

\* Faulty: does not stop at the size.
RaisedUnchecked(delta) == p + delta

Raised(delta)  == IF p + delta >= Size THEN Size ELSE p + delta
Lowered(delta) == IF delta >= p THEN 0 ELSE p - delta

\* replace evicts from t1, or it evicts from t2.
ReplacesT1(target, inB2) ==
  /\ Length(t1) > 0
  /\ Length(t1) > target \/ (Length(t1) = target /\ inB2)

\* The ghosts with the oldest of a list, which is being evicted.
Ghosted(ghosts, list) ==
  IF list.evictList = <<>> THEN ghosts ELSE Add(ghosts, Oldest(list).key, Nil)

\* What replace makes of the four lists: nothing, unless there is no room.
T1After(target, inB2) ==
  IF IsFull /\ ReplacesT1(target, inB2) THEN removeOldest(t1) ELSE t1
B1After(target, inB2) ==
  IF IsFull /\ ReplacesT1(target, inB2) THEN Ghosted(b1, t1) ELSE b1
T2After(target, inB2) ==
  IF IsFull /\ ~ReplacesT1(target, inB2) THEN removeOldest(t2) ELSE t2
B2After(target, inB2) ==
  IF IsFull /\ ~ReplacesT1(target, inB2) THEN Ghosted(b2, t2) ELSE b2

\* Faulty: leaves the key in t1 too.
PromoteCopied(key, value) ==
  /\ Contains(t1, key)
  /\ t2' = Add(t2, key, value)
  /\ UNCHANGED <<t1, b1, b2, p>>

\* Get and Add of a key of t1 promote it.
ARCPromote(key, value) ==
  /\ Contains(t1, key)
  /\ t1' = Remove(t1, key)
  /\ t2' = Add(t2, key, value)
  /\ UNCHANGED <<b1, b2, p>>

GetT1(key)        == Contains(t1, key) /\ ARCPromote(key, Peek(t1, key))
AddT1(key, value) == ARCPromote(key, value)

GetT2(key) ==
  /\ ~Contains(t1, key) /\ Contains(t2, key)
  /\ t2' = Get(t2, key)
  /\ UNCHANGED <<t1, b1, b2, p>>

AddT2(key, value) ==
  /\ ~Contains(t1, key) /\ Contains(t2, key)
  /\ t2' = Add(t2, key, value)
  /\ UNCHANGED <<t1, b1, b2, p>>

\* Add of a ghost of b1: t1 was too short.
AddB1(key, value) ==
  /\ ~Resident(key) /\ Contains(b1, key)
  /\ p' = Raised(Delta(b1, b2))
  /\ t1' = T1After(p', FALSE)
  /\ t2' = Add(T2After(p', FALSE), key, value)
  /\ b1' = Remove(B1After(p', FALSE), key)
  /\ b2' = B2After(p', FALSE)

\* Add of a ghost of b2: t2 was too short.
AddB2(key, value) ==
  /\ ~Resident(key) /\ ~Contains(b1, key) /\ Contains(b2, key)
  /\ p' = Lowered(Delta(b2, b1))
  /\ t1' = T1After(p', TRUE)
  /\ t2' = Add(T2After(p', TRUE), key, value)
  /\ b1' = B1After(p', TRUE)
  /\ b2' = Remove(B2After(p', TRUE), key)

\* A list of ghosts that may be one too long.
Trim(ghosts, bound) ==
  IF Length(ghosts) > bound THEN removeOldest(ghosts) ELSE ghosts

\* Add of any other key, which also keeps the lists of ghosts short.
ARCAddNew(key, value) ==
  /\ ~Resident(key) /\ ~Contains(b1, key) /\ ~Contains(b2, key)
  /\ t1' = Add(T1After(p, FALSE), key, value)
  /\ t2' = T2After(p, FALSE)
  /\ b1' = Trim(B1After(p, FALSE), Size - p)
  /\ b2' = Trim(B2After(p, FALSE), p)
  /\ UNCHANGED p

\* Remove tries t1, t2, b1 and b2, and stops at the first that has the key.
ARCRemoveKey(key) ==
  /\ \/ /\ Contains(t1, key)
        /\ t1' = Remove(t1, key)
        /\ UNCHANGED <<t2, b1, b2>>
     \/ /\ ~Contains(t1, key) /\ Contains(t2, key)
        /\ t2' = Remove(t2, key)
        /\ UNCHANGED <<t1, b1, b2>>
     \/ /\ ~Resident(key) /\ Contains(b1, key)
        /\ b1' = Remove(b1, key)
        /\ UNCHANGED <<t1, t2, b2>>
     \/ /\ ~Resident(key) /\ ~Contains(b1, key)
        /\ b2' = Remove(b2, key)
        /\ UNCHANGED <<t1, t2, b1>>
  /\ UNCHANGED p

\* p is not reset.
ARCPurgeAll ==
  /\ t1' = Purge(t1) /\ t2' = Purge(t2)
  /\ b1' = Purge(b1) /\ b2' = Purge(b2)
  /\ UNCHANGED p

ARCAdd(key, value) ==
  \/ AddT1(key, value) \/ AddT2(key, value)
  \/ AddB1(key, value) \/ AddB2(key, value)
  \/ ARCAddNew(key, value)

ARCGet(key) == GetT1(key) \/ GetT2(key)

ARCNext ==
  \/ \E key \in Keys, value \in Values : ARCAdd(key, value)
  \/ \E key \in Keys : ARCGet(key) \/ ARCRemoveKey(key)
  \/ ARCPurgeAll

ARCSpec == ARCInit /\ [][ARCNext]_arcVars

-----------------------------------------------------------------------------

\* The four lists are well formed, and no key is in two of them: it is
\* resident once, or it is a ghost once.
ARCKeyInOneList ==
  /\ \A c \in {t1, t2, b1, b2} : IsLRU(c) /\ Consistent(c) /\ Bounded(c)
  /\ t1.items \cap t2.items = {} /\ b1.items \cap b2.items = {}
  /\ (t1.items \cup t2.items) \cap (b1.items \cup b2.items) = {}

\* p is a length t1 may have.
ARCTargetInRange == p \in 0 .. Size

\* "A thread-safe fixed size Adaptive Replacement Cache" (arc.go:9).
ARCHoldsItsSize == Length(t1) + Length(t2) <= Size

\* By how much the code may miss it.
ARCHoldsOneTooMany == Length(t1) + Length(t2) <= Size + 1

ARCPeekKey(key) == IF Contains(t1, key) THEN Peek(t1, key) ELSE Peek(t2, key)

\* The mapping from keys to values: Keys, and what Peek gives for them.
ARCHeld == [key \in t1.items \cup t2.items |-> ARCPeekKey(key)]

\* An ARC is a lossy cache with one to spare: what is promoted or brought back
\* keeps the value it was given last.
ARCPromise == INSTANCE LossyCache WITH content <- ARCHeld, size <- Size, spare <- 1

\* Each method does what it promises.  While there is one key too many, Get may
\* promote a key to a t2 that is full, which drops another; it loses none else,
\* and Add no more than it must (arc.go:62, 84).
ARCCallIsKept ==
  /\ \A key \in Keys, value \in Values : ARCAdd(key, value) => ARCPromise!Add(key, value)
  /\ \A key \in Keys : ARCGet(key) => ARCPromise!Get(key)
  /\ \A key \in Keys : ARCRemoveKey(key) => ARCPromise!Remove(key)
  /\ ARCPurgeAll => ARCPromise!Purge

ARCKeepsPromise == ARCPromise!Spec /\ [][ARCCallIsKept]_arcVars
=============================================================================
