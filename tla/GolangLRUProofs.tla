--------------------------- MODULE GolangLRUProofs ---------------------------
(***************************************************************************)
(* The caches of golang-lru for any keys, values and sizes.  The LRU: the  *)
(* list and the map agree, it is the least recently used keys that go, and *)
(* what goes is reported.  2Q and ARC: no key is in two lists, which share *)
(* the size, the frequent keys of 2Q earned it and are not pushed out by   *)
(* new ones, the target of ARC is a length.  No key of the three has a     *)
(* value it was not given last, and no call loses one that it need not.    *)
(***************************************************************************)
EXTENDS MCGolangLRU, Integers, SequenceTheorems, FiniteSetTheorems, TLAPS

(***************************************************************************)
(* The methods of simplelru: what each makes of an LRU.                    *)
(***************************************************************************)

\* The list and the map of an LRU agree; there may be one element too many.
Agrees(c) == IsLRU(c) /\ Consistent(c)

WellFormed(c) == Agrees(c) /\ Bounded(c)

AnyValue == Values \cup {Nil}

-----------------------------------------------------------------------------
(* Sequences.                                                              *)

LEMMA WithoutElement ==
  ASSUME NEW S, NEW s \in Seq(S), NEW i \in 1 .. Len(s)
  PROVE  LET rest == Seqs!RemoveAt(s, i)
         IN  /\ rest \in Seq(S) /\ Len(rest) = Len(s) - 1
             /\ \A j \in 1 .. Len(s) - 1 : rest[j] = IF j < i THEN s[j] ELSE s[j + 1]
<1> DEFINE n     == Len(s)
           front == SubSeq(s, 1, i - 1)
           back  == SubSeq(s, i + 1, n)
           rest  == front \o back
<1>1. n \in Nat /\ \A j \in 1 .. n : s[j] \in S
  BY LenProperties, ElementOfSeq
<1>2. front \in Seq(S) /\ Len(front) = i - 1 /\ \A j \in 1 .. i - 1 : front[j] = s[j]
  <2> HIDE DEF n
  <2>1. /\ i \in Int /\ i - 1 \in Int /\ \A j \in 1 .. i - 1 : s[j] \in S
        /\ i - 1 - 1 + 1 = i - 1 /\ (~(1 <= i - 1) => i - 1 = 0)
        /\ \A j \in 1 .. i - 1 : 1 + j - 1 = j
    BY <1>1 DEF n
  <2> QED
    BY <2>1, SubSeqProperties
<1>3. back \in Seq(S) /\ Len(back) = n - i /\ \A j \in 1 .. n - i : back[j] = s[i + j]
  <2> HIDE DEF n
  <2>1. /\ i + 1 \in Int /\ n \in Int /\ \A j \in i + 1 .. n : s[j] \in S
        /\ n - (i + 1) + 1 = n - i /\ (~(i + 1 <= n) => n - i = 0)
        /\ \A j \in 1 .. n - i : i + 1 + j - 1 = i + j
    BY <1>1 DEF n
  <2> QED
    BY <2>1, SubSeqProperties
<1> HIDE DEF front, back
<1>4. /\ rest \in Seq(S) /\ Len(rest) = Len(front) + Len(back)
      /\ \A j \in 1 .. Len(front) + Len(back) :
           rest[j] = IF j <= Len(front) THEN front[j] ELSE back[j - Len(front)]
  BY <1>2, <1>3, ConcatProperties
<1>5. Seqs!RemoveAt(s, i) = rest
  BY DEF Seqs!RemoveAt, front, back, n
<1> HIDE DEF n, rest
<1>6. n = Len(s)
  BY DEF n
<1>7. Len(rest) = n - 1
  BY <1>1, <1>2, <1>3, <1>4, <1>6
<1>8. ASSUME NEW j \in 1 .. n - 1
      PROVE  rest[j] = IF j < i THEN s[j] ELSE s[j + 1]
  <2>1. CASE j < i
    <3>1. j \in 1 .. i - 1 /\ j \in 1 .. Len(front) + Len(back) /\ j <= Len(front)
      BY <1>1, <1>2, <1>3, <1>6, <2>1
    <3> QED
      BY <1>2, <1>4, <2>1, <3>1
  <2>2. CASE ~(j < i)
    <3>1. /\ j \in 1 .. Len(front) + Len(back) /\ ~(j <= Len(front))
          /\ j - Len(front) \in 1 .. n - i /\ i + (j - Len(front)) = j + 1
      BY <1>1, <1>2, <1>3, <1>6, <2>2
    <3> QED
      BY <1>3, <1>4, <2>2, <3>1
  <2> QED
    BY <2>1, <2>2
<1> QED
  BY <1>4, <1>5, <1>6, <1>7, <1>8

LEMMA Prepended ==
  ASSUME NEW S, NEW s \in Seq(S), NEW e \in S
  PROVE  LET all == <<e>> \o s
         IN  /\ all \in Seq(S) /\ Len(all) = Len(s) + 1
             /\ \A j \in 1 .. Len(s) + 1 : all[j] = IF j = 1 THEN e ELSE s[j - 1]
<1>1. <<e>> \in Seq(S) /\ Len(<<e>>) = 1 /\ <<e>>[1] = e /\ Len(s) \in Nat
  BY LenProperties
<1>2. /\ <<e>> \o s \in Seq(S) /\ Len(<<e>> \o s) = 1 + Len(s)
      /\ \A j \in 1 .. 1 + Len(s) : (<<e>> \o s)[j] = IF j <= 1 THEN e ELSE s[j - 1]
  BY <1>1, ConcatProperties
<1> DEFINE all == <<e>> \o s
<1> HIDE DEF all
<1>3. /\ all \in Seq(S) /\ Len(all) = Len(s) + 1
      /\ \A j \in 1 .. Len(s) + 1 : all[j] = IF j = 1 THEN e ELSE s[j - 1]
  BY <1>1, <1>2 DEF all
<1> QED
  BY <1>3 DEF all

-----------------------------------------------------------------------------
(* The parts of the methods.                                               *)

LEMMA Fields ==
  ASSUME NEW c, IsLRU(c)
  PROVE  /\ c.evictList \in Seq(Entries) /\ Length(c) \in Nat /\ DOMAIN c.evictList = 1 .. Length(c)
         /\ \A i \in 1 .. Length(c) : c.evictList[i] \in Entries /\ c.evictList[i].key \in Keys
                                      /\ c.evictList[i].value \in AnyValue
         /\ c.evictList = <<>> <=> Length(c) = 0
<1>1. c.evictList \in Seq(Entries)
  BY DEF IsLRU
<1>2. Length(c) \in Nat /\ DOMAIN c.evictList = 1 .. Length(c)
  BY <1>1, LenProperties DEF Length
<1>3. \A i \in 1 .. Length(c) : c.evictList[i] \in Entries
  BY <1>1, ElementOfSeq DEF Length
<1>4. \A i \in 1 .. Length(c) : c.evictList[i].key \in Keys /\ c.evictList[i].value \in AnyValue
  BY <1>3 DEF Entries, AnyValue
<1>5. c.evictList = <<>> <=> Length(c) = 0
  BY <1>1, EmptySeq DEF Length
<1> QED
  BY <1>1, <1>2, <1>3, <1>4, <1>5

\* A key of the map is in the list, at its position.
LEMMA PositionIsThere ==
  ASSUME NEW c, Agrees(c), NEW key, Contains(c, key)
  PROVE  /\ Position(c.evictList, key) \in 1 .. Length(c)
         /\ c.evictList[Position(c.evictList, key)].key = key
         /\ Peek(c, key) \in AnyValue
<1>1. \E i \in DOMAIN c.evictList : c.evictList[i].key = key
  BY DEF Agrees, Consistent, KeysOf, Contains
<1>2. DOMAIN c.evictList = 1 .. Length(c)
  BY Fields DEF Agrees
<1>3. /\ Position(c.evictList, key) \in DOMAIN c.evictList
      /\ c.evictList[Position(c.evictList, key)].key = key
  BY <1>1 DEF Position
<1>4. Peek(c, key) \in AnyValue
  BY <1>2, <1>3, Fields DEF Peek, Agrees
<1> QED
  BY <1>2, <1>3, <1>4

LEMMA ElementRemoved ==
  ASSUME NEW c, Agrees(c), NEW i \in 1 .. Length(c)
  PROVE  LET d == removeElement(c, i)
         IN  /\ Agrees(d) /\ d.size = c.size /\ d.items = c.items \ {c.evictList[i].key}
             /\ d.evictList = Seqs!RemoveAt(c.evictList, i)
             /\ c.evictList[i].key \in c.items /\ Length(d) = Length(c) - 1
<1> DEFINE s    == c.evictList
           n    == Length(c)
           rest == Seqs!RemoveAt(s, i)
           gone == s[i].key
           d    == removeElement(c, i)
<1>1. /\ s \in Seq(Entries) /\ n \in Nat /\ n = Len(s) /\ DOMAIN s = 1 .. n
  BY Fields DEF Agrees, Length
<1>2. /\ rest \in Seq(Entries) /\ Len(rest) = n - 1
      /\ \A j \in 1 .. n - 1 : rest[j] = IF j < i THEN s[j] ELSE s[j + 1]
  BY <1>1, WithoutElement
<1>3. DOMAIN rest = 1 .. n - 1
  BY <1>2, LenProperties
<1>4. c.items = {s[j].key : j \in 1 .. n}
  BY <1>1 DEF Agrees, Consistent, KeysOf
<1>5. d.size = c.size /\ d.evictList = rest /\ d.items = c.items \ {gone}
      /\ d = [size |-> d.size, evictList |-> d.evictList, items |-> d.items]
  <2>1. d = [c EXCEPT !.evictList = rest, !.items = c.items \ {gone}]
    BY DEF removeElement
  <2> HIDE DEF d, rest, gone
  <2>2. /\ d = [size |-> c.size, evictList |-> rest, items |-> c.items \ {gone}]
        /\ d.size = c.size /\ d.evictList = rest /\ d.items = c.items \ {gone}
    <3>1. c = [size |-> c.size, evictList |-> c.evictList, items |-> c.items]
      BY DEF Agrees, IsLRU
    <3>2. d = [size |-> c.size, evictList |-> rest, items |-> c.items \ {gone}]
      BY <2>1, <3>1
    <3> QED
      BY <3>2
  <2> QED
    BY <2>2
<1>6. \A j, k \in 1 .. n : s[j].key = s[k].key => j = k
  BY <1>1 DEF Agrees, Consistent
<1> HIDE DEF s, n, rest, gone, d
<1>7. i \in 1 .. n /\ gone = s[i].key
  BY DEF n, gone, s
<1>8. \A j, k \in 1 .. n - 1 : rest[j].key = rest[k].key => j = k
  BY <1>1, <1>2, <1>6, <1>7
<1>9. {rest[j].key : j \in 1 .. n - 1} = c.items \ {gone}
  <2>1. ASSUME NEW j \in 1 .. n - 1 PROVE rest[j].key \in c.items \ {gone}
    <3>1. PICK k \in 1 .. n : rest[j] = s[k] /\ k # i
      BY <1>1, <1>2, <1>7
    <3> QED
      BY <1>4, <1>6, <1>7, <3>1
  <2>2. ASSUME NEW key \in c.items \ {gone} PROVE \E j \in 1 .. n - 1 : rest[j].key = key
    <3>1. PICK k \in 1 .. n : s[k].key = key /\ k # i
      BY <1>4, <1>7
    <3>2. CASE k < i
      <4>1. k \in 1 .. n - 1 /\ rest[k] = s[k]
        BY <1>1, <1>2, <1>7, <3>2
      <4> QED
        BY <3>1, <4>1
    <3>3. CASE ~(k < i)
      <4>1. k - 1 \in 1 .. n - 1 /\ ~(k - 1 < i) /\ k - 1 + 1 = k
        BY <1>1, <1>7, <3>1, <3>3
      <4>2. rest[k - 1] = s[k]
        BY <1>2, <4>1
      <4> QED
        BY <3>1, <4>1, <4>2
    <3> QED
      BY <3>2, <3>3
  <2> QED
    BY <2>1, <2>2
<1>10. IsLRU(d)
  BY <1>2, <1>5 DEF IsLRU, Agrees
<1>11. Consistent(d)
  BY <1>3, <1>5, <1>8, <1>9 DEF Consistent, KeysOf
<1>12. gone \in c.items
  BY <1>4, <1>7
<1>13. Length(d) = n - 1
  BY <1>2, <1>5 DEF Length
<1> QED
  BY <1>5, <1>10, <1>11, <1>12, <1>13 DEF Agrees, d, gone, rest, s, n

LEMMA Pushed ==
  ASSUME NEW c, Agrees(c), NEW key \in Keys, ~Contains(c, key), NEW value \in AnyValue
  PROVE  LET d == PushFront(c, key, value)
         IN  /\ Agrees(d) /\ d.size = c.size /\ d.items = c.items \cup {key}
             /\ d.evictList = <<[key |-> key, value |-> value]>> \o c.evictList
             /\ Length(d) = Length(c) + 1
<1> DEFINE s   == c.evictList
           n   == Length(c)
           e   == [key |-> key, value |-> value]
           all == <<e>> \o s
           d   == PushFront(c, key, value)
<1>1. /\ s \in Seq(Entries) /\ n \in Nat /\ n = Len(s) /\ DOMAIN s = 1 .. n
  BY Fields DEF Agrees, Length
<1>2. e \in Entries /\ e.key = key
  BY DEF Entries, AnyValue
<1>3. d.size = c.size /\ d.evictList = all /\ d.items = c.items \cup {key}
      /\ d = [size |-> d.size, evictList |-> d.evictList, items |-> d.items]
  <2>1. d = [c EXCEPT !.evictList = all, !.items = c.items \cup {key}]
    BY DEF PushFront
  <2> HIDE DEF d, all
  <2>2. /\ d = [size |-> c.size, evictList |-> all, items |-> c.items \cup {key}]
        /\ d.size = c.size /\ d.evictList = all /\ d.items = c.items \cup {key}
    <3>1. c = [size |-> c.size, evictList |-> c.evictList, items |-> c.items]
      BY DEF Agrees, IsLRU
    <3>2. d = [size |-> c.size, evictList |-> all, items |-> c.items \cup {key}]
      BY <2>1, <3>1
    <3> QED
      BY <3>2
  <2> QED
    BY <2>2
<1>4. c.items = {s[j].key : j \in 1 .. n}
  BY <1>1 DEF Agrees, Consistent, KeysOf
<1>5. \A j, k \in 1 .. n : s[j].key = s[k].key => j = k
  BY <1>1 DEF Agrees, Consistent
<1> HIDE DEF s, n, e
<1>6. /\ all \in Seq(Entries) /\ Len(all) = n + 1
      /\ \A j \in 1 .. n + 1 : all[j] = IF j = 1 THEN e ELSE s[j - 1]
  BY <1>1, <1>2, Prepended
<1> HIDE DEF all, d
<1>7. DOMAIN all = 1 .. n + 1
  BY <1>6, LenProperties
<1>8. \A j \in 1 .. n + 1 : j # 1 => j - 1 \in 1 .. n
  BY <1>1
<1>9. \A j \in 1 .. n : s[j].key # key
  BY <1>4 DEF Contains
<1>10. \A j, k \in 1 .. n + 1 : all[j].key = all[k].key => j = k
  <2> SUFFICES ASSUME NEW j \in 1 .. n + 1, NEW k \in 1 .. n + 1, all[j].key = all[k].key
               PROVE  j = k
    OBVIOUS
  <2>1. CASE j = 1 \/ k = 1
    BY <1>2, <1>6, <1>8, <1>9, <2>1
  <2>2. CASE j # 1 /\ k # 1
    <3>1. all[j] = s[j - 1] /\ all[k] = s[k - 1] /\ j - 1 \in 1 .. n /\ k - 1 \in 1 .. n
      BY <1>6, <1>8, <2>2
    <3>2. j - 1 = k - 1
      BY <1>5, <3>1
    <3> QED
      BY <3>2
  <2> QED
    BY <2>1, <2>2
<1>11. {all[j].key : j \in 1 .. n + 1} = c.items \cup {key}
  <2>1. ASSUME NEW j \in 1 .. n + 1 PROVE all[j].key \in c.items \cup {key}
    BY <1>2, <1>4, <1>6, <1>8
  <2>2. ASSUME NEW k \in 1 .. n PROVE \E j \in 1 .. n + 1 : all[j].key = s[k].key
    <3>1. k + 1 \in 1 .. n + 1 /\ k + 1 # 1 /\ k + 1 - 1 = k
      BY <1>1
    <3> QED
      BY <1>6, <3>1
  <2>3. 1 \in 1 .. n + 1 /\ all[1].key = key
    BY <1>1, <1>2, <1>6
  <2> QED
    BY <1>4, <2>1, <2>2, <2>3
<1>12. IsLRU(d)
  BY <1>3, <1>6 DEF IsLRU, Agrees
<1>13. Consistent(d)
  BY <1>3, <1>7, <1>10, <1>11 DEF Consistent, KeysOf
<1>14. Length(d) = n + 1
  BY <1>3, <1>6 DEF Length
<1> QED
  BY <1>3, <1>12, <1>13, <1>14 DEF Agrees, d, n, all, e, s

\* What comes to the front was taken out and pushed again.
LEMMA Moved ==
  ASSUME NEW c, Agrees(c), NEW key \in Keys, Contains(c, key), NEW value \in AnyValue
  PROVE  LET d == MoveToFront(c, key, value)
         IN  /\ Agrees(d) /\ d.size = c.size /\ d.items = c.items /\ Length(d) = Length(c)
             /\ d.evictList = <<[key |-> key, value |-> value]>> \o
                               Seqs!RemoveAt(c.evictList, Position(c.evictList, key))
<1> DEFINE i    == Position(c.evictList, key)
           rest == removeElement(c, i)
           d    == MoveToFront(c, key, value)
<1>1. i \in 1 .. Length(c) /\ c.evictList[i].key = key
  BY PositionIsThere
<1>2. /\ Agrees(rest) /\ rest.size = c.size /\ rest.items = c.items \ {key}
      /\ rest.evictList = Seqs!RemoveAt(c.evictList, i) /\ Length(rest) = Length(c) - 1
  BY <1>1, ElementRemoved
<1>3. d = PushFront(rest, key, value)
  <2>1. c = [size |-> c.size, evictList |-> c.evictList, items |-> c.items]
    BY DEF Agrees, IsLRU
  <2>2. rest = [size |-> c.size, evictList |-> Seqs!RemoveAt(c.evictList, i), items |-> c.items \ {key}]
    BY <1>2 DEF Agrees, IsLRU
  <2> HIDE DEF rest
  <2>3. (c.items \ {key}) \cup {key} = c.items
    BY DEF Contains
  <2> DEFINE all == <<[key |-> key, value |-> value]>> \o Seqs!RemoveAt(c.evictList, i)
  <2>4. d = [c EXCEPT !.evictList = all]
    BY DEF MoveToFront
  <2>5. PushFront(rest, key, value) =
          [size |-> c.size, evictList |-> all, items |-> (c.items \ {key}) \cup {key}]
    <3> HIDE DEF i
    <3> DEFINE left == Seqs!RemoveAt(c.evictList, i)
    <3>1. rest = [size |-> c.size, evictList |-> left, items |-> c.items \ {key}]
      BY <2>2
    <3>2. PushFront(rest, key, value) =
            [rest EXCEPT !.evictList = <<[key |-> key, value |-> value]>> \o @, !.items = @ \cup {key}]
      BY DEF PushFront
    <3> HIDE DEF left
    <3>3. PushFront(rest, key, value) =
            [size |-> c.size, evictList |-> <<[key |-> key, value |-> value]>> \o left,
             items |-> (c.items \ {key}) \cup {key}]
      BY <3>1, <3>2
    <3> QED
      BY <3>3 DEF left
  <2> HIDE DEF all, d
  <2>6. d = [size |-> c.size, evictList |-> all, items |-> c.items]
    BY <2>1, <2>4
  <2> QED
    BY <2>3, <2>5, <2>6
<1> HIDE DEF rest, d
<1>4. ~Contains(rest, key)
  BY <1>2 DEF Contains
<1>5. /\ Agrees(d) /\ d.size = c.size /\ d.items = (c.items \ {key}) \cup {key}
      /\ Length(d) = Length(rest) + 1
      /\ d.evictList = <<[key |-> key, value |-> value]>> \o rest.evictList
  BY <1>2, <1>3, <1>4, Pushed
<1>6. Length(c) \in Nat
  BY Fields DEF Agrees
<1> QED
  BY <1>2, <1>5, <1>6 DEF Contains, d

LEMMA ListFacts ==
  ASSUME NEW c, WellFormed(c)
  PROVE  /\ Length(c) \in Nat /\ c.size \in Nat /\ Length(c) <= c.size /\ Agrees(c)
         /\ c.items \subseteq Keys /\ (Length(c) = 0 => c.items = {})
<1>1. Length(c) \in Nat /\ c.size \in Nat /\ Length(c) <= c.size /\ Agrees(c) /\ c.items \subseteq Keys
  BY Fields DEF WellFormed, Agrees, IsLRU, Bounded
<1>2. ASSUME Length(c) = 0 PROVE c.items = {}
  <2>1. DOMAIN c.evictList = {}
    BY <1>1, <1>2, Fields DEF Agrees
  <2> QED
    BY <1>1, <2>1 DEF Agrees, Consistent, KeysOf
<1> QED
  BY <1>1, <1>2

-----------------------------------------------------------------------------
(* The methods.                                                            *)

LEMMA OldestRemoved ==
  ASSUME NEW c, Agrees(c), Length(c) > 0
  PROVE  LET d == removeOldest(c)
         IN  /\ Agrees(d) /\ d.size = c.size /\ d.items = c.items \ {Oldest(c).key}
             /\ d.evictList = Seqs!RemoveAt(c.evictList, Length(c))
             /\ Oldest(c).key \in c.items /\ Oldest(c).key \in Keys /\ Length(d) = Length(c) - 1
<1>1. Length(c) \in Nat /\ Length(c) \in 1 .. Length(c) /\ c.evictList # <<>>
  BY Fields DEF Agrees
<1>2. removeOldest(c) = removeElement(c, Length(c)) /\ Oldest(c) = c.evictList[Length(c)]
  BY <1>1 DEF removeOldest, Oldest
<1>3. Oldest(c).key \in Keys
  BY <1>1, <1>2, Fields DEF Agrees
<1> QED
  BY <1>1, <1>2, <1>3, ElementRemoved

LEMMA NothingRemoved ==
  ASSUME NEW c, Agrees(c), ~(Length(c) > 0)
  PROVE  removeOldest(c) = c /\ c.evictList = <<>> /\ Length(c) = 0
<1>1. Length(c) \in Nat /\ (c.evictList = <<>> <=> Length(c) = 0)
  BY Fields DEF Agrees
<1> QED
  BY <1>1 DEF removeOldest

LEMMA New ==
  ASSUME NEW size \in Nat
  PROVE  WellFormed(NewLRU(size)) /\ NewLRU(size).items = {} /\ Length(NewLRU(size)) = 0
         /\ NewLRU(size).size = size
<1> DEFINE c == NewLRU(size)
<1>1. c.size = size /\ c.evictList = <<>> /\ c.items = {}
      /\ c = [size |-> c.size, evictList |-> c.evictList, items |-> c.items]
  BY DEF NewLRU
<1>2. <<>> \in Seq(Entries) /\ DOMAIN <<>> = {} /\ Len(<<>>) = 0
  BY EmptySeq
<1> HIDE DEF c
<1>3. IsLRU(c)
  BY <1>1, <1>2 DEF IsLRU
<1>4. Consistent(c)
  BY <1>1, <1>2 DEF Consistent, KeysOf
<1>5. Length(c) = 0 /\ Bounded(c)
  BY <1>1, <1>2 DEF Length, Bounded
<1> QED
  BY <1>1, <1>3, <1>4, <1>5 DEF WellFormed, Agrees, c

LEMMA Purged ==
  ASSUME NEW c, WellFormed(c)
  PROVE  /\ WellFormed(Purge(c)) /\ Purge(c).items = {} /\ Length(Purge(c)) = 0
         /\ Purge(c).size = c.size
<1>1. c.size \in Nat
  BY DEF WellFormed, Agrees, IsLRU
<1> QED
  BY <1>1, New DEF Purge

\* Add gives the cache the key, and nothing else that it had not; it takes nothing
\* but from a cache that is full.
LEMMA Added ==
  ASSUME NEW c, WellFormed(c), NEW key \in Keys, NEW value \in AnyValue
  PROVE  LET d == Add(c, key, value)
         IN  /\ WellFormed(d) /\ d.size = c.size /\ d.items \subseteq c.items \cup {key}
             /\ Contains(c, key) => d.items = c.items /\ Length(d) = Length(c)
             /\ Length(d) \in {Length(c), Length(c) + 1}
             /\ ~Contains(c, key) =>
                  \/ Length(d) = c.size
                  \/ d.items = c.items \cup {key} /\ Length(d) = Length(c) + 1
<1>1. Length(c) \in Nat /\ c.size \in Nat /\ Length(c) <= c.size /\ Agrees(c)
  BY Fields DEF WellFormed, Agrees, IsLRU, Bounded
<1>2. CASE Contains(c, key)
  <2> DEFINE d == MoveToFront(c, key, value)
  <2>1. Agrees(d) /\ d.size = c.size /\ d.items = c.items /\ Length(d) = Length(c)
    BY <1>1, <1>2, Moved
  <2>2. Add(c, key, value) = d
    BY <1>2 DEF Add
  <2> HIDE DEF d
  <2> QED
    BY <1>1, <1>2, <2>1, <2>2 DEF WellFormed, Bounded
<1>3. CASE ~Contains(c, key)
  <2> DEFINE d == PushFront(c, key, value)
  <2>1. /\ Agrees(d) /\ d.size = c.size /\ d.items = c.items \cup {key}
        /\ Length(d) = Length(c) + 1
    BY <1>1, <1>3, Pushed
  <2>2. Add(c, key, value) = IF Evicts(c, key) THEN removeOldest(d) ELSE d
    BY <1>3 DEF Add
  <2>3. Evicts(c, key) <=> Length(c) + 1 > c.size
    BY <1>3 DEF Evicts
  <2> HIDE DEF d
  <2>4. CASE Evicts(c, key)
    <3>1. Length(d) > 0 /\ Length(d) - 1 = Length(c)
      BY <1>1, <2>1
    <3>2. /\ Agrees(removeOldest(d)) /\ removeOldest(d).size = c.size
          /\ removeOldest(d).items \subseteq c.items \cup {key} /\ Length(removeOldest(d)) = Length(c)
      BY <2>1, <3>1, OldestRemoved
    <3>3. Length(c) = c.size
      BY <1>1, <2>3, <2>4
    <3> QED
      BY <1>1, <1>3, <2>2, <2>4, <3>2, <3>3 DEF WellFormed, Bounded
  <2>5. CASE ~Evicts(c, key)
    BY <1>1, <1>3, <2>1, <2>2, <2>3, <2>5 DEF WellFormed, Bounded
  <2> QED
    BY <2>4, <2>5
<1> QED
  BY <1>2, <1>3

LEMMA Gotten ==
  ASSUME NEW c, WellFormed(c), NEW key \in Keys
  PROVE  LET d == Get(c, key)
         IN  WellFormed(d) /\ d.size = c.size /\ d.items = c.items /\ Length(d) = Length(c)
<1>1. CASE Contains(c, key)
  <2>1. Peek(c, key) \in AnyValue
    BY <1>1, PositionIsThere DEF WellFormed
  <2> DEFINE d == MoveToFront(c, key, Peek(c, key))
  <2>2. Agrees(d) /\ d.size = c.size /\ d.items = c.items /\ Length(d) = Length(c)
    BY <1>1, <2>1, Moved DEF WellFormed
  <2>3. Get(c, key) = d
    BY <1>1 DEF Get
  <2> HIDE DEF d
  <2> QED
    BY <2>2, <2>3 DEF WellFormed, Bounded
<1>2. CASE ~Contains(c, key)
  BY <1>2 DEF Get
<1> QED
  BY <1>1, <1>2

LEMMA Removed ==
  ASSUME NEW c, WellFormed(c), NEW key
  PROVE  LET d == Remove(c, key)
         IN  /\ WellFormed(d) /\ d.size = c.size /\ d.items = c.items \ {key}
             /\ Length(d) = IF Contains(c, key) THEN Length(c) - 1 ELSE Length(c)
<1>1. Length(c) \in Nat /\ c.size \in Nat /\ Length(c) <= c.size /\ Agrees(c)
  BY Fields DEF WellFormed, Agrees, IsLRU, Bounded
<1>2. CASE Contains(c, key)
  <2> DEFINE i == Position(c.evictList, key)
             d == removeElement(c, i)
  <2>1. i \in 1 .. Length(c) /\ c.evictList[i].key = key
    BY <1>1, <1>2, PositionIsThere
  <2>2. Agrees(d) /\ d.size = c.size /\ d.items = c.items \ {key} /\ Length(d) = Length(c) - 1
    BY <1>1, <2>1, ElementRemoved
  <2>3. Remove(c, key) = d
    BY <1>2 DEF Remove
  <2> HIDE DEF d
  <2> QED
    BY <1>1, <1>2, <2>2, <2>3 DEF WellFormed, Bounded
<1>3. CASE ~Contains(c, key)
  <2>1. c.items \ {key} = c.items
    BY <1>3 DEF Contains
  <2> QED
    BY <1>3, <2>1 DEF Remove
<1> QED
  BY <1>2, <1>3

-----------------------------------------------------------------------------
(* The elements of a list, and the content they make.                      *)

Elements(c) == {c.evictList[i] : i \in DOMAIN c.evictList}

\* No key has two elements.
OneEach(elements) == \A d, e \in elements : d.key = e.key => d = e

\* The mapping from keys to values that a set of elements stands for.
ContentOf(elements) ==
  [key \in {e.key : e \in elements} |-> (CHOOSE e \in elements : e.key = key).value]

LEMMA ContentAt ==
  ASSUME NEW elements, OneEach(elements), NEW e \in elements
  PROVE  e.key \in DOMAIN ContentOf(elements) /\ ContentOf(elements)[e.key] = e.value
<1>1. (CHOOSE d \in elements : d.key = e.key) = e
  BY DEF OneEach
<1> QED
  BY <1>1 DEF ContentOf

\* What has no element that was not there has lost keys at most.
LEMMA ContentLost ==
  ASSUME NEW before, OneEach(before), NEW after, after \subseteq before
  PROVE  /\ DOMAIN ContentOf(after) \subseteq DOMAIN ContentOf(before)
         /\ ContentOf(after) = [k \in DOMAIN ContentOf(after) |-> ContentOf(before)[k]]
<1> DEFINE kept == {e.key : e \in after}
<1>1. OneEach(after)
  BY DEF OneEach
<1>2. kept \subseteq DOMAIN ContentOf(before)
  BY ContentAt
<1>3. ASSUME NEW k \in kept
      PROVE  ContentOf(after)[k] = ContentOf(before)[k]
  <2>1. PICK e \in after : e.key = k
    OBVIOUS
  <2>2. ContentOf(after)[k] = e.value
    BY <1>1, <2>1, ContentAt
  <2>3. ContentOf(before)[k] = e.value
    BY <2>1, ContentAt
  <2> QED
    BY <2>2, <2>3
<1>4. ContentOf(after) = [k \in kept |-> ContentOf(after)[k]] /\ DOMAIN ContentOf(after) = kept
  BY DEF ContentOf
<1> HIDE DEF kept
<1>5. ContentOf(after) = [k \in kept |-> ContentOf(before)[k]]
  BY <1>3, <1>4
<1> QED
  BY <1>2, <1>4, <1>5

\* One content is made of another by giving a key its value; others may go.
Puts(before, key, value, after) ==
  \E kept \in SUBSET (DOMAIN before \ {key}) :
    after = [k \in kept \cup {key} |-> IF k = key THEN value ELSE before[k]]

\* What has one element more gives that key its value, and no other a new one.
LEMMA ContentPut ==
  ASSUME NEW before, OneEach(before), NEW after, OneEach(after), NEW e \in after,
         NEW key, NEW value, e.key = key, e.value = value,
         after \subseteq before \cup {e}
  PROVE  Puts(ContentOf(before), key, value, ContentOf(after))
<1> DEFINE all  == {d.key : d \in after}
           kept == all \ {key}
<1>1. key \in all
  OBVIOUS
<1>2. ASSUME NEW k \in kept
      PROVE  k \in DOMAIN ContentOf(before) /\ ContentOf(after)[k] = ContentOf(before)[k]
  <2>1. PICK d \in after : d.key = k
    OBVIOUS
  <2>2. d \in before
    BY <1>2, <2>1
  <2>3. ContentOf(after)[k] = d.value
    BY <2>1, ContentAt
  <2>4. k \in DOMAIN ContentOf(before) /\ ContentOf(before)[k] = d.value
    BY <2>1, <2>2, ContentAt
  <2> QED
    BY <2>3, <2>4
<1>3. ContentOf(after)[key] = value
  BY ContentAt
<1>4. ContentOf(after) = [k \in all |-> ContentOf(after)[k]]
  BY DEF ContentOf
<1>5. kept \cup {key} = all
  BY <1>1
<1> HIDE DEF all
<1>6. \A k \in all : ContentOf(after)[k] = IF k = key THEN value ELSE ContentOf(before)[k]
  BY <1>2, <1>3
<1>7. ContentOf(after) = [k \in all |-> IF k = key THEN value ELSE ContentOf(before)[k]]
  BY <1>4, <1>6
<1>8. kept \in SUBSET (DOMAIN ContentOf(before) \ {key})
  BY <1>2
<1> HIDE DEF kept
<1> QED
  BY <1>5, <1>7, <1>8 DEF Puts

LEMMA ElementFacts ==
  ASSUME NEW c, Agrees(c)
  PROVE  /\ OneEach(Elements(c)) /\ {e.key : e \in Elements(c)} = c.items
         /\ \A key \in c.items : [key |-> key, value |-> Peek(c, key)] \in Elements(c)
         /\ \A i \in 1 .. Length(c) : c.evictList[i] \in Elements(c)
         /\ \A e \in Elements(c) : \E i \in 1 .. Length(c) : e = c.evictList[i]
<1>1. DOMAIN c.evictList = 1 .. Length(c) /\ \A i \in 1 .. Length(c) : c.evictList[i] \in Entries
  BY Fields DEF Agrees
<1>2. OneEach(Elements(c))
  BY DEF OneEach, Elements, Agrees, Consistent
<1>3. {e.key : e \in Elements(c)} = c.items
  BY DEF Elements, Agrees, Consistent, KeysOf
<1>4. ASSUME NEW key \in c.items
      PROVE  [key |-> key, value |-> Peek(c, key)] \in Elements(c)
  <2> DEFINE i == Position(c.evictList, key)
  <2>1. i \in 1 .. Length(c) /\ c.evictList[i].key = key
    BY PositionIsThere DEF Contains
  <2>2. c.evictList[i] \in Entries /\ Peek(c, key) = c.evictList[i].value
    BY <1>1, <2>1 DEF Peek
  <2> HIDE DEF i
  <2>3. c.evictList[i] = [key |-> key, value |-> Peek(c, key)]
    BY <2>1, <2>2 DEF Entries
  <2> QED
    BY <1>1, <2>1, <2>3 DEF Elements
<1> QED
  BY <1>1, <1>2, <1>3, <1>4 DEF Elements

\* The content of one list.
LEMMA ContentOfList ==
  ASSUME NEW c, Agrees(c)
  PROVE  Content(c) = ContentOf(Elements(c))
<1> DEFINE E == Elements(c)
<1>1. DOMAIN ContentOf(E) = c.items
  BY ElementFacts DEF ContentOf
<1>2. ASSUME NEW key \in c.items
      PROVE  ContentOf(E)[key] = Peek(c, key)
  <2> DEFINE e == [key |-> key, value |-> Peek(c, key)]
  <2>1. e \in E /\ OneEach(E)
    BY ElementFacts
  <2>2. ContentOf(E)[e.key] = e.value
    BY <2>1, ContentAt
  <2> QED
    BY <2>2
<1>3. ContentOf(E) = [key \in c.items |-> ContentOf(E)[key]]
  BY <1>1 DEF ContentOf
<1> HIDE DEF E
<1> QED
  BY <1>2, <1>3 DEF Content, E

\* What each method makes of the elements.
LEMMA RemovedElements ==
  ASSUME NEW c, Agrees(c), NEW i \in 1 .. Length(c)
  PROVE  Elements(removeElement(c, i)) \subseteq Elements(c)
<1> DEFINE n    == Length(c)
           s    == c.evictList
           rest == Seqs!RemoveAt(s, i)
<1>1. /\ s \in Seq(Entries) /\ n \in Nat /\ n = Len(s) /\ DOMAIN s = 1 .. n
  BY Fields DEF Agrees, Length
<1>2. /\ rest \in Seq(Entries) /\ Len(rest) = n - 1
      /\ \A j \in 1 .. n - 1 : rest[j] = IF j < i THEN s[j] ELSE s[j + 1]
  BY <1>1, WithoutElement
<1>3. DOMAIN rest = 1 .. n - 1 /\ removeElement(c, i).evictList = rest
  BY <1>2, LenProperties, ElementRemoved
<1> HIDE DEF n, s, rest
<1>4. \A j \in 1 .. n - 1 : j \in 1 .. n /\ j + 1 \in 1 .. n
  BY <1>1
<1>5. Elements(c) = {s[j] : j \in 1 .. n}
  BY <1>1 DEF Elements, s
<1>6. Elements(removeElement(c, i)) = {rest[j] : j \in 1 .. n - 1}
  BY <1>3 DEF Elements
<1>7. \A j \in 1 .. n - 1 : rest[j] \in {s[k] : k \in 1 .. n}
  BY <1>2, <1>4
<1> QED
  BY <1>5, <1>6, <1>7

LEMMA OldestElements ==
  ASSUME NEW c, Agrees(c)
  PROVE  Elements(removeOldest(c)) \subseteq Elements(c)
<1>1. CASE Length(c) > 0
  <2>1. Length(c) \in 1 .. Length(c) /\ c.evictList # <<>>
    BY <1>1, Fields DEF Agrees
  <2> QED
    BY <2>1, RemovedElements DEF removeOldest
<1>2. CASE ~(Length(c) > 0)
  BY <1>2, NothingRemoved
<1> QED
  BY <1>1, <1>2

LEMMA KeyRemovedElements ==
  ASSUME NEW c, Agrees(c), NEW key
  PROVE  Elements(Remove(c, key)) \subseteq Elements(c)
<1>1. CASE Contains(c, key)
  BY <1>1, PositionIsThere, RemovedElements DEF Remove
<1>2. CASE ~Contains(c, key)
  BY <1>2 DEF Remove
<1> QED
  BY <1>1, <1>2

\* The element a list starts with and those that follow.
LEMMA PrependedElements ==
  ASSUME NEW c, Agrees(c), NEW e \in Entries, NEW d, d.evictList = <<e>> \o c.evictList
  PROVE  Elements(d) = {e} \cup Elements(c) /\ d.evictList[1] = e
<1> DEFINE s   == c.evictList
           n   == Length(c)
           all == <<e>> \o s
<1>1. s \in Seq(Entries) /\ n \in Nat /\ n = Len(s) /\ DOMAIN s = 1 .. n
  BY Fields DEF Agrees, Length
<1>2. /\ all \in Seq(Entries) /\ Len(all) = n + 1
      /\ \A j \in 1 .. n + 1 : all[j] = IF j = 1 THEN e ELSE s[j - 1]
  BY <1>1, Prepended
<1>3. DOMAIN all = 1 .. n + 1
  BY <1>2, LenProperties
<1> HIDE DEF s, n, all
<1>4. /\ \A j \in 1 .. n + 1 : j # 1 => j - 1 \in 1 .. n
      /\ \A j \in 1 .. n : j + 1 \in 1 .. n + 1 /\ j + 1 # 1 /\ j + 1 - 1 = j
      /\ 1 \in 1 .. n + 1
  BY <1>1
<1>5. {all[j] : j \in 1 .. n + 1} = {e} \cup {s[j] : j \in 1 .. n}
  <2>1. \A j \in 1 .. n + 1 : all[j] \in {e} \cup {s[k] : k \in 1 .. n}
    BY <1>2, <1>4
  <2>2. \A j \in 1 .. n : s[j] = all[j + 1]
    BY <1>2, <1>4
  <2>3. all[1] = e
    BY <1>2, <1>4
  <2> QED
    BY <1>4, <2>1, <2>2, <2>3
<1>6. d.evictList = all /\ all[1] = e
  BY <1>2, <1>4 DEF all, s
<1>7. Elements(d) = {all[j] : j \in 1 .. n + 1}
  BY <1>3, <1>6 DEF Elements
<1>8. Elements(c) = {s[j] : j \in 1 .. n}
  BY <1>1 DEF Elements, s
<1> QED
  BY <1>5, <1>6, <1>7, <1>8

LEMMA MovedElements ==
  ASSUME NEW c, Agrees(c), NEW key \in Keys, Contains(c, key), NEW value \in AnyValue
  PROVE  LET d == MoveToFront(c, key, value)
             e == [key |-> key, value |-> value]
         IN  Elements(d) \subseteq Elements(c) \cup {e} /\ e \in Elements(d)
<1> DEFINE d    == MoveToFront(c, key, value)
           e    == [key |-> key, value |-> value]
           i    == Position(c.evictList, key)
           rest == removeElement(c, i)
<1>1. i \in 1 .. Length(c)
  BY PositionIsThere
<1>2. Agrees(rest) /\ rest.evictList = Seqs!RemoveAt(c.evictList, i) /\ Elements(rest) \subseteq Elements(c)
  BY <1>1, ElementRemoved, RemovedElements
<1>3. d.evictList = <<e>> \o Seqs!RemoveAt(c.evictList, i)
  BY Moved
<1>4. e \in Entries
  BY DEF Entries, AnyValue
<1> HIDE DEF d, e, i, rest
<1>5. Elements(d) = {e} \cup Elements(rest)
  BY <1>2, <1>3, <1>4, PrependedElements
<1>6. Elements(d) \subseteq Elements(c) \cup {e} /\ e \in Elements(d)
  BY <1>2, <1>5
<1> QED
  BY <1>6 DEF d, e

\* Add of a cache that may have an element: the new one stays.
LEMMA AddedElements ==
  ASSUME NEW c, WellFormed(c), c.size > 0, NEW key \in Keys, NEW value \in AnyValue
  PROVE  LET d == Add(c, key, value)
             e == [key |-> key, value |-> value]
         IN  Elements(d) \subseteq Elements(c) \cup {e} /\ e \in Elements(d)
<1>1. Length(c) \in Nat /\ c.size \in Nat /\ Length(c) <= c.size /\ Agrees(c)
  BY ListFacts
<1>2. CASE Contains(c, key)
  BY <1>1, <1>2, MovedElements DEF Add
<1>3. CASE ~Contains(c, key)
  <2> DEFINE all == PushFront(c, key, value)
             e   == [key |-> key, value |-> value]
             n   == Length(c)
  <2>1. e \in Entries
    BY DEF Entries, AnyValue
  <2>2. Agrees(all) /\ all.evictList = <<e>> \o c.evictList /\ Length(all) = n + 1
    BY <1>1, <1>3, Pushed
  <2>3. Add(c, key, value) = (IF Evicts(c, key) THEN removeOldest(all) ELSE all)
        /\ (Evicts(c, key) <=> n + 1 > c.size)
    BY <1>3 DEF Add, Evicts
  <2> HIDE DEF e, all
  <2>4. Elements(all) = {e} \cup Elements(c) /\ all.evictList[1] = e
    BY <1>1, <2>1, <2>2, PrependedElements
  <2>5. CASE Evicts(c, key)
    <3> DEFINE s == all.evictList
               d == removeOldest(all)
    <3> HIDE DEF n
    <3>1. n \in Nat /\ n > 0 /\ Length(all) > 0 /\ Length(all) = n + 1
      BY <1>1, <2>2, <2>3, <2>5 DEF n
    <3>2. Agrees(d) /\ d.evictList = Seqs!RemoveAt(s, Length(all)) /\ Length(d) = Length(all) - 1
      BY <2>2, <3>1, OldestRemoved
    <3>3. s \in Seq(Entries) /\ Len(s) = n + 1
      BY <2>2, <3>1, Fields DEF Agrees, Length
    <3>4. n + 1 \in 1 .. n + 1 /\ 1 \in 1 .. n + 1 - 1 /\ 1 < n + 1 /\ n + 1 - 1 = n /\ 1 \in 1 .. n
      BY <3>1
    <3> HIDE DEF s
    <3>5. Seqs!RemoveAt(s, n + 1)[1] = s[1]
      BY <3>3, <3>4, WithoutElement
    <3> HIDE DEF d
    <3>6. d.evictList[1] = e
      BY <2>4, <3>1, <3>2, <3>5 DEF s
    <3>7. Length(d) = n
      BY <3>1, <3>2, <3>4
    <3>8. e \in Elements(d)
      BY <3>2, <3>4, <3>6, <3>7, ElementFacts
    <3>9. Elements(d) \subseteq Elements(all)
      BY <2>2, OldestElements DEF d
    <3> QED
      BY <2>3, <2>4, <2>5, <3>8, <3>9 DEF d, e
  <2>6. CASE ~Evicts(c, key)
    BY <2>3, <2>4, <2>6 DEF e
  <2> QED
    BY <2>5, <2>6
<1> QED
  BY <1>2, <1>3

LEMMA GottenElements ==
  ASSUME NEW c, WellFormed(c), NEW key \in Keys
  PROVE  Elements(Get(c, key)) \subseteq Elements(c)
<1>1. CASE Contains(c, key)
  <2> DEFINE d == MoveToFront(c, key, Peek(c, key))
             e == [key |-> key, value |-> Peek(c, key)]
  <2>1. Peek(c, key) \in AnyValue /\ Agrees(c)
    BY <1>1, PositionIsThere DEF WellFormed
  <2>2. Elements(d) \subseteq Elements(c) \cup {e}
    BY <1>1, <2>1, MovedElements
  <2>3. e \in Elements(c)
    BY <1>1, <2>1, ElementFacts DEF Contains
  <2> QED
    BY <1>1, <2>2, <2>3 DEF Get
<1>2. CASE ~Contains(c, key)
  BY <1>2 DEF Get
<1> QED
  BY <1>1, <1>2

LEMMA NewElements ==
  ASSUME NEW size \in Nat
  PROVE  Elements(NewLRU(size)) = {}
<1>1. NewLRU(size).evictList = <<>> /\ DOMAIN <<>> = {}
  BY EmptySeq DEF NewLRU
<1> QED
  BY <1>1 DEF Elements

LEMMA ResizedElements ==
  ASSUME NEW c, Agrees(c), NEW size \in Nat
  PROVE  LET d == Resize(c, size)
         IN  /\ Elements(d) \subseteq Elements(c) /\ d.size = size
             /\ Length(d) = IF Length(c) > size THEN size ELSE Length(c)
             /\ Length(c) <= size => d.items = c.items
<1> DEFINE n    == Length(c)
           m    == n - Excess(c, size)
           s    == c.evictList
           kept == SubSeq(s, 1, m)
<1>1. n \in Nat /\ s \in Seq(Entries) /\ DOMAIN s = 1 .. n /\ \A i \in 1 .. n : s[i] \in Entries
  BY Fields DEF Agrees
<1>2. Resize(c, size).evictList = kept /\ Resize(c, size).size = size
      /\ Resize(c, size).items = c.items \ (KeysOf(s) \ KeysOf(kept))
  BY DEF Resize
<1>3. m \in 0 .. n /\ m = IF n > size THEN size ELSE n
  <2> HIDE DEF n
  <2>1. m = IF n > size THEN n - (n - size) ELSE n - 0
    BY DEF Excess, n
  <2> QED
    BY <1>1, <2>1
<1> HIDE DEF n, m, s
<1>4. kept \in Seq(Entries) /\ Len(kept) = m /\ \A i \in 1 .. m : kept[i] = s[i]
  <2>1. \A i \in 1 .. m : s[i] \in Entries
    BY <1>1, <1>3
  <2>2. m \in Int /\ m - 1 + 1 = m /\ (~(1 <= m) => m = 0) /\ \A i \in 1 .. m : 1 + i - 1 = i
    BY <1>1, <1>3
  <2> QED
    BY <2>1, <2>2, SubSeqProperties
<1>5. DOMAIN kept = 1 .. m /\ \A i \in 1 .. m : i \in 1 .. n
  BY <1>1, <1>3, <1>4, LenProperties
<1> HIDE DEF kept
<1>6. Elements(c) = {s[i] : i \in 1 .. n}
  BY <1>1 DEF Elements, s
<1>7. Elements(Resize(c, size)) = {kept[i] : i \in 1 .. m}
  BY <1>2, <1>5 DEF Elements
<1>8. Length(Resize(c, size)) = m
  BY <1>2, <1>4 DEF Length
<1>9. n <= size => Resize(c, size).items = c.items
  <2>1. n <= size => m = n
    BY <1>1, <1>3
  <2>2. n <= size => KeysOf(kept) = KeysOf(s)
    BY <1>1, <1>4, <1>5, <2>1 DEF KeysOf
  <2> QED
    BY <1>2, <2>2
<1> QED
  BY <1>2, <1>3, <1>4, <1>5, <1>6, <1>7, <1>8, <1>9 DEF n

\* There are as many keys as the list is long.
LEMMA KeysCounted ==
  ASSUME NEW c, Agrees(c)
  PROVE  IsFiniteSet(c.items) /\ Cardinality(c.items) = Length(c) /\ Length(c) \in Nat
<1> DEFINE n == Length(c)
           f == [i \in 1 .. n |-> c.evictList[i].key]
<1>1. n \in Nat /\ DOMAIN c.evictList = 1 .. n
  BY Fields DEF Agrees
<1>2. c.items = {c.evictList[i].key : i \in 1 .. n}
  BY <1>1 DEF Agrees, Consistent, KeysOf
<1>3. \A i, j \in 1 .. n : c.evictList[i].key = c.evictList[j].key => i = j
  BY <1>1 DEF Agrees, Consistent
<1> HIDE DEF n
<1>4. f \in Surjection(1 .. n, c.items) /\ f \in Injection(1 .. n, c.items)
  BY <1>2, <1>3 DEF Surjection, Injection, IsInjective
<1> HIDE DEF f
<1>5. IsFiniteSet(1 .. n) /\ Cardinality(1 .. n) = n
  <2>1. 1 \in Int /\ n \in Int /\ (IF 1 > n THEN 0 ELSE n - 1 + 1) = n
    BY <1>1
  <2>2. IsFiniteSet(1 .. n) /\ Cardinality(1 .. n) = IF 1 > n THEN 0 ELSE n - 1 + 1
    BY <2>1, FS_Interval
  <2> QED
    BY <2>1, <2>2
<1>6. IsFiniteSet(c.items) /\ Cardinality(c.items) = n
  BY <1>4, <1>5, FS_Surjection
<1> QED
  BY <1>1, <1>6 DEF n

-----------------------------------------------------------------------------
(* Two lists that hold the keys of one cache.                              *)

InOneOf(c, d) == Agrees(c) /\ Agrees(d) /\ c.items \cap d.items = {}

ElementsOfTwo(c, d) == Elements(c) \cup Elements(d)

\* The content of two lists, read in one and then in the other.
ReadInTurn(c, d) ==
  [key \in c.items \cup d.items |-> IF Contains(c, key) THEN Peek(c, key) ELSE Peek(d, key)]

LEMMA ContentOfTwo ==
  ASSUME NEW c, NEW d, InOneOf(c, d)
  PROVE  OneEach(ElementsOfTwo(c, d)) /\ ReadInTurn(c, d) = ContentOf(ElementsOfTwo(c, d))
<1> DEFINE E == ElementsOfTwo(c, d)
<1>1. /\ OneEach(Elements(c)) /\ {e.key : e \in Elements(c)} = c.items
      /\ OneEach(Elements(d)) /\ {e.key : e \in Elements(d)} = d.items
      /\ c.items \cap d.items = {}
  BY ElementFacts DEF InOneOf
<1>2. OneEach(E)
  BY <1>1 DEF OneEach, ElementsOfTwo
<1>3. DOMAIN ContentOf(E) = c.items \cup d.items
  <2>1. {e.key : e \in E} = c.items \cup d.items
    BY <1>1 DEF ElementsOfTwo
  <2> QED
    BY <2>1 DEF ContentOf
<1>4. ASSUME NEW key \in c.items \cup d.items
      PROVE  ContentOf(E)[key] = IF Contains(c, key) THEN Peek(c, key) ELSE Peek(d, key)
  <2>1. CASE key \in c.items
    <3> DEFINE e == [key |-> key, value |-> Peek(c, key)]
    <3>1. e \in E
      BY <2>1, ElementFacts DEF InOneOf, ElementsOfTwo
    <3>2. ContentOf(E)[e.key] = e.value
      BY <1>2, <3>1, ContentAt
    <3> QED
      BY <2>1, <3>2 DEF Contains
  <2>2. CASE key \notin c.items
    <3> DEFINE e == [key |-> key, value |-> Peek(d, key)]
    <3>1. e \in E
      BY <1>4, <2>2, ElementFacts DEF InOneOf, ElementsOfTwo
    <3>2. ContentOf(E)[e.key] = e.value
      BY <1>2, <3>1, ContentAt
    <3> QED
      BY <2>2, <3>2 DEF Contains
  <2> QED
    BY <2>1, <2>2
<1>5. ContentOf(E) = [key \in c.items \cup d.items |-> ContentOf(E)[key]]
  BY <1>3 DEF ContentOf
<1> HIDE DEF E
<1>6. ReadInTurn(c, d) = ContentOf(E)
  BY <1>4, <1>5 DEF ReadInTurn
<1> QED
  BY <1>2, <1>6 DEF E

LEMMA KeysOfTwoCounted ==
  ASSUME NEW c, NEW d, InOneOf(c, d)
  PROVE  /\ DOMAIN ReadInTurn(c, d) = c.items \cup d.items
         /\ Cardinality(c.items \cup d.items) = Length(c) + Length(d)
         /\ Length(c) \in Nat /\ Length(d) \in Nat
<1>1. /\ IsFiniteSet(c.items) /\ Cardinality(c.items) = Length(c) /\ Length(c) \in Nat
      /\ IsFiniteSet(d.items) /\ Cardinality(d.items) = Length(d) /\ Length(d) \in Nat
  BY KeysCounted DEF InOneOf
<1>2. Cardinality(c.items \cup d.items) =
        Cardinality(c.items) + Cardinality(d.items) - Cardinality(c.items \cap d.items)
  BY <1>1, FS_Union
<1>3. Cardinality(c.items \cap d.items) = 0
  BY FS_EmptySet DEF InOneOf
<1> QED
  BY <1>1, <1>2, <1>3 DEF ReadInTurn

\* Two lists lose no key, or as many as there is room for are left.
LeavesRoom(c, d, after, other, size) ==
  c.items \cup d.items \subseteq after.items \cup other.items
    \/ Length(after) + Length(other) >= size

\* A key is added to a list after one was evicted from the two, or none.
LEMMA RoomForOne ==
  ASSUME NEW size \in Nat, NEW c, NEW d, NEW rest, WellFormed(rest), NEW mid, WellFormed(mid),
         mid.size = size,
         (rest = c /\ mid = d) \/ Length(rest) + Length(mid) + 1 >= size,
         NEW key \in Keys, ~Contains(mid, key), NEW value \in AnyValue
  PROVE  LeavesRoom(c, d, rest, Add(mid, key, value), size)
<1> DEFINE after == Add(mid, key, value)
<1>1. /\ Length(rest) \in Nat /\ Length(mid) \in Nat
      /\ Length(after) = size \/ (after.items = mid.items \cup {key} /\ Length(after) = Length(mid) + 1)
  BY ListFacts, Added
<1> HIDE DEF after
<1>2. LeavesRoom(c, d, rest, after, size)
  <2>1. CASE Length(after) = size
    BY <1>1, <2>1 DEF LeavesRoom
  <2>2. CASE rest = c /\ mid = d /\ after.items = mid.items \cup {key}
    BY <2>2 DEF LeavesRoom
  <2>3. CASE Length(rest) + Length(mid) + 1 >= size /\ Length(after) = Length(mid) + 1
    BY <1>1, <2>3 DEF LeavesRoom
  <2> QED
    BY <1>1, <2>1, <2>2, <2>3
<1> QED
  BY <1>2 DEF after

\* A key goes from one list to the other.
LEMMA RoomToPromote ==
  ASSUME NEW c, WellFormed(c), NEW d, WellFormed(d),
         NEW key \in Keys, ~Contains(d, key), NEW value \in AnyValue
  PROVE  LeavesRoom(c, d, Remove(c, key), Add(d, key, value), d.size)
<1> DEFINE rest  == Remove(c, key)
           after == Add(d, key, value)
<1>1. WellFormed(rest) /\ rest.items = c.items \ {key}
  BY Removed
<1>2. Length(after) = d.size \/ after.items = d.items \cup {key}
  BY Added
<1>3. d.size \in Nat
  BY ListFacts
<1> HIDE DEF rest, after
<1>4. Length(rest) \in Nat
  BY <1>1, ListFacts
<1>5. LeavesRoom(c, d, rest, after, d.size)
  BY <1>1, <1>2, <1>3, <1>4 DEF LeavesRoom
<1> QED
  BY <1>5 DEF rest, after

(***************************************************************************)
(* The LRU                                                                 *)
(***************************************************************************)

\* A list is in the order of a relation between keys.
Ordered(list, after) ==
  \A i, j \in DOMAIN list : i < j => <<list[i].key, list[j].key>> \in after

LRUInv == WellFormed(lru) /\ lru.size > 0 /\ Ordered(lru.evictList, usedAfter)

-----------------------------------------------------------------------------
(* Order.                                                                  *)

LEMMA OrderedWithout ==
  ASSUME NEW list \in Seq(Entries), NEW i \in 1 .. Len(list), NEW after, Ordered(list, after)
  PROVE  Ordered(Seqs!RemoveAt(list, i), after)
<1> DEFINE rest == Seqs!RemoveAt(list, i)
           n    == Len(list)
<1>1. /\ rest \in Seq(Entries) /\ Len(rest) = n - 1 /\ n \in Nat /\ DOMAIN list = 1 .. n
      /\ \A j \in 1 .. n - 1 : rest[j] = IF j < i THEN list[j] ELSE list[j + 1]
  BY WithoutElement, LenProperties
<1> HIDE DEF rest, n
<1>2. DOMAIN rest = 1 .. n - 1
  BY <1>1, LenProperties
<1> SUFFICES ASSUME NEW j \in 1 .. n - 1, NEW k \in 1 .. n - 1, j < k
             PROVE  <<rest[j].key, rest[k].key>> \in after
  BY <1>2 DEF Ordered, rest
<1>3. PICK m \in 1 .. n, o \in 1 .. n : rest[j] = list[m] /\ rest[k] = list[o] /\ m < o
  <2>1. i \in Int /\ j \in 1 .. n /\ j + 1 \in 1 .. n /\ k \in 1 .. n /\ k + 1 \in 1 .. n
    BY <1>1
  <2>2. CASE k < i
    BY <1>1, <2>1, <2>2
  <2>3. CASE ~(k < i) /\ j < i
    <3>1. j < k + 1
      BY <1>1, <2>1
    <3> QED
      BY <1>1, <2>1, <2>3, <3>1
  <2>4. CASE ~(j < i)
    <3>1. ~(k < i) /\ j + 1 < k + 1
      BY <1>1, <2>1, <2>4
    <3> QED
      BY <1>1, <2>1, <2>4, <3>1
  <2> QED
    BY <2>2, <2>3, <2>4
<1> QED
  BY <1>1, <1>3 DEF Ordered

LEMMA OrderedWith ==
  ASSUME NEW list \in Seq(Entries), NEW e \in Entries, NEW after, Ordered(list, after),
         \A i \in 1 .. Len(list) : <<e.key, list[i].key>> \in after
  PROVE  Ordered(<<e>> \o list, after)
<1> DEFINE all == <<e>> \o list
           n   == Len(list)
<1>1. /\ all \in Seq(Entries) /\ Len(all) = n + 1 /\ n \in Nat /\ DOMAIN list = 1 .. n
      /\ \A j \in 1 .. n + 1 : all[j] = IF j = 1 THEN e ELSE list[j - 1]
  BY Prepended, LenProperties
<1>2. \A i \in 1 .. n : <<e.key, list[i].key>> \in after
  OBVIOUS
<1> HIDE DEF all, n
<1>3. DOMAIN all = 1 .. n + 1
  BY <1>1, LenProperties
<1> SUFFICES ASSUME NEW j \in 1 .. n + 1, NEW k \in 1 .. n + 1, j < k
             PROVE  <<all[j].key, all[k].key>> \in after
  BY <1>3 DEF Ordered, all
<1>4. k # 1 /\ k - 1 \in 1 .. n /\ all[k] = list[k - 1]
  BY <1>1
<1>5. CASE j = 1
  BY <1>1, <1>2, <1>4, <1>5
<1>6. CASE j # 1
  <2>1. j - 1 \in 1 .. n /\ j - 1 < k - 1 /\ all[j] = list[j - 1]
    BY <1>1, <1>6
  <2> QED
    BY <1>1, <1>4, <2>1 DEF Ordered
<1> QED
  BY <1>5, <1>6

\* After the use of a key, the others are in the order they had.
LEMMA OrderedStill ==
  ASSUME NEW list \in Seq(Entries), Ordered(list, usedAfter), NEW key \in Keys, Use(key),
         \A i \in DOMAIN list : list[i].key # key
  PROVE  /\ Ordered(list, usedAfter')
         /\ \A i \in 1 .. Len(list) : <<key, list[i].key>> \in usedAfter'
<1>1. \A a, b : <<a, b>> \in usedAfter /\ a # key /\ b # key => <<a, b>> \in usedAfter'
  BY DEF Use
<1>2. \A other \in Keys \ {key} : <<key, other>> \in usedAfter'
  BY DEF Use
<1>3. DOMAIN list = 1 .. Len(list) /\ \A i \in 1 .. Len(list) : list[i].key \in Keys
  <2>1. DOMAIN list = 1 .. Len(list) /\ \A i \in 1 .. Len(list) : list[i] \in Entries
    BY LenProperties, ElementOfSeq
  <2> QED
    BY <2>1 DEF Entries
<1> QED
  BY <1>1, <1>2, <1>3 DEF Ordered

\* The keys of what is left when an element goes.
LEMMA KeysWithout ==
  ASSUME NEW c, Agrees(c), NEW i \in 1 .. Length(c)
  PROVE  LET rest == Seqs!RemoveAt(c.evictList, i)
         IN  rest \in Seq(Entries) /\ \A j \in DOMAIN rest : rest[j].key # c.evictList[i].key
<1> DEFINE d == removeElement(c, i)
<1>1. Agrees(d) /\ d.items = c.items \ {c.evictList[i].key}
      /\ d.evictList = Seqs!RemoveAt(c.evictList, i)
  BY ElementRemoved
<1> HIDE DEF d
<1>2. d.evictList \in Seq(Entries) /\ d.items = KeysOf(d.evictList)
  BY <1>1 DEF Agrees, IsLRU, Consistent
<1>3. ASSUME NEW j \in DOMAIN d.evictList
      PROVE  d.evictList[j].key # c.evictList[i].key
  <2>1. d.evictList[j].key \in KeysOf(d.evictList)
    BY DEF KeysOf
  <2> QED
    BY <1>1, <1>2, <2>1
<1> QED
  BY <1>1, <1>2, <1>3

\* A key comes to the front: of Get, and of Add when it is there.
LEMMA FrontInv ==
  ASSUME LRUInv, NEW key \in Keys, Contains(lru, key), NEW value \in AnyValue,
         lru' = MoveToFront(lru, key, value), Use(key)
  PROVE  LRUInv' /\ lru'.items = lru.items
<1> DEFINE i    == Position(lru.evictList, key)
           rest == Seqs!RemoveAt(lru.evictList, i)
           e    == [key |-> key, value |-> value]
<1>1. Agrees(lru) /\ Length(lru) <= lru.size
  BY DEF LRUInv, WellFormed, Bounded
<1>2. i \in 1 .. Length(lru) /\ lru.evictList[i].key = key
  BY <1>1, PositionIsThere
<1>3. /\ Agrees(lru') /\ lru'.size = lru.size /\ lru'.items = lru.items
      /\ Length(lru') = Length(lru) /\ lru'.evictList = <<e>> \o rest
  BY <1>1, Moved
<1>4. lru.evictList \in Seq(Entries) /\ Length(lru) = Len(lru.evictList)
  BY <1>1, Fields DEF Agrees, Length
<1>5. rest \in Seq(Entries) /\ (\A j \in DOMAIN rest : rest[j].key # key)
      /\ Ordered(rest, usedAfter)
  BY <1>1, <1>2, <1>4, KeysWithout, OrderedWithout DEF LRUInv
<1>6. e \in Entries /\ e.key = key
  BY DEF Entries, AnyValue
<1> HIDE DEF rest, e
<1>7. Ordered(<<e>> \o rest, usedAfter')
  BY <1>5, <1>6, OrderedStill, OrderedWith
<1> QED
  BY <1>1, <1>3, <1>7 DEF LRUInv, WellFormed, Bounded

-----------------------------------------------------------------------------
(* The methods.                                                            *)

\* The key of an entry is no longer there.
Gone(i) == lru.evictList[i].key \notin lru'.items

\* Eviction is reported when the positions are those of the keys that go.
LEMMA Reported ==
  ASSUME WellFormed(lru), WellFormed(lru'), NEW positions, Calls(positions),
         \A i \in 1 .. Length(lru) : i \in positions <=> Gone(i),
         positions \subseteq 1 .. Length(lru)
  PROVE  LRUEvictionIsReported
<1>1. DOMAIN lru.evictList = 1 .. Length(lru)
  BY Fields DEF WellFormed, Agrees
<1>2. lru'.items = KeysOf(lru'.evictList)
  BY DEF WellFormed, Agrees, Consistent
<1>3. {j \in DOMAIN lru.evictList : lru.evictList[j].key \notin KeysOf(lru'.evictList)} = positions
  BY <1>1, <1>2 DEF Gone
<1> QED
  BY <1>3 DEF LRUEvictionIsReported, Calls

\* The keys of a well-formed cache.
LEMMA KeysThere ==
  ASSUME NEW c, WellFormed(c)
  PROVE  /\ \A i \in 1 .. Length(c) : c.evictList[i].key \in c.items
         /\ \A i, j \in 1 .. Length(c) : c.evictList[i].key = c.evictList[j].key => i = j
<1>1. DOMAIN c.evictList = 1 .. Length(c)
  BY Fields DEF WellFormed, Agrees
<1> QED
  BY <1>1 DEF WellFormed, Agrees, Consistent, KeysOf

LEMMA AddInv ==
  ASSUME LRUInv, NEW key \in Keys, NEW value \in Values, CacheAdd(key, value)
  PROVE  LRUInv' /\ LRUEvictionIsReported
<1> DEFINE e   == [key |-> key, value |-> value]
           all == PushFront(lru, key, value)
           n   == Length(lru)
<1>1. value \in AnyValue
  BY DEF AnyValue
<1>2. n \in Nat /\ lru.size \in Nat /\ n <= lru.size /\ Agrees(lru) /\ lru.size > 0
  BY ListFacts DEF LRUInv
<1>3. CASE Contains(lru, key)
  <2>1. lru' = MoveToFront(lru, key, value) /\ Use(key) /\ Calls({})
    BY <1>3 DEF CacheAdd, Add, Evicts
  <2>2. LRUInv' /\ lru'.items = lru.items
    BY <1>1, <1>3, <2>1, FrontInv
  <2> QED
    BY <2>1, <2>2, Reported, KeysThere DEF LRUInv, Gone
<1>4. CASE ~Contains(lru, key)
  <2>1. /\ Agrees(all) /\ all.size = lru.size /\ all.items = lru.items \cup {key}
        /\ all.evictList = <<e>> \o lru.evictList /\ Length(all) = n + 1
    BY <1>1, <1>2, <1>4, Pushed
  <2>2. lru.evictList \in Seq(Entries) /\ n = Len(lru.evictList) /\ DOMAIN lru.evictList = 1 .. n
    BY <1>2, Fields DEF Agrees, Length
  <2>3. \A i \in 1 .. n : lru.evictList[i].key \in lru.items /\ lru.evictList[i].key # key
    BY <1>4, KeysThere DEF LRUInv, Contains
  <2>4. e \in Entries /\ e.key = key
    BY <1>1 DEF Entries, AnyValue
  <2>5. /\ Ordered(lru.evictList, usedAfter')
        /\ \A i \in 1 .. Len(lru.evictList) : <<key, lru.evictList[i].key>> \in usedAfter'
    BY <2>2, <2>3, OrderedStill DEF LRUInv, CacheAdd
  <2> HIDE DEF e
  <2>6. Ordered(all.evictList, usedAfter')
    BY <2>1, <2>2, <2>4, <2>5, OrderedWith
  <2>7. Evicts(lru, key) <=> n + 1 > lru.size
    BY <1>4 DEF Evicts
  <2>8. lru' = (IF Evicts(lru, key) THEN removeOldest(all) ELSE all)
        /\ Calls(IF Evicts(lru, key) THEN {n} ELSE {})
    BY <1>4 DEF CacheAdd, Add
  <2>9. CASE Evicts(lru, key)
    <3>1. n > 0 /\ Length(all) > 0 /\ n \in 1 .. n /\ n + 1 - 1 = n /\ n = lru.size
          /\ n + 1 \in 1 .. n + 1 /\ n + 1 # 1
      BY <1>2, <2>1, <2>7, <2>9
    <3>2. Oldest(all).key = lru.evictList[n].key
      <4>1. Oldest(all) = all.evictList[n + 1]
        BY <2>1 DEF Oldest
      <4>2. (<<e>> \o lru.evictList)[n + 1] = lru.evictList[n + 1 - 1]
        BY <2>2, <2>4, <3>1, Prepended
      <4> HIDE DEF all, n
      <4> QED
        BY <2>1, <3>1, <4>1, <4>2
    <3> HIDE DEF all
    <3>3. /\ Agrees(lru') /\ lru'.size = lru.size
          /\ lru'.items = (lru.items \cup {key}) \ {lru.evictList[n].key}
          /\ lru'.evictList = Seqs!RemoveAt(all.evictList, Length(all)) /\ Length(lru') = n
      <4>1. lru' = removeOldest(all)
        BY <2>8, <2>9
      <4>2. /\ Agrees(lru') /\ lru'.size = all.size /\ lru'.items = all.items \ {Oldest(all).key}
            /\ lru'.evictList = Seqs!RemoveAt(all.evictList, Length(all))
            /\ Length(lru') = Length(all) - 1
        BY <2>1, <3>1, <4>1, OldestRemoved
      <4>3. lru'.size = lru.size
        BY <2>1, <4>2
      <4>5. Length(lru') = n
        <5>1. Length(all) = n + 1
          BY <2>1
        <5>2. Length(lru') = Length(all) - 1
          BY <4>2
        <5> HIDE DEF n
        <5> QED
          BY <1>2, <5>1, <5>2
      <4>4. lru'.items = (lru.items \cup {key}) \ {lru.evictList[n].key}
        BY <2>1, <3>2, <4>2
      <4> QED
        BY <4>2, <4>3, <4>4, <4>5
    <3>4. Ordered(lru'.evictList, usedAfter')
      <4>1. all.evictList \in Seq(Entries) /\ Length(all) \in 1 .. Len(all.evictList)
        BY <2>1, <3>1, Fields DEF Agrees, Length
      <4> QED
        BY <2>6, <3>3, <4>1, OrderedWithout
    <3>5. LRUInv'
      BY <1>2, <3>1, <3>3, <3>4 DEF LRUInv, WellFormed, Bounded
    <3>6. \A i \in 1 .. n : i \in {n} <=> Gone(i)
      <4>1. \A i \in 1 .. n : lru.evictList[i].key = lru.evictList[n].key => i = n
        BY <3>1, KeysThere DEF LRUInv
      <4> QED
        BY <2>3, <3>1, <3>3, <4>1 DEF Gone
    <3>7. LRUEvictionIsReported
      BY <2>8, <2>9, <3>1, <3>5, <3>6, Reported DEF LRUInv
    <3> QED
      BY <3>5, <3>7
  <2>10. CASE ~Evicts(lru, key)
    <3>1. lru' = all /\ Calls({})
      BY <2>8, <2>10
    <3> HIDE DEF all
    <3>2. LRUInv'
      <4>1. n + 1 <= lru.size
        BY <1>2, <2>7, <2>10
      <4>2. Agrees(lru') /\ lru'.size = lru.size /\ Length(lru') = n + 1
        BY <2>1, <3>1
      <4>3. Ordered(lru'.evictList, usedAfter')
        BY <2>6, <3>1
      <4> QED
        BY <1>2, <4>1, <4>2, <4>3 DEF LRUInv, WellFormed, Bounded
    <3>3. \A i \in 1 .. n : ~Gone(i)
      BY <2>1, <2>3, <3>1 DEF Gone
    <3> QED
      BY <3>1, <3>2, <3>3, Reported DEF LRUInv
  <2> QED
    BY <2>9, <2>10
<1> QED
  BY <1>3, <1>4

LEMMA GetInv ==
  ASSUME LRUInv, NEW key \in Keys, CacheGet(key)
  PROVE  LRUInv' /\ LRUEvictionIsReported
<1>1. LRUInv' /\ lru'.items = lru.items
  <2>1. CASE Contains(lru, key)
    <3>1. Peek(lru, key) \in AnyValue
      BY <2>1, PositionIsThere DEF LRUInv, WellFormed
    <3> QED
      BY <2>1, <3>1, FrontInv DEF CacheGet, Get
  <2>2. CASE ~Contains(lru, key)
    BY <2>2 DEF CacheGet, Get, LRUInv
  <2> QED
    BY <2>1, <2>2
<1>2. Calls({})
  BY DEF CacheGet, Calls
<1> QED
  BY <1>1, <1>2, Reported, KeysThere DEF LRUInv, Gone

\* One element goes.
LEMMA OneGoesInv ==
  ASSUME LRUInv, NEW i \in 1 .. Length(lru), lru' = removeElement(lru, i), Calls({i}),
         UNCHANGED usedAfter
  PROVE  LRUInv' /\ LRUEvictionIsReported
<1>1. /\ Agrees(lru') /\ lru'.size = lru.size /\ lru'.items = lru.items \ {lru.evictList[i].key}
      /\ lru'.evictList = Seqs!RemoveAt(lru.evictList, i) /\ Length(lru') = Length(lru) - 1
  BY ElementRemoved DEF LRUInv, WellFormed
<1>2. lru.evictList \in Seq(Entries) /\ i \in 1 .. Len(lru.evictList)
  BY Fields DEF LRUInv, WellFormed, Agrees, Length
<1>3. Ordered(lru'.evictList, usedAfter')
  BY <1>1, <1>2, OrderedWithout DEF LRUInv
<1>4. Length(lru) \in Nat /\ lru.size \in Nat /\ Length(lru) <= lru.size
  BY ListFacts DEF LRUInv
<1>5. LRUInv'
  BY <1>1, <1>3, <1>4 DEF LRUInv, WellFormed, Bounded
<1>6. \A j \in 1 .. Length(lru) : j \in {i} <=> Gone(j)
  BY <1>1, KeysThere DEF LRUInv, Gone
<1> QED
  BY <1>5, <1>6, Reported DEF LRUInv

LEMMA RemoveInv ==
  ASSUME LRUInv, NEW key \in Keys, CacheRemove(key)
  PROVE  LRUInv' /\ LRUEvictionIsReported
<1> DEFINE i == Position(lru.evictList, key)
<1>1. i \in 1 .. Length(lru)
  BY PositionIsThere DEF CacheRemove, LRUInv, WellFormed
<1>2. lru' = removeElement(lru, i) /\ Calls({i}) /\ UNCHANGED usedAfter
  BY DEF CacheRemove, Remove
<1> QED
  BY <1>1, <1>2, OneGoesInv

LEMMA RemoveOldestInv ==
  ASSUME LRUInv, CacheRemoveOldest
  PROVE  LRUInv' /\ LRUEvictionIsReported
<1>1. Length(lru) \in 1 .. Length(lru)
  BY Fields DEF CacheRemoveOldest, LRUInv, WellFormed, Agrees
<1>2. lru' = removeElement(lru, Length(lru)) /\ Calls({Length(lru)}) /\ UNCHANGED usedAfter
  BY DEF CacheRemoveOldest, removeOldest
<1> QED
  BY <1>1, <1>2, OneGoesInv

LEMMA ResizeInv ==
  ASSUME LRUInv, NEW size \in Sizes, CacheResize(size)
  PROVE  LRUInv' /\ LRUEvictionIsReported
<1> DEFINE n    == Length(lru)
           m    == n - Excess(lru, size)
           s    == lru.evictList
           kept == SubSeq(s, 1, m)
<1>1. n \in Nat /\ s \in Seq(Entries) /\ DOMAIN s = 1 .. n /\ \A i \in 1 .. n : s[i] \in Entries
  BY Fields DEF LRUInv, WellFormed, Agrees
<1>2. size \in Nat /\ size > 0
  BY SizesAssumption
<1>3. m \in 0 .. n /\ m <= size
  <2> HIDE DEF n
  <2>1. m = IF n > size THEN n - (n - size) ELSE n - 0
    BY DEF Excess, n
  <2> QED
    BY <1>1, <1>2, <2>1
<1>4. lru' = [size |-> size, evictList |-> kept,
              items |-> lru.items \ (KeysOf(s) \ KeysOf(kept))]
      /\ Calls({i \in DOMAIN s : i > m}) /\ UNCHANGED usedAfter
  BY DEF CacheResize, Resize
<1>5. (\A i, j \in 1 .. n : s[i].key = s[j].key => i = j) /\ lru.items = KeysOf(s)
        /\ lru.items \subseteq Keys
  BY <1>1 DEF LRUInv, WellFormed, Agrees, Consistent, IsLRU
<1>6. Ordered(s, usedAfter)
  BY DEF LRUInv
<1> HIDE DEF n, m, s
<1>7. kept \in Seq(Entries) /\ Len(kept) = m /\ \A i \in 1 .. m : kept[i] = s[i]
  <2>1. \A i \in 1 .. m : s[i] \in Entries
    BY <1>1, <1>3
  <2>2. m \in Int /\ m - 1 + 1 = m /\ (~(1 <= m) => m = 0) /\ \A i \in 1 .. m : 1 + i - 1 = i
    BY <1>1, <1>3
  <2> QED
    BY <2>1, <2>2, SubSeqProperties
<1>8. DOMAIN kept = 1 .. m
  BY <1>7, LenProperties
<1> HIDE DEF kept
<1>9. \A i \in 1 .. m : i \in 1 .. n
  BY <1>1, <1>3
<1>10. KeysOf(kept) \subseteq KeysOf(s)
  BY <1>1, <1>7, <1>8, <1>9 DEF KeysOf
<1>11. lru'.size = size /\ lru'.evictList = kept /\ lru'.items = KeysOf(kept) /\ Length(lru') = m
       /\ lru' = [size |-> lru'.size, evictList |-> lru'.evictList, items |-> lru'.items]
  <2>1. lru' = [size |-> size, evictList |-> kept, items |-> KeysOf(kept)]
    <3>1. lru.items \ (KeysOf(s) \ KeysOf(kept)) = KeysOf(kept)
      BY <1>5, <1>10
    <3> QED
      BY <1>4, <3>1
  <2> QED
    BY <1>7, <2>1 DEF Length
<1>12. Consistent(lru')
  BY <1>5, <1>7, <1>8, <1>9, <1>11 DEF Consistent
<1>13. IsLRU(lru')
  BY <1>2, <1>5, <1>7, <1>10, <1>11 DEF IsLRU
<1>14. Bounded(lru')
  BY <1>3, <1>11 DEF Bounded
<1>15. Ordered(kept, usedAfter')
  BY <1>1, <1>4, <1>6, <1>7, <1>8, <1>9 DEF Ordered
<1>16. LRUInv'
  BY <1>2, <1>11, <1>12, <1>13, <1>14, <1>15 DEF LRUInv, WellFormed, Agrees
<1>17. \A i \in 1 .. n : i > m <=> s[i].key \notin KeysOf(kept)
  <2> SUFFICES ASSUME NEW i \in 1 .. n
               PROVE  i > m <=> s[i].key \notin KeysOf(kept)
    OBVIOUS
  <2>1. i > m <=> i \notin 1 .. m
    BY <1>1, <1>3
  <2>2. s[i].key \in KeysOf(kept) <=> \E j \in 1 .. m : s[j].key = s[i].key
    BY <1>7, <1>8 DEF KeysOf
  <2> QED
    BY <1>5, <1>9, <2>1, <2>2
<1>18. LRUEvictionIsReported
  <2> DEFINE positions == {i \in DOMAIN s : i > m}
  <2>1. positions \subseteq 1 .. Length(lru)
        /\ \A i \in 1 .. Length(lru) : i \in positions <=> Gone(i)
    BY <1>1, <1>11, <1>17 DEF Gone, n, s
  <2> HIDE DEF positions
  <2>2. Calls(positions)
    BY <1>4 DEF positions
  <2> QED
    BY <1>16, <2>1, <2>2, Reported DEF LRUInv
<1> QED
  BY <1>16, <1>18

LEMMA PurgeInv ==
  ASSUME LRUInv, CachePurge
  PROVE  LRUInv' /\ LRUEvictionIsReported
<1>1. WellFormed(lru') /\ lru'.items = {} /\ Length(lru') = 0 /\ lru'.size = lru.size
  BY Purged DEF CachePurge, LRUInv
<1>2. Ordered(lru'.evictList, usedAfter')
  <2>1. DOMAIN lru'.evictList = 1 .. 0
    BY <1>1, Fields DEF WellFormed, Agrees
  <2> QED
    BY <2>1 DEF Ordered
<1>3. LRUInv'
  BY <1>1, <1>2 DEF LRUInv
<1>4. DOMAIN lru.evictList = 1 .. Length(lru) /\ Calls(DOMAIN lru.evictList)
  BY Fields DEF LRUInv, WellFormed, Agrees, CachePurge
<1> QED
  BY <1>1, <1>3, <1>4, Reported DEF LRUInv, Gone

LEMMA LRUInitInv == LRUInit => LRUInv
<1> SUFFICES ASSUME LRUInit
             PROVE  LRUInv
  OBVIOUS
<1>1. InitSize \in Nat /\ InitSize > 0
  BY SizesAssumption
<1>2. WellFormed(lru) /\ lru.size = InitSize /\ Length(lru) = 0
  BY <1>1, New DEF LRUInit
<1>3. DOMAIN lru.evictList = 1 .. 0
  BY <1>2, Fields DEF WellFormed, Agrees
<1> QED
  BY <1>1, <1>2, <1>3 DEF LRUInv, Ordered

LEMMA LRUNextInv == LRUInv /\ [LRUNext]_lruVars => LRUInv' /\ [LRUEvictionIsReported]_lruVars
<1> SUFFICES ASSUME LRUInv, [LRUNext]_lruVars
             PROVE  LRUInv' /\ [LRUEvictionIsReported]_lruVars
  OBVIOUS
<1>1. CASE UNCHANGED lruVars
  BY <1>1 DEF lruVars, LRUInv
<1> QED
  BY <1>1, AddInv, GetInv, RemoveInv, RemoveOldestInv, ResizeInv, PurgeInv DEF LRUNext

-----------------------------------------------------------------------------

\* Inv holds in every reachable state.
THEOREM LRUInvariance == LRUSpec => []LRUInv
BY LRUInitInv, LRUNextInv, PTL DEF LRUSpec

\* The list and the map have the same keys, once each, and no more than the size
\* (simplelru/lru.go:51), which Resize may change (simplelru/lru.go:149).
THEOREM ListAndMapAgree == LRUSpec => []ListMatchesItems
<1>1. LRUInv => ListMatchesItems
  BY DEF LRUInv, WellFormed, Agrees, ListMatchesItems
<1> QED
  BY <1>1, LRUInvariance, PTL

\* The list is in the order of use, so that the least recently used go first
\* (simplelru/lru.go:162).
THEOREM OrderHolds == LRUSpec => []LRUOrderIsRecency
<1>1. LRUInv => LRUOrderIsRecency
  BY DEF LRUInv, Ordered, LRUOrderIsRecency
<1> QED
  BY <1>1, LRUInvariance, PTL

\* onEvict is called once with each entry that goes, and with no other
\* (simplelru/lru.go:170).
THEOREM EvictionsReported == LRUSpec => LRUEvictionsAreReported
BY LRUInvariance, LRUNextInv, PTL DEF LRUSpec, LRUEvictionsAreReported

-----------------------------------------------------------------------------
(* Refinement: the LRU implements the lossy cache.                       *)

\* The content is that of the elements, and there are as many keys as the list is
\* long.
LEMMA LRUHeldIs ==
  LRUInv => /\ OneEach(Elements(lru)) /\ Content(lru) = ContentOf(Elements(lru))
            /\ DOMAIN Content(lru) = lru.items
            /\ LRUPromise!Held = Length(lru) /\ Length(lru) \in Nat
<1> SUFFICES ASSUME LRUInv
             PROVE  /\ OneEach(Elements(lru)) /\ Content(lru) = ContentOf(Elements(lru))
                    /\ DOMAIN Content(lru) = lru.items
                    /\ LRUPromise!Held = Length(lru) /\ Length(lru) \in Nat
  OBVIOUS
<1>1. Agrees(lru)
  BY DEF LRUInv, WellFormed
<1>2. OneEach(Elements(lru)) /\ Content(lru) = ContentOf(Elements(lru))
  BY <1>1, ElementFacts, ContentOfList
<1>3. DOMAIN Content(lru) = lru.items
  BY DEF Content
<1>4. Cardinality(lru.items) = Length(lru) /\ Length(lru) \in Nat
  BY <1>1, KeysCounted
<1>5. LRUPromise!Held = Length(lru)
  BY <1>3, <1>4 DEF LRUPromise!Held, LRUPromise!Cardinality, Cardinality
<1> QED
  BY <1>2, <1>3, <1>4, <1>5

LEMMA LRUHeldIsNext ==
  LRUInv' => /\ OneEach(Elements(lru')) /\ Content(lru') = ContentOf(Elements(lru'))
             /\ DOMAIN Content(lru') = lru'.items
             /\ LRUPromise!Held' = Length(lru') /\ Length(lru') \in Nat
<1>1. (LRUInv => /\ OneEach(Elements(lru)) /\ Content(lru) = ContentOf(Elements(lru))
                 /\ DOMAIN Content(lru) = lru.items
                 /\ LRUPromise!Held = Length(lru) /\ Length(lru) \in Nat)'
  BY LRUHeldIs, PTL
<1> QED
  BY <1>1

\* What goes only makes room.
LRUMakesRoom == lru.items \subseteq lru'.items \/ Length(lru') >= lru'.size

LEMMA LRURoomIsMade ==
  ASSUME LRUInv, LRUInv', LRUMakesRoom
  PROVE  LRUPromise!MakesRoom
BY LRUHeldIs, LRUHeldIsNext DEF LRUMakesRoom, LRUPromise!MakesRoom

\* What a method makes of the elements: it gives a key its value, or it loses
\* some.
LEMMA LRUStepPuts ==
  ASSUME LRUInv, LRUInv', NEW key \in Keys, NEW value \in Values,
         NEW e \in Elements(lru'), e.key = key, e.value = value,
         Elements(lru') \subseteq Elements(lru) \cup {e},
         LRUMakesRoom, lru'.size = lru.size
  PROVE  LRUPromise!Add(key, value)
<1>1. Puts(Content(lru), key, value, Content(lru'))
  BY LRUHeldIs, LRUHeldIsNext, ContentPut
<1> QED
  BY <1>1, LRURoomIsMade DEF LRUPromise!Add, Puts

LEMMA LRUStepLoses ==
  ASSUME LRUInv, LRUInv', Elements(lru') \subseteq Elements(lru)
  PROVE  lru'.items \subseteq lru.items /\ LRUPromise!Keeps(lru'.items)
<1>1. /\ DOMAIN Content(lru') \subseteq DOMAIN Content(lru)
      /\ Content(lru') = [k \in DOMAIN Content(lru') |-> Content(lru)[k]]
  BY LRUHeldIs, LRUHeldIsNext, ContentLost
<1> QED
  BY <1>1, LRUHeldIs, LRUHeldIsNext DEF LRUPromise!Keeps, LRUPromise!Restrict

LEMMA LRUAddKept ==
  ASSUME LRUInv, LRUInv', NEW key \in Keys, NEW value \in Values, CacheAdd(key, value)
  PROVE  LRUPromise!Add(key, value)
<1> DEFINE e == [key |-> key, value |-> value]
<1>1. value \in AnyValue /\ lru' = Add(lru, key, value) /\ WellFormed(lru) /\ lru.size > 0
  BY DEF AnyValue, CacheAdd, LRUInv
<1>2. e.key = key /\ e.value = value /\ e \in Elements(lru')
      /\ Elements(lru') \subseteq Elements(lru) \cup {e}
  BY <1>1, AddedElements
<1> HIDE DEF e
<1>3. lru'.size = lru.size /\ LRUMakesRoom
  <2>1. /\ lru'.size = lru.size /\ lru.size \in Nat /\ Length(lru') \in Nat
        /\ Contains(lru, key) => lru'.items = lru.items
        /\ ~Contains(lru, key) => Length(lru') = lru.size \/ lru'.items = lru.items \cup {key}
    BY <1>1, Added, ListFacts, LRUHeldIsNext
  <2> QED
    BY <2>1 DEF LRUMakesRoom
<1> QED
  BY <1>2, <1>3, LRUStepPuts

LEMMA LRUGetKept ==
  ASSUME LRUInv, LRUInv', NEW key \in Keys, CacheGet(key)
  PROVE  LRUPromise!Get(key)
<1>1. WellFormed(lru) /\ lru' = Get(lru, key)
  BY DEF CacheGet, LRUInv
<1>2. Elements(lru') \subseteq Elements(lru) /\ lru'.size = lru.size /\ lru'.items = lru.items
  BY <1>1, GottenElements, Gotten
<1>3. LRUPromise!Keeps(lru'.items) /\ LRUPromise!MakesRoom
  BY <1>2, LRUStepLoses, LRURoomIsMade DEF LRUMakesRoom
<1> QED
  BY <1>2, <1>3, LRUHeldIs DEF LRUPromise!Get

LEMMA LRURemoveKept ==
  ASSUME LRUInv, LRUInv', NEW key, Elements(lru') \subseteq Elements(lru),
         lru'.items = lru.items \ {key}, lru'.size = lru.size
  PROVE  LRUPromise!Remove(key)
<1>1. LRUPromise!Keeps(lru'.items)
  BY LRUStepLoses
<1> QED
  BY <1>1, LRUHeldIs DEF LRUPromise!Remove

LEMMA LRUResizeKept ==
  ASSUME LRUInv, LRUInv', NEW size \in Sizes, CacheResize(size)
  PROVE  LRUPromise!Resize(size)
<1> DEFINE n == Length(lru)
<1>1. Agrees(lru) /\ size \in Nat /\ lru' = Resize(lru, size) /\ n \in Nat
  BY SizesAssumption, LRUHeldIs DEF LRUInv, WellFormed, CacheResize
<1>2. /\ Elements(lru') \subseteq Elements(lru) /\ lru'.size = size
      /\ Length(lru') = (IF n > size THEN size ELSE n)
      /\ n <= size => lru'.items = lru.items
  BY <1>1, ResizedElements
<1> HIDE DEF n
<1>3. LRUMakesRoom
  BY <1>1, <1>2 DEF LRUMakesRoom
<1>4. lru'.items \subseteq lru.items /\ LRUPromise!Keeps(lru'.items) /\ LRUPromise!MakesRoom
  BY <1>2, <1>3, LRUStepLoses, LRURoomIsMade
<1> QED
  BY <1>2, <1>4, LRUHeldIs DEF LRUPromise!Resize

LEMMA LRUPurgeKept ==
  ASSUME LRUInv, LRUInv', CachePurge
  PROVE  LRUPromise!Purge
<1>1. WellFormed(lru) /\ lru.size \in Nat /\ lru' = Purge(lru)
  BY ListFacts DEF LRUInv, CachePurge
<1>2. Elements(lru') = {} /\ lru'.size = lru.size /\ lru'.items = {}
  BY <1>1, NewElements, Purged DEF Purge
<1> QED
  BY <1>2, LRUStepLoses DEF LRUPromise!Purge

LEMMA LRUCallsKept ==
  ASSUME LRUInv, LRUInv'
  PROVE  LRUCallIsKept
<1>1. Agrees(lru) /\ WellFormed(lru)
  BY DEF LRUInv, WellFormed
<1>2. ASSUME NEW key \in Keys, CacheRemove(key)
      PROVE  LRUPromise!Remove(key)
  <2>1. /\ Elements(lru') \subseteq Elements(lru) /\ lru'.size = lru.size
        /\ lru'.items = lru.items \ {key}
    BY <1>1, <1>2, KeyRemovedElements, Removed DEF CacheRemove
  <2> QED
    BY <2>1, LRURemoveKept
<1>3. ASSUME CacheRemoveOldest
      PROVE  LRUPromise!Remove(Oldest(lru).key)
  <2>1. Length(lru) > 0
    BY <1>1, <1>3, Fields DEF CacheRemoveOldest, Agrees
  <2>2. /\ Elements(lru') \subseteq Elements(lru) /\ lru'.size = lru.size
        /\ lru'.items = lru.items \ {Oldest(lru).key}
    BY <1>1, <1>3, <2>1, OldestElements, OldestRemoved DEF CacheRemoveOldest
  <2> QED
    BY <2>2, LRURemoveKept
<1> QED
  BY <1>2, <1>3, LRUAddKept, LRUGetKept, LRUResizeKept, LRUPurgeKept DEF LRUCallIsKept

LEMMA LRUStepRefines ==
  LRUInv /\ LRUInv' /\ [LRUNext]_lruVars
    => [LRUPromise!Next]_(LRUPromise!cacheVars) /\ [LRUCallIsKept]_lruVars
<1> SUFFICES ASSUME LRUInv, LRUInv', [LRUNext]_lruVars
             PROVE  [LRUPromise!Next]_(LRUPromise!cacheVars) /\ [LRUCallIsKept]_lruVars
  OBVIOUS
<1>1. LRUCallIsKept
  BY LRUCallsKept
<1>2. LRUPromise!Held' <= lru'.size + 0
  <2>1. Length(lru') <= lru'.size /\ lru'.size \in Nat
    BY ListFacts DEF LRUInv
  <2> QED
    BY <2>1, LRUHeldIsNext
<1>3. CASE LRUNext
  <2>1. CacheRemoveOldest => Oldest(lru).key \in Keys
    <3>1. Agrees(lru)
      BY DEF LRUInv, WellFormed
    <3>2. CacheRemoveOldest => Length(lru) > 0
      BY <3>1, Fields DEF CacheRemoveOldest, Agrees
    <3> QED
      BY <3>1, <3>2, OldestRemoved
  <2>2. \/ \E key \in Keys, value \in Values : LRUPromise!Add(key, value)
        \/ \E key \in Keys : LRUPromise!Get(key) \/ LRUPromise!Remove(key)
        \/ \E to \in Sizes : LRUPromise!Resize(to)
        \/ LRUPromise!Purge
    BY <1>1, <1>3, <2>1 DEF LRUNext, LRUCallIsKept
  <2> QED
    BY <1>1, <1>2, <2>2 DEF LRUPromise!Next
<1>4. CASE UNCHANGED lruVars
  <2>1. UNCHANGED LRUPromise!cacheVars
    BY <1>4 DEF lruVars, LRUPromise!cacheVars
  <2> QED
    BY <1>1, <2>1
<1> QED
  BY <1>3, <1>4

LEMMA LRUInitRefines == LRUInit => LRUPromise!Init
<1> SUFFICES ASSUME LRUInit
             PROVE  LRUPromise!Init
  OBVIOUS
<1>1. InitSize \in Nat /\ lru = NewLRU(InitSize)
  BY SizesAssumption DEF LRUInit
<1>2. lru.items = {} /\ lru.size = InitSize
  BY <1>1, New
<1>3. Content(lru) = [k \in {} |-> CHOOSE v \in Values : TRUE]
  BY <1>2 DEF Content
<1> QED
  BY <1>1, <1>2, <1>3 DEF LRUPromise!Init

\* An LRU is a lossy cache of its size (simplelru/lru.go:50): a key has the value
\* it was last given or is not there, it is there when it was given one last; Get
\* loses no key, and Add and Resize lose none that they need not.
THEOREM LRUPromiseKept == LRUSpec => LRUKeepsPromise
<1>1. LRUSpec => []LRUInv
  BY LRUInvariance
<1> QED
  BY <1>1, LRUInitRefines, LRUStepRefines, PTL DEF LRUSpec, LRUPromise!Spec, LRUKeepsPromise

(***************************************************************************)
(* 2Q                                                                      *)
(***************************************************************************)

TwoQueueLists == WellFormed(recent) /\ WellFormed(frequent) /\ WellFormed(recentEvict)

TwoQueueApart ==
  /\ recent.items \cap frequent.items = {}
  /\ (recent.items \cup frequent.items) \cap recentEvict.items = {}

\* Neither resident list is ever larger than the cache.
TwoQueueSizesStay == recent.size = Size /\ frequent.size = Size

\* A key was used once before it became a ghost.
Earned ==
  /\ uses \in [Keys -> 0 .. 2]
  /\ TwoQueueFrequentIsEarned
  /\ \A key \in recentEvict.items : uses[key] = 1

TwoQueueInv ==
  /\ TwoQueueLists /\ TwoQueueApart /\ TwoQueueSizesStay /\ TwoQueueSizeIsShared /\ Earned
  /\ recentSize \in RecentSizes

-----------------------------------------------------------------------------

\* The share of recent is one of those that New2QParams may give it.
LEMMA TwoQueueSized ==
  ASSUME recentSize \in RecentSizes
  PROVE  /\ Size \in Nat \ {0} /\ GhostSize \in Nat /\ recentSize \in Nat /\ recentSize <= Size
         /\ TwoQueueSpare \in Nat /\ (recentSize = Size => TwoQueueSpare = 1)
<1>1. recentSize \in 0 .. Size /\ Size \in Nat \ {0} /\ GhostSize \in Nat
  BY SizesAssumption
<1> QED
  BY <1>1 DEF TwoQueueSpare

\* ensureSpace evicts a recent key, which becomes a ghost, or a frequent one, or
\* none, and leaves room for the key that is to be added.
LEMMA SpaceEnsured ==
  ASSUME TwoQueueInv, NEW ghost \in BOOLEAN
  PROVE  /\ WellFormed(RecentAfter(ghost)) /\ RecentAfter(ghost).size = Size
         /\ WellFormed(FrequentAfter(ghost)) /\ FrequentAfter(ghost).size = Size
         /\ WellFormed(GhostsAfter(ghost))
         /\ RecentAfter(ghost).items \subseteq recent.items
         /\ FrequentAfter(ghost).items \subseteq frequent.items
         /\ GhostsAfter(ghost).items \subseteq
              recentEvict.items \cup (recent.items \ RecentAfter(ghost).items)
         /\ Length(RecentAfter(ghost)) + Length(FrequentAfter(ghost)) + 1 <= Size + TwoQueueSpare
         /\ \/ RecentAfter(ghost) = recent /\ FrequentAfter(ghost) = frequent
            \/ Length(RecentAfter(ghost)) + Length(FrequentAfter(ghost)) + 1 >= Size
         /\ ~ghost /\ Length(FrequentAfter(ghost)) < Length(frequent) =>
              Length(RecentAfter(ghost)) + 1 <= recentSize \/ recent.items = {}
<1> DEFINE r == Length(recent)
           f == Length(frequent)
<1>1. /\ r \in Nat /\ r <= Size /\ f \in Nat /\ f <= Size /\ r + f <= Size + TwoQueueSpare
      /\ Agrees(recent) /\ Agrees(frequent) /\ (r = 0 => recent.items = {})
  BY ListFacts DEF TwoQueueInv, TwoQueueLists, TwoQueueSizesStay, TwoQueueSizeIsShared
<1>2. HasRoom <=> r + f < Size
  BY DEF HasRoom
<1>3. EvictsRecent(ghost) => r > 0
  BY DEF EvictsRecent
<1>4. ~EvictsRecent(ghost) => r = 0 \/ ~(r > recentSize)
  BY <1>1 DEF EvictsRecent
<1>5. ~EvictsRecent(ghost) /\ ~ghost => r = 0 \/ r < recentSize
  BY <1>1, TwoQueueSized DEF EvictsRecent, TwoQueueInv
<1>6. /\ Size \in Nat \ {0} /\ recentSize \in Nat /\ recentSize <= Size
      /\ TwoQueueSpare \in Nat /\ (recentSize = Size => TwoQueueSpare = 1)
  BY TwoQueueSized DEF TwoQueueInv
<1>7. CASE HasRoom
  <2>1. RecentAfter(ghost) = recent /\ FrequentAfter(ghost) = frequent
        /\ GhostsAfter(ghost) = recentEvict
    BY <1>7 DEF RecentAfter, FrequentAfter, GhostsAfter
  <2>2. r + f + 1 <= Size + TwoQueueSpare
    BY <1>1, <1>2, <1>6, <1>7, <1>6
  <2> QED
    BY <1>1, <2>1, <2>2 DEF TwoQueueInv, TwoQueueLists, TwoQueueSizesStay
<1>8. CASE ~HasRoom /\ EvictsRecent(ghost)
  <2> DEFINE old   == Oldest(recent).key
             after == removeOldest(recent)
  <2>1. RecentAfter(ghost) = after /\ FrequentAfter(ghost) = frequent
        /\ GhostsAfter(ghost) = Add(recentEvict, old, Nil)
    BY <1>8 DEF RecentAfter, FrequentAfter, GhostsAfter
  <2>2. /\ Agrees(after) /\ after.size = recent.size /\ after.items = recent.items \ {old}
        /\ old \in recent.items /\ old \in Keys /\ Length(after) = r - 1
    BY <1>1, <1>3, <1>8, OldestRemoved
  <2>3. WellFormed(Add(recentEvict, old, Nil))
        /\ Add(recentEvict, old, Nil).items \subseteq recentEvict.items \cup {old}
    <3>1. Nil \in AnyValue
      BY DEF AnyValue
    <3> HIDE DEF old
    <3> QED
      BY <2>2, <3>1, Added DEF TwoQueueInv, TwoQueueLists
  <2> HIDE DEF old, after
  <2>4. WellFormed(after) /\ after.size = Size /\ after.items \subseteq recent.items
        /\ old \in recent.items \ after.items
    BY <1>1, <2>2, <1>6 DEF WellFormed, Bounded, TwoQueueInv, TwoQueueSizesStay
  <2>5. Length(after) + f + 1 <= Size + TwoQueueSpare /\ ~(f < f) /\ Length(after) + f + 1 >= Size
    BY <1>1, <1>2, <1>6, <1>8, <2>2
  <2> QED
    BY <1>1, <2>1, <2>3, <2>4, <2>5 DEF TwoQueueInv, TwoQueueLists, TwoQueueSizesStay
<1>9. CASE ~HasRoom /\ ~EvictsRecent(ghost)
  <2> DEFINE after == removeOldest(frequent)
  <2>1. RecentAfter(ghost) = recent /\ FrequentAfter(ghost) = after
        /\ GhostsAfter(ghost) = recentEvict
    BY <1>9 DEF RecentAfter, FrequentAfter, GhostsAfter
  <2>2. CASE f > 0
    <3>1. /\ Agrees(after) /\ after.size = frequent.size /\ after.items \subseteq frequent.items
          /\ Length(after) = f - 1
      BY <1>1, <2>2, OldestRemoved
    <3> HIDE DEF after
    <3>2. WellFormed(after) /\ after.size = Size /\ r + Length(after) + 1 <= Size + TwoQueueSpare
          /\ r + Length(after) + 1 >= Size
      BY <1>1, <1>2, <1>6, <1>9, <3>1 DEF WellFormed, Bounded, TwoQueueInv, TwoQueueSizesStay
    <3>3. ~ghost => r + 1 <= recentSize \/ recent.items = {}
      BY <1>1, <1>4, <1>5, <1>9, <1>6
    <3> QED
      BY <1>1, <2>1, <3>1, <3>2, <3>3 DEF TwoQueueInv, TwoQueueLists, TwoQueueSizesStay
  <2>3. CASE ~(f > 0)
    <3>1. after = frequent /\ f = 0
      BY <1>1, <2>3, NothingRemoved
    <3> HIDE DEF after
    <3>2. r = Size /\ recentSize = Size
      BY <1>1, <1>2, <1>4, <1>9, <3>1, <1>6
    <3>3. r + f + 1 <= Size + TwoQueueSpare /\ ~(f < f)
      BY <1>1, <1>6, <3>1, <3>2, <1>6
    <3> QED
      BY <1>1, <2>1, <3>1, <3>3 DEF TwoQueueInv, TwoQueueLists, TwoQueueSizesStay
  <2> QED
    BY <2>2, <2>3
<1> QED
  BY <1>7, <1>8, <1>9

-----------------------------------------------------------------------------
(* The methods.                                                            *)

LEMMA TwoQueueInitInv == TwoQueueInit => TwoQueueInv
<1> SUFFICES ASSUME TwoQueueInit
             PROVE  TwoQueueInv
  OBVIOUS
<1>1. Size \in Nat /\ GhostSize \in Nat
  BY SizesAssumption
<1>2. TwoQueueLists /\ TwoQueueSizesStay /\ recent.items = {} /\ frequent.items = {}
      /\ recentEvict.items = {}
      /\ Length(recent) = 0 /\ Length(frequent) = 0
  BY <1>1, New DEF TwoQueueInit, TwoQueueLists, TwoQueueSizesStay
<1>3. TwoQueueSizeIsShared /\ recentSize \in RecentSizes
  BY <1>2, TwoQueueSized DEF TwoQueueSizeIsShared, TwoQueueInit
<1>4. Earned
  BY <1>2 DEF TwoQueueInit, Earned, TwoQueueFrequentIsEarned
<1> QED
  BY <1>2, <1>3, <1>4 DEF TwoQueueInv, TwoQueueApart

\* The history of a key that is used.
LEMMA Used ==
  ASSUME TwoQueueInv, NEW key \in Keys, CountUse(key)
  PROVE  /\ uses' \in [Keys -> 0 .. 2]
         /\ uses'[key] = IF uses[key] = 2 THEN 2 ELSE uses[key] + 1
         /\ \A other \in Keys \ {key} : uses'[other] = uses[other]
<1>1. uses \in [Keys -> 0 .. 2]
  BY DEF TwoQueueInv, Earned
<1>2. (IF uses[key] = 2 THEN 2 ELSE uses[key] + 1) \in 0 .. 2
  BY <1>1
<1> QED
  BY <1>1, <1>2 DEF CountUse

LEMMA ItemsAreKeys ==
  ASSUME TwoQueueLists
  PROVE  recent.items \subseteq Keys /\ frequent.items \subseteq Keys
         /\ recentEvict.items \subseteq Keys
BY ListFacts DEF TwoQueueLists

\* Get and Add of a frequent key.
LEMMA FrequentInv ==
  ASSUME TwoQueueInv, NEW key \in Keys, Contains(frequent, key), CountUse(key),
         UNCHANGED <<recent, recentEvict, recentSize>>,
         WellFormed(frequent'), frequent'.size = frequent.size, frequent'.items = frequent.items,
         Length(frequent') = Length(frequent)
  PROVE  TwoQueueInv'
<1>1. TwoQueueLists' /\ TwoQueueApart' /\ TwoQueueSizesStay' /\ TwoQueueSizeIsShared'
  BY DEF TwoQueueInv, TwoQueueLists, TwoQueueApart, TwoQueueSizesStay, TwoQueueSizeIsShared,
     TwoQueueSpare
<1>2. uses[key] = 2 /\ key \notin recent.items /\ key \notin recentEvict.items
  BY DEF TwoQueueInv, TwoQueueApart, Earned, TwoQueueFrequentIsEarned, Contains
<1>3. uses' \in [Keys -> 0 .. 2] /\ \A other \in Keys : uses'[other] = uses[other]
  BY <1>2, Used
<1>4. Earned'
  BY <1>3, ItemsAreKeys DEF TwoQueueInv, Earned, TwoQueueFrequentIsEarned
<1> QED
  BY <1>1, <1>4 DEF TwoQueueInv

\* Get and Add of a recent key promote it.
LEMMA TwoQueuePromoteInv ==
  ASSUME TwoQueueInv, NEW key \in Keys, NEW value \in AnyValue, TwoQueuePromote(key, value),
         UNCHANGED recentSize
  PROVE  TwoQueueInv'
<1>1. /\ WellFormed(recent') /\ recent'.size = recent.size /\ recent'.items = recent.items \ {key}
      /\ Length(recent') = Length(recent) - 1
  BY Removed DEF TwoQueuePromote, TwoQueueInv, TwoQueueLists
<1>2. /\ WellFormed(frequent') /\ frequent'.size = frequent.size
      /\ frequent'.items \subseteq frequent.items \cup {key}
      /\ Length(frequent') \in {Length(frequent), Length(frequent) + 1}
  BY Added DEF TwoQueuePromote, TwoQueueInv, TwoQueueLists
<1>3. TwoQueueLists' /\ TwoQueueApart' /\ TwoQueueSizesStay'
  BY <1>1, <1>2 DEF TwoQueuePromote, TwoQueueInv, TwoQueueLists, TwoQueueApart,
     TwoQueueSizesStay, Contains
<1>4. TwoQueueSizeIsShared'
  <2>1. Length(recent) \in Nat /\ Length(frequent) \in Nat
    BY ListFacts DEF TwoQueueInv, TwoQueueLists
  <2> QED
    BY <1>1, <1>2, <2>1, TwoQueueSized
       DEF TwoQueueInv, TwoQueueSizeIsShared, TwoQueueSpare
<1>5. uses[key] = 1 /\ key \notin recentEvict.items
  BY DEF TwoQueuePromote, TwoQueueInv, TwoQueueApart, Earned, TwoQueueFrequentIsEarned, Contains
<1>6. uses' \in [Keys -> 0 .. 2] /\ uses'[key] = 2
      /\ \A other \in Keys \ {key} : uses'[other] = uses[other]
  BY <1>5, Used DEF TwoQueuePromote
<1>7. Earned'
  BY <1>1, <1>2, <1>5, <1>6, ItemsAreKeys DEF TwoQueuePromote, TwoQueueInv, Earned,
     TwoQueueFrequentIsEarned
<1> QED
  BY <1>3, <1>4, <1>7 DEF TwoQueueInv

LEMMA AddGhostInv ==
  ASSUME TwoQueueInv, NEW key \in Keys, NEW value \in AnyValue, AddGhost(key, value),
         UNCHANGED recentSize
  PROVE  TwoQueueInv'
<1> DEFINE r == RecentAfter(TRUE)
           f == FrequentAfter(TRUE)
           g == GhostsAfter(TRUE)
<1>1. /\ WellFormed(r) /\ r.size = Size /\ WellFormed(f) /\ f.size = Size /\ WellFormed(g)
      /\ r.items \subseteq recent.items /\ f.items \subseteq frequent.items
      /\ g.items \subseteq recentEvict.items \cup (recent.items \ r.items)
      /\ Length(r) + Length(f) + 1 <= Size + TwoQueueSpare
  BY SpaceEnsured
<1>2. recent' = r /\ frequent' = Add(f, key, value) /\ recentEvict' = Remove(g, key)
      /\ CountUse(key)
      /\ key \notin frequent.items /\ key \notin recent.items /\ key \in recentEvict.items
  BY DEF AddGhost, Contains
<1> HIDE DEF r, f, g
<1>3. /\ WellFormed(frequent') /\ frequent'.size = f.size
      /\ frequent'.items \subseteq f.items \cup {key}
      /\ Length(frequent') \in {Length(f), Length(f) + 1}
  BY <1>1, <1>2, Added
<1>4. WellFormed(recentEvict') /\ recentEvict'.items = g.items \ {key}
  BY <1>1, <1>2, Removed
<1>5. TwoQueueLists' /\ TwoQueueApart' /\ TwoQueueSizesStay'
  BY <1>1, <1>2, <1>3, <1>4 DEF TwoQueueInv, TwoQueueLists, TwoQueueApart, TwoQueueSizesStay
<1>6. TwoQueueSizeIsShared'
  <2>1. Length(r) \in Nat /\ Length(f) \in Nat
    BY <1>1, ListFacts
  <2> QED
    BY <1>1, <1>2, <1>3, <2>1, TwoQueueSized
       DEF TwoQueueInv, TwoQueueSizeIsShared, TwoQueueSpare
<1>7. uses' \in [Keys -> 0 .. 2] /\ uses'[key] = 2
      /\ \A other \in Keys \ {key} : uses'[other] = uses[other]
  <2>1. uses[key] = 1
    BY <1>2 DEF TwoQueueInv, Earned
  <2> QED
    BY <1>2, <2>1, Used
<1>8. Earned'
  BY <1>1, <1>2, <1>3, <1>4, <1>7, ItemsAreKeys DEF TwoQueueInv, Earned, TwoQueueFrequentIsEarned
<1> QED
  BY <1>5, <1>6, <1>8 DEF TwoQueueInv

LEMMA TwoQueueAddNewInv ==
  ASSUME TwoQueueInv, NEW key \in Keys, NEW value \in AnyValue, TwoQueueAddNew(key, value),
         UNCHANGED recentSize
  PROVE  TwoQueueInv'
<1> DEFINE r == RecentAfter(FALSE)
           f == FrequentAfter(FALSE)
           g == GhostsAfter(FALSE)
<1>1. /\ WellFormed(r) /\ r.size = Size /\ WellFormed(f) /\ f.size = Size /\ WellFormed(g)
      /\ r.items \subseteq recent.items /\ f.items \subseteq frequent.items
      /\ g.items \subseteq recentEvict.items \cup (recent.items \ r.items)
      /\ Length(r) + Length(f) + 1 <= Size + TwoQueueSpare
  BY SpaceEnsured
<1>2. recent' = Add(r, key, value) /\ frequent' = f /\ recentEvict' = g
      /\ uses' = [uses EXCEPT ![key] = 1]
      /\ key \notin frequent.items /\ key \notin recent.items /\ key \notin recentEvict.items
  BY DEF TwoQueueAddNew, Contains
<1> HIDE DEF r, f, g
<1>3. /\ WellFormed(recent') /\ recent'.size = r.size
      /\ recent'.items \subseteq r.items \cup {key}
      /\ Length(recent') \in {Length(r), Length(r) + 1}
  BY <1>1, <1>2, Added
<1>4. TwoQueueLists' /\ TwoQueueApart' /\ TwoQueueSizesStay'
  BY <1>1, <1>2, <1>3 DEF TwoQueueInv, TwoQueueLists, TwoQueueApart, TwoQueueSizesStay
<1>5. TwoQueueSizeIsShared'
  <2>1. Length(r) \in Nat /\ Length(f) \in Nat
    BY <1>1, ListFacts
  <2> QED
    BY <1>1, <1>2, <1>3, <2>1, TwoQueueSized
       DEF TwoQueueInv, TwoQueueSizeIsShared, TwoQueueSpare
<1>6. uses' \in [Keys -> 0 .. 2] /\ uses'[key] = 1
      /\ \A other \in Keys \ {key} : uses'[other] = uses[other]
  BY <1>2 DEF TwoQueueInv, Earned
<1>7. Earned'
  BY <1>1, <1>2, <1>3, <1>6, ItemsAreKeys DEF TwoQueueInv, Earned, TwoQueueFrequentIsEarned
<1> QED
  BY <1>4, <1>5, <1>7 DEF TwoQueueInv

LEMMA TwoQueueRemoveKeyInv ==
  ASSUME TwoQueueInv, NEW key \in Keys, TwoQueueRemoveKey(key),
         UNCHANGED recentSize
  PROVE  TwoQueueInv'
<1>1. /\ TwoQueueLists' /\ TwoQueueSizesStay'
      /\ recent'.items \subseteq recent.items \ {key}
      /\ frequent'.items \subseteq frequent.items \ {key}
      /\ recentEvict'.items \subseteq recentEvict.items \ {key}
      /\ Length(recent') <= Length(recent) /\ Length(frequent') <= Length(frequent)
  <2>1. Length(recent) \in Nat /\ Length(frequent) \in Nat
    BY ListFacts DEF TwoQueueInv, TwoQueueLists
  <2>2. \A n \in Nat : n <= n /\ n - 1 <= n
    OBVIOUS
  <2>3. CASE /\ Contains(frequent, key)
             /\ frequent' = Remove(frequent, key)
             /\ UNCHANGED <<recent, recentEvict>>
    <3>1. /\ WellFormed(frequent') /\ frequent'.size = frequent.size
          /\ frequent'.items = frequent.items \ {key} /\ Length(frequent') = Length(frequent) - 1
      BY <2>3, Removed DEF TwoQueueInv, TwoQueueLists
    <3> QED
      BY <2>1, <2>2, <2>3, <3>1 DEF TwoQueueInv, TwoQueueLists, TwoQueueSizesStay,
         TwoQueueApart, Contains
  <2>4. CASE /\ ~Contains(frequent, key) /\ Contains(recent, key)
             /\ recent' = Remove(recent, key)
             /\ UNCHANGED <<frequent, recentEvict>>
    <3>1. /\ WellFormed(recent') /\ recent'.size = recent.size
          /\ recent'.items = recent.items \ {key} /\ Length(recent') = Length(recent) - 1
      BY <2>4, Removed DEF TwoQueueInv, TwoQueueLists
    <3> QED
      BY <2>1, <2>2, <2>4, <3>1 DEF TwoQueueInv, TwoQueueLists, TwoQueueSizesStay,
         TwoQueueApart, Contains
  <2>5. CASE /\ ~Contains(frequent, key) /\ ~Contains(recent, key)
             /\ recentEvict' = Remove(recentEvict, key)
             /\ UNCHANGED <<recent, frequent>>
    <3>1. WellFormed(recentEvict') /\ recentEvict'.items = recentEvict.items \ {key}
      BY <2>5, Removed DEF TwoQueueInv, TwoQueueLists
    <3> QED
      BY <2>1, <2>2, <2>5, <3>1 DEF TwoQueueInv, TwoQueueLists, TwoQueueSizesStay, Contains
  <2> QED
    BY <2>3, <2>4, <2>5 DEF TwoQueueRemoveKey
<1>2. TwoQueueApart'
  BY <1>1 DEF TwoQueueInv, TwoQueueApart
<1>3. TwoQueueSizeIsShared'
  <2>1. Length(recent) \in Nat /\ Length(frequent) \in Nat /\ Length(recent)' \in Nat
        /\ Length(frequent)' \in Nat
    BY <1>1, ListFacts DEF TwoQueueInv, TwoQueueLists
  <2> QED
    BY <1>1, <2>1, TwoQueueSized
       DEF TwoQueueInv, TwoQueueSizeIsShared, TwoQueueSpare
<1>4. Earned'
  BY <1>1, ItemsAreKeys DEF TwoQueueRemoveKey, TwoQueueInv, Earned, TwoQueueFrequentIsEarned
<1> QED
  BY <1>1, <1>2, <1>3, <1>4 DEF TwoQueueInv

LEMMA TwoQueuePurgeAllInv ==
  ASSUME TwoQueueInv, TwoQueuePurgeAll,
         UNCHANGED recentSize
  PROVE  TwoQueueInv'
<1>1. /\ TwoQueueLists' /\ TwoQueueSizesStay' /\ recent'.items = {} /\ frequent'.items = {}
      /\ recentEvict'.items = {}
      /\ Length(recent') = 0 /\ Length(frequent') = 0
  BY Purged DEF TwoQueuePurgeAll, TwoQueueInv, TwoQueueLists, TwoQueueSizesStay
<1>2. TwoQueueSizeIsShared'
  BY <1>1, TwoQueueSized
       DEF TwoQueueInv, TwoQueueSizeIsShared, TwoQueueSpare
<1>3. Earned'
  BY <1>1 DEF TwoQueuePurgeAll, Earned, TwoQueueFrequentIsEarned
<1> QED
  BY <1>1, <1>2, <1>3 DEF TwoQueueInv, TwoQueueApart

LEMMA TwoQueueNextInv == TwoQueueInv /\ [TwoQueueNext]_twoQueueVars => TwoQueueInv'
<1> SUFFICES ASSUME TwoQueueInv, [TwoQueueNext]_twoQueueVars
             PROVE  TwoQueueInv'
  OBVIOUS
<1>1. \A value \in Values : value \in AnyValue
  BY DEF AnyValue
<1>2. ASSUME NEW key \in Keys, NEW value \in Values, AddFrequent(key, value), UNCHANGED recentSize
      PROVE  TwoQueueInv'
  <2>1. /\ WellFormed(frequent') /\ frequent'.size = frequent.size
        /\ frequent'.items = frequent.items /\ Length(frequent') = Length(frequent)
    BY <1>1, <1>2, Added DEF AddFrequent, TwoQueueInv, TwoQueueLists
  <2> QED
    BY <1>2, <2>1, FrequentInv DEF AddFrequent
<1>3. ASSUME NEW key \in Keys, GetFrequent(key), UNCHANGED recentSize
      PROVE  TwoQueueInv'
  <2>1. /\ WellFormed(frequent') /\ frequent'.size = frequent.size
        /\ frequent'.items = frequent.items /\ Length(frequent') = Length(frequent)
    BY <1>3, Gotten DEF GetFrequent, TwoQueueInv, TwoQueueLists
  <2> QED
    BY <1>3, <2>1, FrequentInv DEF GetFrequent
<1>4. ASSUME NEW key \in Keys, GetRecent(key), UNCHANGED recentSize
      PROVE  TwoQueueInv'
  <2>1. Peek(recent, key) \in AnyValue
    BY <1>4, PositionIsThere DEF GetRecent, TwoQueueInv, TwoQueueLists, WellFormed
  <2> QED
    BY <1>4, <2>1, TwoQueuePromoteInv DEF GetRecent
<1>5. CASE UNCHANGED twoQueueVars
  BY <1>5 DEF twoQueueVars, TwoQueueInv, TwoQueueLists, TwoQueueApart, TwoQueueSizesStay,
     TwoQueueSizeIsShared, TwoQueueSpare, Earned, TwoQueueFrequentIsEarned
<1> QED
  BY <1>1, <1>2, <1>3, <1>4, <1>5, TwoQueuePromoteInv, AddGhostInv, TwoQueueAddNewInv,
     TwoQueueRemoveKeyInv, TwoQueuePurgeAllInv
     DEF TwoQueueNext, TwoQueueAdd, TwoQueueGet, AddRecent

-----------------------------------------------------------------------------

\* Inv holds in every reachable state.
THEOREM TwoQueueInvariance == TwoQueueSpec => []TwoQueueInv
BY TwoQueueInitInv, TwoQueueNextInv, PTL DEF TwoQueueSpec

\* A key is resident once, or it is a ghost, or neither (2q.go:113), whatever was
\* evicted to make room for it.
THEOREM TwoQueueKeysApart == TwoQueueSpec => []TwoQueueKeyInOneList
<1>1. TwoQueueInv => TwoQueueKeyInOneList
  BY DEF TwoQueueInv, TwoQueueLists, TwoQueueApart, TwoQueueKeyInOneList, WellFormed, Agrees
<1> QED
  BY <1>1, TwoQueueInvariance, PTL

\* The recent and the frequent keys share the size (2q.go:144); with a
\* recentRatio of 1 they may be one too many, and never more.
THEOREM SizeShared == TwoQueueSpec => []TwoQueueSizeIsShared
<1>1. TwoQueueInv => TwoQueueSizeIsShared
  BY DEF TwoQueueInv
<1> QED
  BY <1>1, TwoQueueInvariance, PTL

\* A key that is resident is frequent if it was used again since it was new, and
\* recent if not (2q.go:22).
THEOREM FrequencyEarned == TwoQueueSpec => []TwoQueueFrequentIsEarned
<1>1. TwoQueueInv => TwoQueueFrequentIsEarned
  BY DEF TwoQueueInv, Earned
<1> QED
  BY <1>1, TwoQueueInvariance, PTL

\* New keys take the place of frequent ones only while the recent keys have not
\* got their share (2q.go:23).
THEOREM BurstsHarmless == TwoQueueSpec => TwoQueueBurstsAreHarmless
<1>1. ASSUME TwoQueueInv, [TwoQueueNext]_twoQueueVars
      PROVE  [TwoQueueBurstIsHarmless]_twoQueueVars
  <2> SUFFICES ASSUME NEW key \in Keys, key \notin recent.items, key \in recent'.items,
                      Length(frequent') < Length(frequent)
               PROVE  Length(recent') <= recentSize \/ recent.items = {}
    BY DEF TwoQueueBurstIsHarmless
  <2>1. ASSUME NEW new \in Keys, NEW value \in Values, TwoQueueAddNew(new, value)
        PROVE  Length(recent') <= recentSize \/ recent.items = {}
    <3> DEFINE r == RecentAfter(FALSE)
    <3>1. WellFormed(r) /\ (Length(r) + 1 <= recentSize \/ recent.items = {})
      BY <1>1, <2>1, SpaceEnsured DEF TwoQueueAddNew
    <3> HIDE DEF r
    <3>2. Length(r) \in Nat
      BY <3>1, ListFacts
    <3>3. Length(recent') \in {Length(r), Length(r) + 1}
      <4>1. value \in AnyValue
        BY DEF AnyValue
      <4>2. recent' = Add(r, new, value)
        BY <2>1 DEF TwoQueueAddNew, r
      <4> QED
        BY <3>1, <4>1, <4>2, Added
    <3> QED
      BY <1>1, <3>1, <3>2, <3>3, TwoQueueSized DEF TwoQueueInv
  <2>2. ASSUME NEW other \in Keys, NEW value, TwoQueuePromote(other, value)
        PROVE  FALSE
    <3>1. recent'.items = recent.items \ {other}
      BY <1>1, <2>2, Removed DEF TwoQueuePromote, TwoQueueInv, TwoQueueLists
    <3> QED
      BY <3>1
  <2>3. ASSUME NEW other \in Keys, NEW value, AddGhost(other, value)
        PROVE  FALSE
    <3>1. recent'.items \subseteq recent.items
      BY <1>1, <2>3, SpaceEnsured DEF AddGhost
    <3> QED
      BY <3>1
  <2>4. ASSUME NEW other \in Keys, TwoQueueRemoveKey(other)
        PROVE  FALSE
    <3>1. recent'.items \subseteq recent.items
      BY <1>1, <2>4, Removed DEF TwoQueueRemoveKey, TwoQueueInv, TwoQueueLists
    <3> QED
      BY <3>1
  <2>5. CASE TwoQueuePurgeAll
    <3>1. recent'.items = {}
      BY <1>1, <2>5, Purged DEF TwoQueuePurgeAll, TwoQueueInv, TwoQueueLists
    <3> QED
      BY <3>1
  <2>6. CASE UNCHANGED recent
    BY <2>6
  <2> QED
    BY <1>1, <2>1, <2>2, <2>3, <2>4, <2>5, <2>6
       DEF TwoQueueNext, TwoQueueAdd, TwoQueueGet, twoQueueVars, AddRecent, GetRecent, AddFrequent, GetFrequent
<1> QED
  BY <1>1, TwoQueueInvariance, PTL DEF TwoQueueSpec, TwoQueueBurstsAreHarmless

-----------------------------------------------------------------------------
(* Refinement: the cache implements the lossy cache.                       *)

TwoQueueAll == ElementsOfTwo(frequent, recent)

\* The content is that of the elements of both lists, and there are as many keys as
\* the two are long.
LEMMA TwoQueueHeldIs ==
  TwoQueueInv => /\ OneEach(TwoQueueAll) /\ TwoQueueHeld = ContentOf(TwoQueueAll)
                 /\ DOMAIN TwoQueueHeld = frequent.items \cup recent.items
                 /\ TwoQueuePromise!Held = Length(frequent) + Length(recent)
                 /\ Length(frequent) \in Nat /\ Length(recent) \in Nat
<1> SUFFICES ASSUME TwoQueueInv
             PROVE  /\ OneEach(TwoQueueAll) /\ TwoQueueHeld = ContentOf(TwoQueueAll)
                    /\ DOMAIN TwoQueueHeld = frequent.items \cup recent.items
                    /\ TwoQueuePromise!Held = Length(frequent) + Length(recent)
                    /\ Length(frequent) \in Nat /\ Length(recent) \in Nat
  OBVIOUS
<1>1. InOneOf(frequent, recent)
  BY DEF TwoQueueInv, TwoQueueLists, WellFormed, TwoQueueApart, InOneOf
<1>2. TwoQueueHeld = ReadInTurn(frequent, recent)
  BY DEF TwoQueueHeld, TwoQueuePeekKey, ReadInTurn
<1>3. OneEach(TwoQueueAll) /\ TwoQueueHeld = ContentOf(TwoQueueAll)
  BY <1>1, <1>2, ContentOfTwo DEF TwoQueueAll
<1>4. /\ DOMAIN TwoQueueHeld = frequent.items \cup recent.items
      /\ Cardinality(frequent.items \cup recent.items) = Length(frequent) + Length(recent)
      /\ Length(frequent) \in Nat /\ Length(recent) \in Nat
  BY <1>1, <1>2, KeysOfTwoCounted
<1>5. TwoQueuePromise!Held = Length(frequent) + Length(recent)
  BY <1>4 DEF TwoQueuePromise!Held, TwoQueuePromise!Cardinality, Cardinality
<1> QED
  BY <1>3, <1>4, <1>5

LEMMA TwoQueueHeldIsNext ==
  TwoQueueInv' => /\ OneEach(TwoQueueAll') /\ TwoQueueHeld' = ContentOf(TwoQueueAll')
                  /\ DOMAIN TwoQueueHeld' = frequent'.items \cup recent'.items
                  /\ TwoQueuePromise!Held' = Length(frequent') + Length(recent')
                  /\ Length(frequent') \in Nat /\ Length(recent') \in Nat
<1>1. (TwoQueueInv => /\ OneEach(TwoQueueAll) /\ TwoQueueHeld = ContentOf(TwoQueueAll)
                      /\ DOMAIN TwoQueueHeld = frequent.items \cup recent.items
                      /\ TwoQueuePromise!Held = Length(frequent) + Length(recent)
                      /\ Length(frequent) \in Nat /\ Length(recent) \in Nat)'
  BY TwoQueueHeldIs, PTL
<1> QED
  BY <1>1

\* What goes only makes room.
TwoQueueMakesRoom == LeavesRoom(frequent, recent, frequent', recent', Size)

LEMMA TwoQueueRoomIsMade ==
  ASSUME TwoQueueInv, TwoQueueInv', TwoQueueMakesRoom
  PROVE  TwoQueuePromise!MakesRoom
BY TwoQueueHeldIs, TwoQueueHeldIsNext DEF TwoQueueMakesRoom, LeavesRoom, TwoQueuePromise!MakesRoom

LEMMA TwoQueueSpareStays ==
  ASSUME UNCHANGED recentSize
  PROVE  UNCHANGED TwoQueueSpare
BY DEF TwoQueueSpare

\* What a method makes of the elements: it gives a key its value, or it loses
\* some.
LEMMA TwoQueueStepPuts ==
  ASSUME TwoQueueInv, TwoQueueInv', NEW key \in Keys, NEW value \in Values,
         NEW e \in TwoQueueAll', e.key = key, e.value = value, TwoQueueAll' \subseteq TwoQueueAll \cup {e},
         TwoQueueMakesRoom, UNCHANGED recentSize
  PROVE  TwoQueuePromise!Add(key, value)
<1>1. Puts(TwoQueueHeld, key, value, TwoQueueHeld')
  BY TwoQueueHeldIs, TwoQueueHeldIsNext, ContentPut
<1> QED
  BY <1>1, TwoQueueRoomIsMade, TwoQueueSpareStays DEF TwoQueuePromise!Add, Puts

LEMMA TwoQueueStepLoses ==
  ASSUME TwoQueueInv, TwoQueueInv', TwoQueueAll' \subseteq TwoQueueAll
  PROVE  /\ frequent'.items \cup recent'.items \subseteq frequent.items \cup recent.items
         /\ TwoQueuePromise!Keeps(frequent'.items \cup recent'.items)
<1>1. OneEach(TwoQueueAll) /\ TwoQueueHeld = ContentOf(TwoQueueAll)
      /\ TwoQueueHeld' = ContentOf(TwoQueueAll')
  BY TwoQueueHeldIs, TwoQueueHeldIsNext
<1>2. /\ DOMAIN TwoQueueHeld' \subseteq DOMAIN TwoQueueHeld
      /\ TwoQueueHeld' = [k \in DOMAIN TwoQueueHeld' |-> TwoQueueHeld[k]]
  BY <1>1, ContentLost
<1> QED
  BY <1>2, TwoQueueHeldIs, TwoQueueHeldIsNext DEF TwoQueuePromise!Keeps, TwoQueuePromise!Restrict

\* A Get loses none but to make room, and not the key it returns.
LEMMA TwoQueueStepGets ==
  ASSUME TwoQueueInv, TwoQueueInv', NEW key \in frequent'.items \cup recent'.items,
         TwoQueueAll' \subseteq TwoQueueAll, TwoQueueMakesRoom, UNCHANGED recentSize
  PROVE  TwoQueuePromise!Get(key)
<1> DEFINE kept == frequent'.items \cup recent'.items
<1>1. /\ kept \subseteq frequent.items \cup recent.items /\ TwoQueuePromise!Keeps(kept)
      /\ TwoQueuePromise!MakesRoom /\ UNCHANGED TwoQueueSpare
  BY TwoQueueStepLoses, TwoQueueRoomIsMade, TwoQueueSpareStays
<1>2. key \in kept
  OBVIOUS
<1> HIDE DEF kept
<1>3. kept \in SUBSET DOMAIN TwoQueueHeld /\ {key} \cap DOMAIN TwoQueueHeld \subseteq kept
  BY <1>1, <1>2, TwoQueueHeldIs
<1> QED
  BY <1>1, <1>3 DEF TwoQueuePromise!Get

LEMMA TwoQueueListsAgree ==
  ASSUME TwoQueueInv
  PROVE  /\ WellFormed(frequent) /\ Agrees(frequent) /\ frequent.size = Size
         /\ WellFormed(recent) /\ Agrees(recent) /\ recent.size = Size
         /\ Size \in Nat /\ Size > 0
         /\ frequent.items \cap recent.items = {}
BY TwoQueueSized DEF TwoQueueInv, TwoQueueLists, TwoQueueSizesStay, TwoQueueApart, WellFormed

LEMMA TwoQueueInitRefines == TwoQueueInit => TwoQueuePromise!Init
<1> SUFFICES ASSUME TwoQueueInit
             PROVE  TwoQueuePromise!Init
  OBVIOUS
<1>1. Size \in Nat /\ TwoQueueSpare \in Nat
  BY TwoQueueSized DEF TwoQueueInit
<1>2. frequent.items = {} /\ recent.items = {}
  BY <1>1, New DEF TwoQueueInit
<1>3. TwoQueueHeld = [k \in {} |-> CHOOSE v \in Values : TRUE]
  BY <1>2 DEF TwoQueueHeld
<1> QED
  BY <1>1, <1>3 DEF TwoQueuePromise!Init

LEMMA TwoQueuePurgeKept ==
  ASSUME TwoQueueInv, TwoQueueInv', TwoQueuePurgeAll, UNCHANGED recentSize
  PROVE  TwoQueuePromise!Purge
<1>1. /\ Elements(frequent') = {} /\ Elements(recent') = {}
      /\ frequent'.items = {} /\ recent'.items = {}
  BY TwoQueueListsAgree, NewElements, Purged DEF TwoQueuePurgeAll, Purge
<1>2. TwoQueuePromise!Keeps(frequent'.items \cup recent'.items)
  BY <1>1, TwoQueueStepLoses DEF TwoQueueAll, ElementsOfTwo
<1>3. frequent'.items \cup recent'.items = {}
  BY <1>1
<1> QED
  BY <1>2, <1>3, TwoQueueSpareStays DEF TwoQueuePromise!Purge

LEMMA TwoQueueRemoveKept ==
  ASSUME TwoQueueInv, TwoQueueInv', NEW key \in Keys, TwoQueueRemoveKey(key), UNCHANGED recentSize
  PROVE  TwoQueuePromise!Remove(key)
<1>1. Elements(frequent') \subseteq Elements(frequent)
      /\ Elements(recent') \subseteq Elements(recent)
  BY TwoQueueListsAgree, KeyRemovedElements DEF TwoQueueRemoveKey
<1>2. TwoQueuePromise!Keeps(frequent'.items \cup recent'.items)
  BY <1>1, TwoQueueStepLoses DEF TwoQueueAll, ElementsOfTwo
<1>3. frequent'.items \cup recent'.items = (frequent.items \cup recent.items) \ {key}
  <2>1. /\ Remove(frequent, key).items = frequent.items \ {key}
        /\ Remove(recent, key).items = recent.items \ {key}
    BY TwoQueueListsAgree, Removed
  <2> QED
    BY <2>1, TwoQueueListsAgree DEF TwoQueueRemoveKey, Contains
<1> QED
  BY <1>2, <1>3, TwoQueueHeldIs, TwoQueueSpareStays DEF TwoQueuePromise!Remove

\* Get and Add of a key of recent.
LEMMA TwoQueuePromotionKept ==
  ASSUME TwoQueueInv, TwoQueueInv', NEW key \in Keys, UNCHANGED recentSize
  PROVE  /\ GetRecent(key) => TwoQueuePromise!Get(key)
         /\ \A value \in Values : AddRecent(key, value) => TwoQueuePromise!Add(key, value)
<1>1. ASSUME NEW value \in AnyValue, TwoQueuePromote(key, value)
      PROVE  LET e == [key |-> key, value |-> value]
             IN  /\ e \in Elements(frequent') /\ TwoQueueAll' \subseteq TwoQueueAll \cup {e}
                 /\ TwoQueueMakesRoom
  <2>1. Elements(recent') \subseteq Elements(recent)
    BY <1>1, TwoQueueListsAgree, KeyRemovedElements DEF TwoQueuePromote
  <2> DEFINE e == [key |-> key, value |-> value]
  <2>2. Elements(frequent') \subseteq Elements(frequent) \cup {e} /\ e \in Elements(frequent')
    BY <1>1, TwoQueueListsAgree, AddedElements DEF TwoQueuePromote
  <2> HIDE DEF e
  <2>3. TwoQueueAll' \subseteq TwoQueueAll \cup {e}
    BY <2>1, <2>2 DEF TwoQueueAll, ElementsOfTwo
  <2>4. LeavesRoom(recent, frequent, recent', frequent', Size)
    BY <1>1, TwoQueueListsAgree, RoomToPromote DEF TwoQueuePromote
  <2>5. TwoQueueMakesRoom
    BY <2>4, TwoQueueHeldIsNext DEF LeavesRoom, TwoQueueMakesRoom
  <2> QED
    BY <2>2, <2>3, <2>5 DEF e
<1>2. ASSUME GetRecent(key)
      PROVE  TwoQueuePromise!Get(key)
  <2> DEFINE e == [key |-> key, value |-> Peek(recent, key)]
  <2>1. Peek(recent, key) \in AnyValue /\ e \in Elements(recent)
    BY <1>2, TwoQueueListsAgree, PositionIsThere, ElementFacts DEF GetRecent, Contains
  <2>2. e \in Elements(frequent') /\ TwoQueueAll' \subseteq TwoQueueAll \cup {e} /\ TwoQueueMakesRoom
        /\ e.key = key
    BY <1>1, <1>2, <2>1 DEF GetRecent
  <2> HIDE DEF e
  <2>3. TwoQueueAll' \subseteq TwoQueueAll
    BY <2>1, <2>2 DEF TwoQueueAll, ElementsOfTwo
  <2>4. key \in frequent'.items
    <3>1. Agrees(frequent')
      BY DEF TwoQueueInv, TwoQueueLists, WellFormed
    <3> QED
      BY <2>2, <3>1, ElementFacts
  <2> QED
    BY <2>2, <2>3, <2>4, TwoQueueStepGets
<1>3. ASSUME NEW value \in Values, AddRecent(key, value)
      PROVE  TwoQueuePromise!Add(key, value)
  <2> DEFINE e == [key |-> key, value |-> value]
  <2>1. value \in AnyValue
    BY DEF AnyValue
  <2>2. e \in Elements(frequent') /\ TwoQueueAll' \subseteq TwoQueueAll \cup {e} /\ TwoQueueMakesRoom
        /\ e.key = key /\ e.value = value
    BY <1>1, <1>3, <2>1 DEF AddRecent
  <2> HIDE DEF e
  <2>3. e \in TwoQueueAll'
    BY <2>2 DEF TwoQueueAll, ElementsOfTwo
  <2> QED
    BY <2>2, <2>3, TwoQueueStepPuts
<1> QED
  BY <1>2, <1>3

\* Get and Add of a key of frequent.
LEMMA TwoQueueFrequentKept ==
  ASSUME TwoQueueInv, TwoQueueInv', NEW key \in Keys, UNCHANGED recentSize
  PROVE  /\ GetFrequent(key) => TwoQueuePromise!Get(key)
         /\ \A value \in Values : AddFrequent(key, value) => TwoQueuePromise!Add(key, value)
<1>1. ASSUME GetFrequent(key)
      PROVE  TwoQueuePromise!Get(key)
  <2>1. /\ Elements(frequent') \subseteq Elements(frequent) /\ recent' = recent
        /\ frequent'.items = frequent.items /\ key \in frequent'.items
    BY <1>1, TwoQueueListsAgree, GottenElements, Gotten DEF GetFrequent, Contains
  <2>2. TwoQueueMakesRoom /\ TwoQueueAll' \subseteq TwoQueueAll
    BY <2>1 DEF TwoQueueMakesRoom, LeavesRoom, TwoQueueAll, ElementsOfTwo
  <2> QED
    BY <2>1, <2>2, TwoQueueStepGets
<1>2. ASSUME NEW value \in Values, AddFrequent(key, value)
      PROVE  TwoQueuePromise!Add(key, value)
  <2> DEFINE e == [key |-> key, value |-> value]
  <2>1. value \in AnyValue
    BY DEF AnyValue
  <2>2. /\ Elements(frequent') \subseteq Elements(frequent) \cup {e} /\ e \in Elements(frequent')
        /\ recent' = recent /\ e.key = key /\ e.value = value
    BY <1>2, <2>1, TwoQueueListsAgree, AddedElements DEF AddFrequent
  <2>3. frequent'.items = frequent.items
    BY <1>2, <2>1, TwoQueueListsAgree, Added DEF AddFrequent
  <2> HIDE DEF e
  <2>4. e \in TwoQueueAll' /\ TwoQueueAll' \subseteq TwoQueueAll \cup {e}
    BY <2>2 DEF TwoQueueAll, ElementsOfTwo
  <2>5. TwoQueueMakesRoom
    BY <2>2, <2>3 DEF TwoQueueMakesRoom, LeavesRoom
  <2> QED
    BY <2>2, <2>4, <2>5, TwoQueueStepPuts
<1> QED
  BY <1>1, <1>2

\* Add of a key that has a ghost.
LEMMA AddGhostKept ==
  ASSUME TwoQueueInv, TwoQueueInv', NEW key \in Keys, NEW value \in Values, AddGhost(key, value),
         UNCHANGED recentSize
  PROVE  TwoQueuePromise!Add(key, value)
<1> DEFINE e    == [key |-> key, value |-> value]
           rest == RecentAfter(TRUE)
           mid  == FrequentAfter(TRUE)
<1>1. value \in AnyValue
  BY DEF AnyValue
<1>2. /\ WellFormed(rest) /\ WellFormed(mid) /\ mid.size = Size
      /\ (rest = recent /\ mid = frequent) \/ Length(rest) + Length(mid) + 1 >= Size
      /\ mid.items \subseteq frequent.items
  BY SpaceEnsured
<1>3. Elements(mid) \subseteq Elements(frequent) /\ Elements(recent') \subseteq Elements(recent)
  BY TwoQueueListsAgree, OldestElements DEF AddGhost, RecentAfter, FrequentAfter
<1>4. frequent' = Add(mid, key, value) /\ recent' = rest /\ key \notin frequent.items
  BY DEF AddGhost, Contains
<1> HIDE DEF rest, mid
<1>5. Elements(frequent') \subseteq Elements(mid) \cup {e} /\ e \in Elements(frequent')
      /\ e.key = key /\ e.value = value
  BY <1>1, <1>2, <1>4, TwoQueueListsAgree, AddedElements
<1> HIDE DEF e
<1>6. e \in TwoQueueAll' /\ TwoQueueAll' \subseteq TwoQueueAll \cup {e}
  BY <1>3, <1>5 DEF TwoQueueAll, ElementsOfTwo
<1>7. TwoQueueMakesRoom
  <2>1. ~Contains(mid, key)
    BY <1>2, <1>4 DEF Contains
  <2>2. LeavesRoom(recent, frequent, recent', frequent', Size)
    BY <1>1, <1>2, <1>4, <2>1, TwoQueueListsAgree, RoomForOne
  <2> QED
    BY <2>2, TwoQueueHeldIsNext DEF LeavesRoom, TwoQueueMakesRoom
<1> QED
  BY <1>5, <1>6, <1>7, TwoQueueStepPuts

\* Add of any other key.
LEMMA TwoQueueAddNewKept ==
  ASSUME TwoQueueInv, TwoQueueInv', NEW key \in Keys, NEW value \in Values,
         TwoQueueAddNew(key, value), UNCHANGED recentSize
  PROVE  TwoQueuePromise!Add(key, value)
<1> DEFINE e    == [key |-> key, value |-> value]
           rest == FrequentAfter(FALSE)
           mid  == RecentAfter(FALSE)
<1>1. value \in AnyValue
  BY DEF AnyValue
<1>2. /\ WellFormed(rest) /\ WellFormed(mid) /\ mid.size = Size
      /\ (rest = frequent /\ mid = recent) \/ Length(mid) + Length(rest) + 1 >= Size
      /\ mid.items \subseteq recent.items
  BY SpaceEnsured
<1>3. Elements(mid) \subseteq Elements(recent) /\ Elements(frequent') \subseteq Elements(frequent)
  BY TwoQueueListsAgree, OldestElements DEF TwoQueueAddNew, RecentAfter, FrequentAfter
<1>4. recent' = Add(mid, key, value) /\ frequent' = rest /\ key \notin recent.items
  BY DEF TwoQueueAddNew, Contains
<1> HIDE DEF rest, mid
<1>5. Elements(recent') \subseteq Elements(mid) \cup {e} /\ e \in Elements(recent')
      /\ e.key = key /\ e.value = value
  BY <1>1, <1>2, <1>4, TwoQueueListsAgree, AddedElements
<1> HIDE DEF e
<1>6. e \in TwoQueueAll' /\ TwoQueueAll' \subseteq TwoQueueAll \cup {e}
  BY <1>3, <1>5 DEF TwoQueueAll, ElementsOfTwo
<1>7. TwoQueueMakesRoom
  <2>1. /\ ~Contains(mid, key)
        /\ (rest = frequent /\ mid = recent) \/ Length(rest) + Length(mid) + 1 >= Size
    BY <1>2, <1>4, ListFacts DEF Contains
  <2> QED
    BY <1>1, <1>2, <1>4, <2>1, TwoQueueListsAgree, RoomForOne DEF TwoQueueMakesRoom
<1> QED
  BY <1>5, <1>6, <1>7, TwoQueueStepPuts

LEMMA TwoQueueStepRefines ==
  TwoQueueInv /\ TwoQueueInv' /\ [TwoQueueNext]_twoQueueVars
    => [TwoQueuePromise!Next]_(TwoQueuePromise!cacheVars) /\ [TwoQueueCallIsKept]_twoQueueVars
<1> SUFFICES ASSUME TwoQueueInv, TwoQueueInv', [TwoQueueNext]_twoQueueVars
             PROVE  [TwoQueuePromise!Next]_(TwoQueuePromise!cacheVars)
                    /\ [TwoQueueCallIsKept]_twoQueueVars
  OBVIOUS
<1>1. CASE TwoQueueNext
  <2>1. UNCHANGED recentSize
    BY <1>1 DEF TwoQueueNext
  <2>2. TwoQueueCallIsKept
    BY <2>1, TwoQueuePromotionKept, TwoQueueFrequentKept, AddGhostKept, TwoQueueAddNewKept,
       TwoQueueRemoveKept, TwoQueuePurgeKept
       DEF TwoQueueCallIsKept, TwoQueueAdd, TwoQueueGet
  <2>3. TwoQueuePromise!Held' <= Size + TwoQueueSpare'
    BY TwoQueueHeldIsNext DEF TwoQueueInv, TwoQueueSizeIsShared
  <2>4. TwoQueuePromise!Next
    BY <1>1, <2>2, <2>3 DEF TwoQueueNext, TwoQueueCallIsKept, TwoQueuePromise!Next
  <2> QED
    BY <2>2, <2>4
<1>2. CASE UNCHANGED twoQueueVars
  <2>1. UNCHANGED TwoQueuePromise!cacheVars
    BY <1>2 DEF twoQueueVars, TwoQueuePromise!cacheVars, TwoQueueHeld, TwoQueuePeekKey, TwoQueueSpare
  <2> QED
    BY <1>2, <2>1
<1> QED
  BY <1>1, <1>2

\* A 2Q is a lossy cache of its size (2q.go:87), with one to spare when recent may
\* have all of it: a key has the value it was last given or is not there, also when
\* it was promoted; Get and Add lose none but to make room.
THEOREM TwoQueuePromiseKept == TwoQueueSpec => TwoQueueKeepsPromise
<1>1. TwoQueueSpec => []TwoQueueInv
  BY TwoQueueInvariance
<1> QED
  BY <1>1, TwoQueueInitRefines, TwoQueueStepRefines, PTL
     DEF TwoQueueSpec, TwoQueuePromise!Spec, TwoQueueKeepsPromise

(***************************************************************************)
(* ARC                                                                     *)
(***************************************************************************)

ARCLists == WellFormed(t1) /\ WellFormed(t2) /\ WellFormed(b1) /\ WellFormed(b2)

ARCApart ==
  /\ t1.items \cap t2.items = {} /\ b1.items \cap b2.items = {}
  /\ (t1.items \cup t2.items) \cap (b1.items \cup b2.items) = {}

\* Neither resident list is ever larger than the cache.
ARCSizesStay == t1.size = Size /\ t2.size = Size

ARCInv == ARCLists /\ ARCApart /\ ARCSizesStay /\ ARCTargetInRange /\ ARCHoldsOneTooMany

-----------------------------------------------------------------------------

LEMMA ARCSized == Size \in Nat \ {0}
BY SizesAssumption

\* The key of what was evicted, if anything was, becomes a ghost.
LEMMA GhostAdded ==
  ASSUME NEW ghosts, WellFormed(ghosts), NEW list, WellFormed(list)
  PROVE  LET after == removeOldest(list)
         IN  /\ WellFormed(after) /\ after.size = list.size /\ after.items \subseteq list.items
             /\ Length(after) = IF Length(list) > 0 THEN Length(list) - 1 ELSE Length(list)
             /\ WellFormed(Ghosted(ghosts, list))
             /\ Ghosted(ghosts, list).items \subseteq ghosts.items \cup (list.items \ after.items)
<1>1. Length(list) \in Nat /\ Length(list) <= list.size /\ Agrees(list) /\ list.size \in Nat
  BY ListFacts
<1>2. CASE Length(list) > 0
  <2> DEFINE old   == Oldest(list).key
             after == removeOldest(list)
             more  == Add(ghosts, old, Nil)
  <2>1. /\ Agrees(after) /\ after.size = list.size /\ after.items = list.items \ {old}
        /\ old \in list.items /\ old \in Keys /\ Length(after) = Length(list) - 1
    BY <1>1, <1>2, OldestRemoved
  <2>2. list.evictList # <<>>
    BY <1>1, <1>2, Fields DEF Agrees
  <2>3. Ghosted(ghosts, list) = more
    BY <2>2 DEF Ghosted
  <2> HIDE DEF old, after
  <2>4. WellFormed(more) /\ more.items \subseteq ghosts.items \cup {old}
    <3>1. Nil \in AnyValue
      BY DEF AnyValue
    <3> QED
      BY <2>1, <3>1, Added
  <2> HIDE DEF more
  <2>5. WellFormed(after)
    BY <1>1, <2>1 DEF WellFormed, Bounded
  <2> QED
    BY <1>2, <2>1, <2>3, <2>4, <2>5 DEF after
<1>3. CASE ~(Length(list) > 0)
  <2>1. removeOldest(list) = list /\ list.evictList = <<>>
    BY <1>1, <1>3, NothingRemoved
  <2> QED
    BY <1>3, <2>1 DEF Ghosted
<1> QED
  BY <1>2, <1>3

\* replace evicts a key, which becomes a ghost, or none, and leaves room for
\* the key that is to be added, but for one.
LEMMA Replaced ==
  ASSUME ARCInv, NEW target, NEW inB2
  PROVE  LET u1 == T1After(target, inB2)
             u2 == T2After(target, inB2)
             g1 == B1After(target, inB2)
             g2 == B2After(target, inB2)
         IN  /\ WellFormed(u1) /\ WellFormed(u2) /\ WellFormed(g1) /\ WellFormed(g2)
             /\ u1.size = Size /\ u2.size = Size
             /\ u1.items \subseteq t1.items /\ u2.items \subseteq t2.items
             /\ g1.items \subseteq b1.items \cup (t1.items \ u1.items)
             /\ g2.items \subseteq b2.items \cup (t2.items \ u2.items)
             /\ Length(u1) + Length(u2) <= Size
             /\ (u1 = t1 /\ u2 = t2) \/ Length(u1) + Length(u2) + 1 >= Size
<1>1. /\ Length(t1) \in Nat /\ Length(t1) <= Size /\ Length(t2) \in Nat /\ Length(t2) <= Size
      /\ Length(t1) + Length(t2) <= Size + 1
  BY ListFacts DEF ARCInv, ARCLists, ARCSizesStay, ARCHoldsOneTooMany
<1>2. CASE ~IsFull
  <2>1. Length(t1) + Length(t2) <= Size
    BY <1>1, <1>2, ARCSized DEF IsFull
  <2> QED
    BY <1>2, <2>1 DEF T1After, T2After, B1After, B2After, ARCInv, ARCLists, ARCSizesStay
<1>3. CASE IsFull /\ ReplacesT1(target, inB2)
  <2> DEFINE after == removeOldest(t1)
             more  == Ghosted(b1, t1)
  <2>1. Length(t1) > 0
    BY <1>3 DEF ReplacesT1
  <2>2. /\ WellFormed(after) /\ after.size = t1.size /\ after.items \subseteq t1.items
        /\ Length(after) = Length(t1) - 1
        /\ WellFormed(more) /\ more.items \subseteq b1.items \cup (t1.items \ after.items)
    BY <2>1, GhostAdded DEF ARCInv, ARCLists
  <2>3. /\ T1After(target, inB2) = after /\ B1After(target, inB2) = more
        /\ T2After(target, inB2) = t2 /\ B2After(target, inB2) = b2
    BY <1>3 DEF T1After, T2After, B1After, B2After
  <2> HIDE DEF after, more
  <2>4. Length(after) + Length(t2) <= Size /\ Length(after) + Length(t2) + 1 >= Size
    BY <1>1, <1>3, <2>1, <2>2, ARCSized DEF IsFull
  <2> QED
    BY <2>2, <2>3, <2>4 DEF ARCInv, ARCLists, ARCSizesStay
<1>4. CASE IsFull /\ ~ReplacesT1(target, inB2)
  <2> DEFINE after == removeOldest(t2)
             more  == Ghosted(b2, t2)
  <2>1. /\ WellFormed(after) /\ after.size = t2.size /\ after.items \subseteq t2.items
        /\ Length(after) = IF Length(t2) > 0 THEN Length(t2) - 1 ELSE Length(t2)
        /\ WellFormed(more) /\ more.items \subseteq b2.items \cup (t2.items \ after.items)
    BY GhostAdded DEF ARCInv, ARCLists
  <2>2. /\ T2After(target, inB2) = after /\ B2After(target, inB2) = more
        /\ T1After(target, inB2) = t1 /\ B1After(target, inB2) = b1
    BY <1>4 DEF T1After, T2After, B1After, B2After
  <2>3. ~(Length(t2) > 0) => after = t2
    BY NothingRemoved DEF ARCInv, ARCLists, WellFormed
  <2> HIDE DEF after, more
  <2>4. /\ Length(t1) + Length(after) <= Size
        /\ Length(t2) > 0 => Length(t1) + Length(after) + 1 >= Size
    BY <1>1, <1>4, <2>1, ARCSized DEF IsFull
  <2> QED
    BY <2>1, <2>2, <2>3, <2>4 DEF ARCInv, ARCLists, ARCSizesStay
<1> QED
  BY <1>2, <1>3, <1>4

LEMMA Moves ==
  ASSUME ARCInv, NEW hit, WellFormed(hit), NEW key, Contains(hit, key), NEW other, WellFormed(other)
  PROVE  Raised(Delta(hit, other)) \in 0 .. Size /\ Lowered(Delta(hit, other)) \in 0 .. Size
<1> DEFINE h == Length(hit)
           o == Length(other)
           delta == Delta(hit, other)
<1>1. h \in Nat /\ o \in Nat /\ h # 0
  BY ListFacts DEF Contains
<1>2. delta \in Nat
  <2> HIDE DEF h, o
  <2>1. o \div h \in Nat
    BY <1>1
  <2> QED
    BY <2>1 DEF Delta, h, o
<1> HIDE DEF delta
<1>3. p \in Nat /\ p <= Size /\ Size \in Nat
  BY ARCSized DEF ARCInv, ARCTargetInRange
<1> QED
  BY <1>2, <1>3 DEF Raised, Lowered, delta

LEMMA Trimmed ==
  ASSUME NEW ghosts, WellFormed(ghosts), NEW bound
  PROVE  WellFormed(Trim(ghosts, bound)) /\ Trim(ghosts, bound).items \subseteq ghosts.items
BY GhostAdded DEF Trim

-----------------------------------------------------------------------------
(* The methods.                                                            *)

LEMMA ARCInitInv == ARCInit => ARCInv
<1> SUFFICES ASSUME ARCInit
             PROVE  ARCInv
  OBVIOUS
<1>1. /\ ARCLists /\ ARCSizesStay /\ t1.items = {} /\ t2.items = {} /\ b1.items = {}
      /\ b2.items = {}
      /\ Length(t1) = 0 /\ Length(t2) = 0
  BY ARCSized, New DEF ARCInit, ARCLists, ARCSizesStay
<1>2. ARCTargetInRange /\ ARCHoldsOneTooMany
  BY <1>1, ARCSized DEF ARCInit, ARCTargetInRange, ARCHoldsOneTooMany
<1> QED
  BY <1>1, <1>2 DEF ARCInv, ARCApart

\* The lengths of the resident lists.
LEMMA Lengths == ARCInv => Length(t1) \in Nat /\ Length(t2) \in Nat
BY ListFacts DEF ARCInv, ARCLists

LEMMA ARCPromoteInv ==
  ASSUME ARCInv, NEW key \in Keys, NEW value \in AnyValue, ARCPromote(key, value)
  PROVE  ARCInv'
<1>1. /\ WellFormed(t1') /\ t1'.size = t1.size /\ t1'.items = t1.items \ {key}
      /\ Length(t1') = Length(t1) - 1
  BY Removed DEF ARCPromote, ARCInv, ARCLists
<1>2. /\ WellFormed(t2') /\ t2'.size = t2.size /\ t2'.items \subseteq t2.items \cup {key}
      /\ Length(t2') \in {Length(t2), Length(t2) + 1}
  BY Added DEF ARCPromote, ARCInv, ARCLists
<1>3. ARCLists' /\ ARCApart' /\ ARCSizesStay'
  BY <1>1, <1>2 DEF ARCPromote, ARCInv, ARCLists, ARCApart, ARCSizesStay, Contains
<1>4. ARCTargetInRange' /\ ARCHoldsOneTooMany'
  BY <1>1, <1>2, Lengths, ARCSized DEF ARCPromote, ARCInv, ARCTargetInRange, ARCHoldsOneTooMany
<1> QED
  BY <1>3, <1>4 DEF ARCInv

\* Get and Add of a key of t2.
LEMMA T2Inv ==
  ASSUME ARCInv, UNCHANGED <<t1, b1, b2, p>>, WellFormed(t2'), t2'.size = t2.size,
         t2'.items = t2.items, Length(t2') = Length(t2)
  PROVE  ARCInv'
BY DEF ARCInv, ARCLists, ARCApart, ARCSizesStay, ARCTargetInRange, ARCHoldsOneTooMany

LEMMA AddB1Inv ==
  ASSUME ARCInv, NEW key \in Keys, NEW value \in AnyValue, AddB1(key, value)
  PROVE  ARCInv'
<1> DEFINE u1 == T1After(p', FALSE)
           u2 == T2After(p', FALSE)
           g1 == B1After(p', FALSE)
           g2 == B2After(p', FALSE)
<1>1. /\ WellFormed(u1) /\ WellFormed(u2) /\ WellFormed(g1) /\ WellFormed(g2)
      /\ u1.size = Size /\ u2.size = Size
      /\ u1.items \subseteq t1.items /\ u2.items \subseteq t2.items
      /\ g1.items \subseteq b1.items \cup (t1.items \ u1.items)
      /\ g2.items \subseteq b2.items \cup (t2.items \ u2.items)
      /\ Length(u1) + Length(u2) <= Size
  BY Replaced
<1>2. /\ t1' = u1 /\ t2' = Add(u2, key, value) /\ b1' = Remove(g1, key) /\ b2' = g2
      /\ key \notin t1.items /\ key \notin t2.items /\ key \in b1.items
  BY DEF AddB1, Resident, Contains
<1>3. ARCTargetInRange'
  BY Moves DEF AddB1, ARCInv, ARCLists, ARCTargetInRange
<1> HIDE DEF u1, u2, g1, g2
<1>4. /\ WellFormed(t2') /\ t2'.size = u2.size /\ t2'.items \subseteq u2.items \cup {key}
      /\ Length(t2') \in {Length(u2), Length(u2) + 1}
  BY <1>1, <1>2, Added
<1>5. WellFormed(b1') /\ b1'.items = g1.items \ {key}
  BY <1>1, <1>2, Removed
<1>6. ARCLists' /\ ARCSizesStay'
  BY <1>1, <1>2, <1>4, <1>5 DEF ARCLists, ARCSizesStay
<1>7. ARCApart'
  BY <1>1, <1>2, <1>4, <1>5 DEF ARCInv, ARCApart
<1>8. ARCHoldsOneTooMany'
  <2>1. Length(u1) \in Nat /\ Length(u2) \in Nat
    BY <1>1, ListFacts
  <2> QED
    BY <1>1, <1>2, <1>4, <2>1, ARCSized DEF ARCHoldsOneTooMany
<1> QED
  BY <1>3, <1>6, <1>7, <1>8 DEF ARCInv

LEMMA AddB2Inv ==
  ASSUME ARCInv, NEW key \in Keys, NEW value \in AnyValue, AddB2(key, value)
  PROVE  ARCInv'
<1> DEFINE u1 == T1After(p', TRUE)
           u2 == T2After(p', TRUE)
           g1 == B1After(p', TRUE)
           g2 == B2After(p', TRUE)
<1>1. /\ WellFormed(u1) /\ WellFormed(u2) /\ WellFormed(g1) /\ WellFormed(g2)
      /\ u1.size = Size /\ u2.size = Size
      /\ u1.items \subseteq t1.items /\ u2.items \subseteq t2.items
      /\ g1.items \subseteq b1.items \cup (t1.items \ u1.items)
      /\ g2.items \subseteq b2.items \cup (t2.items \ u2.items)
      /\ Length(u1) + Length(u2) <= Size
  BY Replaced
<1>2. /\ t1' = u1 /\ t2' = Add(u2, key, value) /\ b1' = g1 /\ b2' = Remove(g2, key)
      /\ key \notin t1.items /\ key \notin t2.items /\ key \in b2.items
  BY DEF AddB2, Resident, Contains
<1>3. ARCTargetInRange'
  BY Moves DEF AddB2, ARCInv, ARCLists, ARCTargetInRange
<1> HIDE DEF u1, u2, g1, g2
<1>4. /\ WellFormed(t2') /\ t2'.size = u2.size /\ t2'.items \subseteq u2.items \cup {key}
      /\ Length(t2') \in {Length(u2), Length(u2) + 1}
  BY <1>1, <1>2, Added
<1>5. WellFormed(b2') /\ b2'.items = g2.items \ {key}
  BY <1>1, <1>2, Removed
<1>6. ARCLists' /\ ARCSizesStay'
  BY <1>1, <1>2, <1>4, <1>5 DEF ARCLists, ARCSizesStay
<1>7. ARCApart'
  BY <1>1, <1>2, <1>4, <1>5 DEF ARCInv, ARCApart
<1>8. ARCHoldsOneTooMany'
  <2>1. Length(u1) \in Nat /\ Length(u2) \in Nat
    BY <1>1, ListFacts
  <2> QED
    BY <1>1, <1>2, <1>4, <2>1, ARCSized DEF ARCHoldsOneTooMany
<1> QED
  BY <1>3, <1>6, <1>7, <1>8 DEF ARCInv

LEMMA ARCAddNewInv ==
  ASSUME ARCInv, NEW key \in Keys, NEW value \in AnyValue, ARCAddNew(key, value)
  PROVE  ARCInv'
<1> DEFINE u1 == T1After(p, FALSE)
           u2 == T2After(p, FALSE)
           g1 == B1After(p, FALSE)
           g2 == B2After(p, FALSE)
<1>1. /\ WellFormed(u1) /\ WellFormed(u2) /\ WellFormed(g1) /\ WellFormed(g2)
      /\ u1.size = Size /\ u2.size = Size
      /\ u1.items \subseteq t1.items /\ u2.items \subseteq t2.items
      /\ g1.items \subseteq b1.items \cup (t1.items \ u1.items)
      /\ g2.items \subseteq b2.items \cup (t2.items \ u2.items)
      /\ Length(u1) + Length(u2) <= Size
  BY Replaced
<1>2. /\ t1' = Add(u1, key, value) /\ t2' = u2
      /\ b1' = Trim(g1, Size - p) /\ b2' = Trim(g2, p) /\ p' = p
      /\ key \notin t1.items /\ key \notin t2.items /\ key \notin b1.items /\ key \notin b2.items
  BY DEF ARCAddNew, Resident, Contains
<1> HIDE DEF u1, u2, g1, g2
<1>3. /\ WellFormed(t1') /\ t1'.size = u1.size /\ t1'.items \subseteq u1.items \cup {key}
      /\ Length(t1') \in {Length(u1), Length(u1) + 1}
  BY <1>1, <1>2, Added
<1>4. /\ WellFormed(b1') /\ b1'.items \subseteq g1.items
      /\ WellFormed(b2') /\ b2'.items \subseteq g2.items
  BY <1>1, <1>2, Trimmed
<1>5. ARCLists' /\ ARCSizesStay'
  BY <1>1, <1>2, <1>3, <1>4 DEF ARCLists, ARCSizesStay
<1>6. ARCApart'
  BY <1>1, <1>2, <1>3, <1>4 DEF ARCInv, ARCApart
<1>7. ARCTargetInRange'
  BY <1>2 DEF ARCInv, ARCTargetInRange
<1>8. ARCHoldsOneTooMany'
  <2>1. Length(u1) \in Nat /\ Length(u2) \in Nat
    BY <1>1, ListFacts
  <2> QED
    BY <1>1, <1>2, <1>3, <2>1, ARCSized DEF ARCHoldsOneTooMany
<1> QED
  BY <1>5, <1>6, <1>7, <1>8 DEF ARCInv

LEMMA ARCRemoveKeyInv ==
  ASSUME ARCInv, NEW key \in Keys, ARCRemoveKey(key)
  PROVE  ARCInv'
<1>1. \A c \in {t1, t2, b1, b2} :
        /\ WellFormed(Remove(c, key)) /\ Remove(c, key).size = c.size
        /\ Remove(c, key).items \subseteq c.items /\ Length(Remove(c, key)) <= Length(c)
  <2> SUFFICES ASSUME NEW c, WellFormed(c)
               PROVE  /\ WellFormed(Remove(c, key)) /\ Remove(c, key).size = c.size
                      /\ Remove(c, key).items \subseteq c.items
                      /\ Length(Remove(c, key)) <= Length(c)
    BY DEF ARCInv, ARCLists
  <2>1. /\ WellFormed(Remove(c, key)) /\ Remove(c, key).size = c.size
        /\ Remove(c, key).items = c.items \ {key}
        /\ Length(Remove(c, key)) = IF Contains(c, key) THEN Length(c) - 1 ELSE Length(c)
    BY Removed
  <2>2. Length(c) \in Nat
    BY ListFacts
  <2> QED
    BY <2>1, <2>2
<1>2. /\ ARCLists' /\ ARCSizesStay' /\ p' = p
      /\ t1'.items \subseteq t1.items /\ t2'.items \subseteq t2.items
      /\ b1'.items \subseteq b1.items /\ b2'.items \subseteq b2.items
  BY <1>1 DEF ARCRemoveKey, ARCInv, ARCLists, ARCSizesStay
<1>3. Length(t1') \in Nat /\ Length(t2') \in Nat /\ Length(t1') <= Length(t1)
      /\ Length(t2') <= Length(t2)
  <2>1. Length(t1') \in Nat /\ Length(t2') \in Nat
    BY <1>2, ListFacts DEF ARCLists
  <2>2. \A n \in Nat : n <= n
    OBVIOUS
  <2> QED
    BY <1>1, <2>1, <2>2, Lengths DEF ARCRemoveKey
<1>4. ARCTargetInRange' /\ ARCHoldsOneTooMany'
  BY <1>2, <1>3, Lengths, ARCSized DEF ARCInv, ARCTargetInRange, ARCHoldsOneTooMany
<1> QED
  BY <1>2, <1>4 DEF ARCInv, ARCApart

LEMMA ARCPurgeAllInv ==
  ASSUME ARCInv, ARCPurgeAll
  PROVE  ARCInv'
<1>1. /\ ARCLists' /\ ARCSizesStay' /\ t1'.items = {} /\ t2'.items = {} /\ b1'.items = {}
      /\ b2'.items = {}
      /\ Length(t1') = 0 /\ Length(t2') = 0
  BY Purged DEF ARCPurgeAll, ARCInv, ARCLists, ARCSizesStay
<1>2. ARCTargetInRange' /\ ARCHoldsOneTooMany'
  BY <1>1, ARCSized DEF ARCPurgeAll, ARCInv, ARCTargetInRange, ARCHoldsOneTooMany
<1> QED
  BY <1>1, <1>2 DEF ARCInv, ARCApart

LEMMA ARCNextInv == ARCInv /\ [ARCNext]_arcVars => ARCInv'
<1> SUFFICES ASSUME ARCInv, [ARCNext]_arcVars
             PROVE  ARCInv'
  OBVIOUS
<1>1. \A value \in Values : value \in AnyValue
  BY DEF AnyValue
<1>2. ASSUME NEW key \in Keys, NEW value \in Values, AddT2(key, value)
      PROVE  ARCInv'
  <2>1. /\ WellFormed(t2') /\ t2'.size = t2.size
        /\ t2'.items = t2.items /\ Length(t2') = Length(t2)
    BY <1>1, <1>2, Added DEF AddT2, ARCInv, ARCLists
  <2> QED
    BY <1>2, <2>1, T2Inv DEF AddT2
<1>3. ASSUME NEW key \in Keys, GetT2(key)
      PROVE  ARCInv'
  <2>1. /\ WellFormed(t2') /\ t2'.size = t2.size
        /\ t2'.items = t2.items /\ Length(t2') = Length(t2)
    BY <1>3, Gotten DEF GetT2, ARCInv, ARCLists
  <2> QED
    BY <1>3, <2>1, T2Inv DEF GetT2
<1>4. ASSUME NEW key \in Keys, GetT1(key)
      PROVE  ARCInv'
  <2>1. Peek(t1, key) \in AnyValue
    BY <1>4, PositionIsThere DEF GetT1, ARCInv, ARCLists, WellFormed
  <2> QED
    BY <1>4, <2>1, ARCPromoteInv DEF GetT1
<1>5. CASE UNCHANGED arcVars
  BY <1>5 DEF arcVars, ARCInv, ARCLists, ARCApart, ARCSizesStay, ARCTargetInRange,
     ARCHoldsOneTooMany
<1> QED
  BY <1>1, <1>2, <1>3, <1>4, <1>5, ARCPromoteInv, AddB1Inv, AddB2Inv, ARCAddNewInv,
     ARCRemoveKeyInv, ARCPurgeAllInv
     DEF ARCNext, ARCAdd, ARCGet, AddT1

-----------------------------------------------------------------------------

\* Inv holds in every reachable state.
THEOREM ARCInvariance == ARCSpec => []ARCInv
BY ARCInitInv, ARCNextInv, PTL DEF ARCSpec

\* A key is resident once, or it is a ghost once, or neither (arc.go:85).
THEOREM ARCKeysApart == ARCSpec => []ARCKeyInOneList
<1>1. ARCInv => ARCKeyInOneList
  BY DEF ARCInv, ARCLists, ARCApart, ARCKeyInOneList, WellFormed, Agrees
<1> QED
  BY <1>1, ARCInvariance, PTL

\* The target that ghosts move stays a length (arc.go:113, arc.go:142).
THEOREM TargetStays == ARCSpec => []ARCTargetInRange
<1>1. ARCInv => ARCTargetInRange
  BY DEF ARCInv
<1> QED
  BY <1>1, ARCInvariance, PTL

\* The cache holds one more than its size at most: replace may remove nothing
\* (arc.go:180), but then t2 is empty.
THEOREM OneTooMany == ARCSpec => []ARCHoldsOneTooMany
<1>1. ARCInv => ARCHoldsOneTooMany
  BY DEF ARCInv
<1> QED
  BY <1>1, ARCInvariance, PTL

-----------------------------------------------------------------------------
(* Refinement: the cache implements the lossy cache.                       *)

ARCAll == ElementsOfTwo(t1, t2)

\* The content is that of the elements of both lists, and there are as many keys as
\* the two are long.
LEMMA ARCHeldIs ==
  ARCInv => /\ OneEach(ARCAll) /\ ARCHeld = ContentOf(ARCAll)
            /\ DOMAIN ARCHeld = t1.items \cup t2.items
            /\ ARCPromise!Held = Length(t1) + Length(t2)
            /\ Length(t1) \in Nat /\ Length(t2) \in Nat
<1> SUFFICES ASSUME ARCInv
             PROVE  /\ OneEach(ARCAll) /\ ARCHeld = ContentOf(ARCAll)
                    /\ DOMAIN ARCHeld = t1.items \cup t2.items
                    /\ ARCPromise!Held = Length(t1) + Length(t2)
                    /\ Length(t1) \in Nat /\ Length(t2) \in Nat
  OBVIOUS
<1>1. InOneOf(t1, t2)
  BY DEF ARCInv, ARCLists, WellFormed, ARCApart, InOneOf
<1>2. ARCHeld = ReadInTurn(t1, t2)
  BY DEF ARCHeld, ARCPeekKey, ReadInTurn
<1>3. OneEach(ARCAll) /\ ARCHeld = ContentOf(ARCAll)
  BY <1>1, <1>2, ContentOfTwo DEF ARCAll
<1>4. /\ DOMAIN ARCHeld = t1.items \cup t2.items
      /\ Cardinality(t1.items \cup t2.items) = Length(t1) + Length(t2)
      /\ Length(t1) \in Nat /\ Length(t2) \in Nat
  BY <1>1, <1>2, KeysOfTwoCounted
<1>5. ARCPromise!Held = Length(t1) + Length(t2)
  BY <1>4 DEF ARCPromise!Held, ARCPromise!Cardinality, Cardinality
<1> QED
  BY <1>3, <1>4, <1>5

LEMMA ARCHeldIsNext ==
  ARCInv' => /\ OneEach(ARCAll') /\ ARCHeld' = ContentOf(ARCAll')
             /\ DOMAIN ARCHeld' = t1'.items \cup t2'.items
             /\ ARCPromise!Held' = Length(t1') + Length(t2')
             /\ Length(t1') \in Nat /\ Length(t2') \in Nat
<1>1. (ARCInv => /\ OneEach(ARCAll) /\ ARCHeld = ContentOf(ARCAll)
                 /\ DOMAIN ARCHeld = t1.items \cup t2.items
                 /\ ARCPromise!Held = Length(t1) + Length(t2)
                 /\ Length(t1) \in Nat /\ Length(t2) \in Nat)'
  BY ARCHeldIs, PTL
<1> QED
  BY <1>1

\* What goes only makes room.
ARCMakesRoom == LeavesRoom(t1, t2, t1', t2', Size)

LEMMA ARCRoomIsMade ==
  ASSUME ARCInv, ARCInv', ARCMakesRoom
  PROVE  ARCPromise!MakesRoom
BY ARCHeldIs, ARCHeldIsNext DEF ARCMakesRoom, LeavesRoom, ARCPromise!MakesRoom

\* What a method makes of the elements: it gives a key its value, or it loses
\* some.
LEMMA ARCStepPuts ==
  ASSUME ARCInv, ARCInv', NEW key \in Keys, NEW value \in Values,
         NEW e \in ARCAll', e.key = key, e.value = value, ARCAll' \subseteq ARCAll \cup {e},
         ARCMakesRoom
  PROVE  ARCPromise!Add(key, value)
<1>1. Puts(ARCHeld, key, value, ARCHeld')
  BY ARCHeldIs, ARCHeldIsNext, ContentPut
<1> QED
  BY <1>1, ARCRoomIsMade DEF ARCPromise!Add, Puts

LEMMA ARCStepLoses ==
  ASSUME ARCInv, ARCInv', ARCAll' \subseteq ARCAll
  PROVE  /\ t1'.items \cup t2'.items \subseteq t1.items \cup t2.items
         /\ ARCPromise!Keeps(t1'.items \cup t2'.items)
<1>1. OneEach(ARCAll) /\ ARCHeld = ContentOf(ARCAll) /\ ARCHeld' = ContentOf(ARCAll')
  BY ARCHeldIs, ARCHeldIsNext
<1>2. /\ DOMAIN ARCHeld' \subseteq DOMAIN ARCHeld
      /\ ARCHeld' = [k \in DOMAIN ARCHeld' |-> ARCHeld[k]]
  BY <1>1, ContentLost
<1> QED
  BY <1>2, ARCHeldIs, ARCHeldIsNext DEF ARCPromise!Keeps, ARCPromise!Restrict

\* A Get loses none but to make room, and not the key it returns.
LEMMA ARCStepGets ==
  ASSUME ARCInv, ARCInv', NEW key \in t1'.items \cup t2'.items,
         ARCAll' \subseteq ARCAll, ARCMakesRoom
  PROVE  ARCPromise!Get(key)
<1> DEFINE kept == t1'.items \cup t2'.items
<1>1. /\ kept \subseteq t1.items \cup t2.items /\ ARCPromise!Keeps(kept)
      /\ ARCPromise!MakesRoom
  BY ARCStepLoses, ARCRoomIsMade
<1>2. key \in kept
  OBVIOUS
<1> HIDE DEF kept
<1>3. kept \in SUBSET DOMAIN ARCHeld /\ {key} \cap DOMAIN ARCHeld \subseteq kept
  BY <1>1, <1>2, ARCHeldIs
<1> QED
  BY <1>1, <1>3 DEF ARCPromise!Get

LEMMA ARCListsAgree ==
  ASSUME ARCInv
  PROVE  /\ WellFormed(t1) /\ Agrees(t1) /\ t1.size = Size
         /\ WellFormed(t2) /\ Agrees(t2) /\ t2.size = Size
         /\ Size \in Nat /\ Size > 0
         /\ t1.items \cap t2.items = {}
BY ARCSized DEF ARCInv, ARCLists, ARCSizesStay, ARCApart, WellFormed

LEMMA ARCInitRefines == ARCInit => ARCPromise!Init
<1> SUFFICES ASSUME ARCInit
             PROVE  ARCPromise!Init
  OBVIOUS
<1>1. t1.items = {} /\ t2.items = {} /\ Size \in Nat
  BY ARCSized, New DEF ARCInit
<1>2. ARCHeld = [k \in {} |-> CHOOSE v \in Values : TRUE]
  BY <1>1 DEF ARCHeld
<1> QED
  BY <1>1, <1>2 DEF ARCPromise!Init

LEMMA ARCPurgeKept ==
  ASSUME ARCInv, ARCInv', ARCPurgeAll
  PROVE  ARCPromise!Purge
<1>1. /\ Elements(t1') = {} /\ Elements(t2') = {}
      /\ t1'.items = {} /\ t2'.items = {}
  BY ARCListsAgree, NewElements, Purged DEF ARCPurgeAll, Purge
<1>2. ARCPromise!Keeps(t1'.items \cup t2'.items)
  BY <1>1, ARCStepLoses DEF ARCAll, ElementsOfTwo
<1>3. t1'.items \cup t2'.items = {}
  BY <1>1
<1> QED
  BY <1>2, <1>3 DEF ARCPromise!Purge

LEMMA ARCRemoveKept ==
  ASSUME ARCInv, ARCInv', NEW key \in Keys, ARCRemoveKey(key)
  PROVE  ARCPromise!Remove(key)
<1>1. Elements(t1') \subseteq Elements(t1) /\ Elements(t2') \subseteq Elements(t2)
  BY ARCListsAgree, KeyRemovedElements DEF ARCRemoveKey
<1>2. ARCPromise!Keeps(t1'.items \cup t2'.items)
  BY <1>1, ARCStepLoses DEF ARCAll, ElementsOfTwo
<1>3. t1'.items \cup t2'.items = (t1.items \cup t2.items) \ {key}
  <2>1. Remove(t1, key).items = t1.items \ {key} /\ Remove(t2, key).items = t2.items \ {key}
    BY ARCListsAgree, Removed
  <2> QED
    BY <2>1, ARCListsAgree DEF ARCRemoveKey, Resident, Contains
<1> QED
  BY <1>2, <1>3, ARCHeldIs DEF ARCPromise!Remove

\* Get and Add of a key of t1.
LEMMA ARCPromotionKept ==
  ASSUME ARCInv, ARCInv', NEW key \in Keys
  PROVE  /\ GetT1(key) => ARCPromise!Get(key)
         /\ \A value \in Values : AddT1(key, value) => ARCPromise!Add(key, value)
<1>1. ASSUME NEW value \in AnyValue, ARCPromote(key, value)
      PROVE  LET e == [key |-> key, value |-> value]
             IN  e \in Elements(t2') /\ ARCAll' \subseteq ARCAll \cup {e} /\ ARCMakesRoom
  <2>1. Elements(t1') \subseteq Elements(t1)
    BY <1>1, ARCListsAgree, KeyRemovedElements DEF ARCPromote
  <2> DEFINE e == [key |-> key, value |-> value]
  <2>2. Elements(t2') \subseteq Elements(t2) \cup {e} /\ e \in Elements(t2')
    BY <1>1, ARCListsAgree, AddedElements DEF ARCPromote
  <2> HIDE DEF e
  <2>3. ARCAll' \subseteq ARCAll \cup {e}
    BY <2>1, <2>2 DEF ARCAll, ElementsOfTwo
  <2>4. ~Contains(t2, key)
    BY <1>1, ARCListsAgree DEF ARCPromote, Contains
  <2>5. ARCMakesRoom
    BY <1>1, <2>4, ARCListsAgree, RoomToPromote DEF ARCPromote, ARCMakesRoom
  <2> QED
    BY <2>2, <2>3, <2>5 DEF e
<1>2. ASSUME GetT1(key)
      PROVE  ARCPromise!Get(key)
  <2> DEFINE e == [key |-> key, value |-> Peek(t1, key)]
  <2>1. Peek(t1, key) \in AnyValue /\ e \in Elements(t1)
    BY <1>2, ARCListsAgree, PositionIsThere, ElementFacts DEF GetT1, Contains
  <2>2. e \in Elements(t2') /\ ARCAll' \subseteq ARCAll \cup {e} /\ ARCMakesRoom /\ e.key = key
    BY <1>1, <1>2, <2>1 DEF GetT1
  <2> HIDE DEF e
  <2>3. ARCAll' \subseteq ARCAll
    BY <2>1, <2>2 DEF ARCAll, ElementsOfTwo
  <2>4. key \in t2'.items
    <3>1. Agrees(t2')
      BY DEF ARCInv, ARCLists, WellFormed
    <3> QED
      BY <2>2, <3>1, ElementFacts
  <2> QED
    BY <2>2, <2>3, <2>4, ARCStepGets
<1>3. ASSUME NEW value \in Values, AddT1(key, value)
      PROVE  ARCPromise!Add(key, value)
  <2> DEFINE e == [key |-> key, value |-> value]
  <2>1. value \in AnyValue
    BY DEF AnyValue
  <2>2. e \in Elements(t2') /\ ARCAll' \subseteq ARCAll \cup {e} /\ ARCMakesRoom
        /\ e.key = key /\ e.value = value
    BY <1>1, <1>3, <2>1 DEF AddT1
  <2> HIDE DEF e
  <2>3. e \in ARCAll'
    BY <2>2 DEF ARCAll, ElementsOfTwo
  <2> QED
    BY <2>2, <2>3, ARCStepPuts
<1> QED
  BY <1>2, <1>3

\* Get and Add of a key of t2.
LEMMA ARCStayKept ==
  ASSUME ARCInv, ARCInv', NEW key \in Keys
  PROVE  /\ GetT2(key) => ARCPromise!Get(key)
         /\ \A value \in Values : AddT2(key, value) => ARCPromise!Add(key, value)
<1>1. ASSUME GetT2(key)
      PROVE  ARCPromise!Get(key)
  <2>1. /\ Elements(t2') \subseteq Elements(t2) /\ t1' = t1
        /\ t2'.items = t2.items /\ key \in t2'.items
    BY <1>1, ARCListsAgree, GottenElements, Gotten DEF GetT2, Contains
  <2>2. ARCMakesRoom /\ ARCAll' \subseteq ARCAll
    BY <2>1 DEF ARCMakesRoom, LeavesRoom, ARCAll, ElementsOfTwo
  <2> QED
    BY <2>1, <2>2, ARCStepGets
<1>2. ASSUME NEW value \in Values, AddT2(key, value)
      PROVE  ARCPromise!Add(key, value)
  <2> DEFINE e == [key |-> key, value |-> value]
  <2>1. value \in AnyValue
    BY DEF AnyValue
  <2>2. /\ Elements(t2') \subseteq Elements(t2) \cup {e} /\ e \in Elements(t2')
        /\ t1' = t1 /\ e.key = key /\ e.value = value
    BY <1>2, <2>1, ARCListsAgree, AddedElements DEF AddT2
  <2>3. t2'.items = t2.items
    BY <1>2, <2>1, ARCListsAgree, Added DEF AddT2
  <2> HIDE DEF e
  <2>4. e \in ARCAll' /\ ARCAll' \subseteq ARCAll \cup {e}
    BY <2>2 DEF ARCAll, ElementsOfTwo
  <2>5. ARCMakesRoom
    BY <2>2, <2>3 DEF ARCMakesRoom, LeavesRoom
  <2> QED
    BY <2>2, <2>4, <2>5, ARCStepPuts
<1> QED
  BY <1>1, <1>2

\* Add of a ghost of b1.
LEMMA AddB1Kept ==
  ASSUME ARCInv, ARCInv', NEW key \in Keys, NEW value \in Values, AddB1(key, value)
  PROVE  ARCPromise!Add(key, value)
<1> DEFINE e    == [key |-> key, value |-> value]
           rest == T1After(p', FALSE)
           mid  == T2After(p', FALSE)
<1>1. value \in AnyValue
  BY DEF AnyValue
<1>2. /\ WellFormed(rest) /\ WellFormed(mid) /\ mid.size = Size
      /\ (rest = t1 /\ mid = t2) \/ Length(rest) + Length(mid) + 1 >= Size
      /\ mid.items \subseteq t2.items
  BY Replaced
<1>3. Elements(mid) \subseteq Elements(t2) /\ Elements(t1') \subseteq Elements(t1)
  BY ARCListsAgree, OldestElements DEF AddB1, T1After, T2After
<1>4. t2' = Add(mid, key, value) /\ t1' = rest /\ key \notin t2.items
  BY DEF AddB1, Resident, Contains
<1> HIDE DEF rest, mid
<1>5. Elements(t2') \subseteq Elements(mid) \cup {e} /\ e \in Elements(t2')
      /\ e.key = key /\ e.value = value
  BY <1>1, <1>2, <1>4, ARCListsAgree, AddedElements
<1> HIDE DEF e
<1>6. e \in ARCAll' /\ ARCAll' \subseteq ARCAll \cup {e}
  BY <1>3, <1>5 DEF ARCAll, ElementsOfTwo
<1>7. ARCMakesRoom
  <2>1. ~Contains(mid, key)
    BY <1>2, <1>4 DEF Contains
  <2> QED
    BY <1>1, <1>2, <1>4, <2>1, ARCListsAgree, RoomForOne DEF ARCMakesRoom
<1> QED
  BY <1>5, <1>6, <1>7, ARCStepPuts

\* Add of a ghost of b2.
LEMMA AddB2Kept ==
  ASSUME ARCInv, ARCInv', NEW key \in Keys, NEW value \in Values, AddB2(key, value)
  PROVE  ARCPromise!Add(key, value)
<1> DEFINE e    == [key |-> key, value |-> value]
           rest == T1After(p', TRUE)
           mid  == T2After(p', TRUE)
<1>1. value \in AnyValue
  BY DEF AnyValue
<1>2. /\ WellFormed(rest) /\ WellFormed(mid) /\ mid.size = Size
      /\ (rest = t1 /\ mid = t2) \/ Length(rest) + Length(mid) + 1 >= Size
      /\ mid.items \subseteq t2.items
  BY Replaced
<1>3. Elements(mid) \subseteq Elements(t2) /\ Elements(t1') \subseteq Elements(t1)
  BY ARCListsAgree, OldestElements DEF AddB2, T1After, T2After
<1>4. t2' = Add(mid, key, value) /\ t1' = rest /\ key \notin t2.items
  BY DEF AddB2, Resident, Contains
<1> HIDE DEF rest, mid
<1>5. Elements(t2') \subseteq Elements(mid) \cup {e} /\ e \in Elements(t2')
      /\ e.key = key /\ e.value = value
  BY <1>1, <1>2, <1>4, ARCListsAgree, AddedElements
<1> HIDE DEF e
<1>6. e \in ARCAll' /\ ARCAll' \subseteq ARCAll \cup {e}
  BY <1>3, <1>5 DEF ARCAll, ElementsOfTwo
<1>7. ARCMakesRoom
  <2>1. ~Contains(mid, key)
    BY <1>2, <1>4 DEF Contains
  <2> QED
    BY <1>1, <1>2, <1>4, <2>1, ARCListsAgree, RoomForOne DEF ARCMakesRoom
<1> QED
  BY <1>5, <1>6, <1>7, ARCStepPuts

\* Add of any other key.
LEMMA ARCAddNewKept ==
  ASSUME ARCInv, ARCInv', NEW key \in Keys, NEW value \in Values, ARCAddNew(key, value)
  PROVE  ARCPromise!Add(key, value)
<1> DEFINE e    == [key |-> key, value |-> value]
           rest == T2After(p, FALSE)
           mid  == T1After(p, FALSE)
<1>1. value \in AnyValue
  BY DEF AnyValue
<1>2. /\ WellFormed(rest) /\ WellFormed(mid) /\ mid.size = Size
      /\ (rest = t2 /\ mid = t1) \/ Length(mid) + Length(rest) + 1 >= Size
      /\ mid.items \subseteq t1.items
  BY Replaced
<1>3. Elements(mid) \subseteq Elements(t1) /\ Elements(t2') \subseteq Elements(t2)
  BY ARCListsAgree, OldestElements DEF ARCAddNew, T1After, T2After
<1>4. t1' = Add(mid, key, value) /\ t2' = rest /\ key \notin t1.items
  BY DEF ARCAddNew, Resident, Contains
<1> HIDE DEF rest, mid
<1>5. Elements(t1') \subseteq Elements(mid) \cup {e} /\ e \in Elements(t1')
      /\ e.key = key /\ e.value = value
  BY <1>1, <1>2, <1>4, ARCListsAgree, AddedElements
<1> HIDE DEF e
<1>6. e \in ARCAll' /\ ARCAll' \subseteq ARCAll \cup {e}
  BY <1>3, <1>5 DEF ARCAll, ElementsOfTwo
<1>7. ARCMakesRoom
  <2>1. ~Contains(mid, key)
    BY <1>2, <1>4 DEF Contains
  <2>2. (rest = t2 /\ mid = t1) \/ Length(rest) + Length(mid) + 1 >= Size
    BY <1>2, ListFacts
  <2>3. LeavesRoom(t2, t1, t2', t1', Size)
    BY <1>1, <1>2, <1>4, <2>1, <2>2, ARCListsAgree, RoomForOne
  <2> QED
    BY <2>3, ARCHeldIsNext DEF LeavesRoom, ARCMakesRoom
<1> QED
  BY <1>5, <1>6, <1>7, ARCStepPuts

LEMMA ARCStepRefines ==
  ARCInv /\ ARCInv' /\ [ARCNext]_arcVars
    => [ARCPromise!Next]_(ARCPromise!cacheVars) /\ [ARCCallIsKept]_arcVars
<1> SUFFICES ASSUME ARCInv, ARCInv', [ARCNext]_arcVars
             PROVE  [ARCPromise!Next]_(ARCPromise!cacheVars) /\ [ARCCallIsKept]_arcVars
  OBVIOUS
<1>1. ARCCallIsKept
  BY ARCPromotionKept, ARCStayKept, AddB1Kept, AddB2Kept, ARCAddNewKept, ARCRemoveKept, ARCPurgeKept
     DEF ARCCallIsKept, ARCAdd, ARCGet
<1>2. ARCPromise!Held' <= Size + 1
  BY ARCHeldIsNext DEF ARCInv, ARCHoldsOneTooMany
<1>3. CASE ARCNext
  <2>1. ARCPromise!Next
    BY <1>1, <1>2, <1>3 DEF ARCNext, ARCCallIsKept, ARCPromise!Next
  <2> QED
    BY <1>1, <2>1
<1>4. CASE UNCHANGED arcVars
  <2>1. UNCHANGED ARCPromise!cacheVars
    BY <1>4 DEF arcVars, ARCPromise!cacheVars, ARCHeld, ARCPeekKey
  <2> QED
    BY <1>1, <2>1
<1> QED
  BY <1>3, <1>4

\* An ARC is a lossy cache of its size with one to spare (arc.go:62): a key has the
\* value it was last given or is not there, also when it was promoted or brought
\* back; Get and Add lose none but to make room.
THEOREM ARCPromiseKept == ARCSpec => ARCKeepsPromise
<1>1. ARCSpec => []ARCInv
  BY ARCInvariance
<1> QED
  BY <1>1, ARCInitRefines, ARCStepRefines, PTL DEF ARCSpec, ARCPromise!Spec, ARCKeepsPromise

(***************************************************************************)
(* The three                                                               *)
(***************************************************************************)

\* A behaviour that uses one cache is a behaviour of each: the others stutter.
LEMMA EachCacheRuns == Spec => LRUSpec /\ TwoQueueSpec /\ ARCSpec
<1>1. Init => LRUInit /\ TwoQueueInit /\ ARCInit
  BY DEF Init
<1>2. [Next]_vars => [LRUNext]_lruVars /\ [TwoQueueNext]_twoQueueVars /\ [ARCNext]_arcVars
  <2>1. UseLRU => LRUNext /\ UNCHANGED twoQueueVars /\ UNCHANGED arcVars
    BY DEF UseLRU
  <2>2. UseTwoQueue => TwoQueueNext /\ UNCHANGED lruVars /\ UNCHANGED arcVars
    BY DEF UseTwoQueue
  <2>3. UseARC => ARCNext /\ UNCHANGED lruVars /\ UNCHANGED twoQueueVars
    BY DEF UseARC
  <2>4. UNCHANGED vars => UNCHANGED lruVars /\ UNCHANGED twoQueueVars /\ UNCHANGED arcVars
    BY DEF vars
  <2> QED
    BY <2>1, <2>2, <2>3, <2>4 DEF Next
<1> QED
  BY <1>1, <1>2, PTL DEF Spec, LRUSpec, TwoQueueSpec, ARCSpec

\* KeysAreInOneList, for every behaviour: the list of an LRU and its map agree, and
\* a key of 2Q or of ARC is in one of its lists, resident or a ghost, although
\* ensureSpace (2q.go) and replace (arc.go) evict into the ghosts while a key moves.
THEOREM KeysStayInOneList == Spec => []KeysAreInOneList
BY EachCacheRuns, ListAndMapAgree, TwoQueueKeysApart, ARCKeysApart, PTL DEF KeysAreInOneList

\* LRUOrderIsRecency, for every behaviour: what the LRU evicts is what was used
\* longest ago (removeOldest of simplelru/lru.go).
THEOREM RecencyKept == Spec => []LRUOrderIsRecency
BY EachCacheRuns, OrderHolds, PTL

\* LRUEvictionsAreReported, for every behaviour: onEvict hears of every entry that
\* goes, Purge and Resize included, and of no other (lru.go).
THEOREM EvictionsHeard == Spec => LRUEvictionsAreReported
BY EachCacheRuns, EvictionsReported, PTL

\* TwoQueueFrequentIsEarned, for every behaviour: only what was used again is in the
\* frequent list of 2Q, and nothing of that is in recent (2q.go).
THEOREM FrequentListEarned == Spec => []TwoQueueFrequentIsEarned
BY EachCacheRuns, FrequencyEarned, PTL

\* TwoQueueBurstsAreHarmless, for every behaviour (2q.go:23).
THEOREM BurstsTakeRecent == Spec => TwoQueueBurstsAreHarmless
BY EachCacheRuns, BurstsHarmless, PTL

\* ARCTargetInRange, for every behaviour: the p of arc.go is a length t1 may have.
THEOREM TargetKept == Spec => []ARCTargetInRange
BY EachCacheRuns, TargetStays, PTL

\* KeepsPromise, for every behaviour: each of the three implements the lossy cache,
\* and each of its methods does what the lossy cache's does: Get loses none but where
\* there is one key too many, as in ARC (arc.go:62) and in 2Q (2q.go:87).
THEOREM PromiseKept == Spec => KeepsPromise
BY EachCacheRuns, LRUPromiseKept, TwoQueuePromiseKept, ARCPromiseKept, PTL DEF KeepsPromise
=============================================================================
