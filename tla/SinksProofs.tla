----------------------------- MODULE SinksProofs -----------------------------
(***************************************************************************)
(* The memory behind the values of groupcache, for any goroutines, values, *)
(* slices and parts: nobody writes the bytes of a view that is shared, and *)
(* every sink has the value.                                               *)
(***************************************************************************)
EXTENDS Sinks, FiniteSetTheorems, SequenceTheorems, TLAPS

Names == Nat \cup Clients \cup {Getter}

Views == [b : Names, from : Nat, to : Nat, s : Seq(Byte)]

IsHeap(h) ==
  /\ IsFiniteSet(DOMAIN h) /\ DOMAIN h \subseteq Names \ {NoBuffer}
  /\ h \in [DOMAIN h -> Seq(Byte)]

\* A view is a part of a buffer there is, or a string.
Within(h, v) ==
  /\ v \in Views
  /\ v.b # NoBuffer => v.b \in DOMAIN h /\ v.from <= v.to /\ v.to <= Len(h[v.b])

\* It may be shared, for the bytes it has: its buffer is neither the getter's
\* nor a client's.
Shared(h, v, bytes) ==
  /\ Within(h, v) /\ v.b \in Nat
  /\ bytes \in Seq(Byte) /\ BytesOf(h, v) = bytes

\* A slice of a client's own.
Owned(h, c, v) == Within(h, v) /\ v.b = c /\ v.from = 0

\* A dst that is yet to be set.
Ready(h, c, kind, dst) ==
  IF kind = "trunc" THEN Owned(h, c, dst) /\ dst.to = Len(h[c])
                    ELSE Within(h, dst) /\ dst.b = NoBuffer

\* One that has been set to these bytes.
Filled(h, c, kind, dst, bytes) ==
  /\ bytes \in Seq(Byte)
  /\ kind \in {"string", "proto"} => dst.b = NoBuffer
  /\ kind \in {"string", "proto", "view"} => Shared(h, dst, bytes)
  /\ kind \in {"alloc", "trunc"} => Owned(h, c, dst)
  /\ kind = "alloc" => BytesOf(h, dst) = bytes
  /\ kind = "trunc" => BytesOf(h, dst) = Prefix(bytes, Len(h[c]))

IsClient(h, c, client) ==
  \/ client = NoGet
  \/ /\ client \in [pc : {"get"}, kind : Kinds, dst : Views]
     /\ Ready(h, c, client.kind, client.dst)
  \/ /\ client \in [pc : {"set"}, kind : Kinds, dst : Views, view : Views, want : Seq(Byte)]
     /\ Ready(h, c, client.kind, client.dst) /\ Shared(h, client.view, client.want)
  \/ /\ client \in [pc : {"done"}, kind : Kinds, dst : Views, want : Seq(Byte)]
     /\ Filled(h, c, client.kind, client.dst, client.want)

\* A memory with what refers to it.
Sound(h, view, was, g, cs) ==
  /\ IsHeap(h)
  /\ Within(h, view) /\ view.b \in Nat
  /\ was \in Seq(Byte) /\ (view # NoView => BytesOf(h, view) = was)
  /\ g \in {NoBuffer, Getter} /\ (g # NoBuffer => g \in DOMAIN h)
  /\ cs = [c \in Clients |-> cs[c]] /\ \A c \in Clients : IsClient(h, c, cs[c])

Inv == Sound(heap, cached, loaded, getter, clients)

-----------------------------------------------------------------------------
(* Buffers.                                                                *)

LEMMA NamesDiffer ==
  /\ Getter \notin Clients /\ Getter \notin Nat /\ Getter # NoBuffer
  /\ \A c \in Clients : c \notin Nat /\ c # NoBuffer /\ c # Getter
  /\ NoBuffer \in Nat
BY SinksAssumption DEF NoBuffer

\* One memory has these buffers of another, as they are there.
Keeps(h, r, names) == \A b \in names \cap DOMAIN h : b \in DOMAIN r /\ r[b] = h[b]

\* One memory is another in which nothing is different but this buffer.
Writes(h, r, b) ==
  /\ IsHeap(r) /\ DOMAIN h \subseteq DOMAIN r
  /\ \A x \in DOMAIN h \ {b} : r[x] = h[x]

\* A number that no buffer has.
LEMMA FreeName ==
  ASSUME NEW h, IsHeap(h)
  PROVE  Free(h) \in Nat \ {0} /\ Free(h) \notin DOMAIN h
<1> DEFINE n == Cardinality(DOMAIN h)
<1>1. n \in Nat
  BY FS_CardinalityType DEF IsHeap
<1>2. IsFiniteSet(1 .. n + 1) /\ Cardinality(1 .. n + 1) = n + 1
  BY <1>1, FS_Interval
<1>3. \E b \in 1 .. n + 1 : b \notin DOMAIN h
  <2>1. ASSUME 1 .. n + 1 \subseteq DOMAIN h PROVE FALSE
    <3>1. Cardinality(1 .. n + 1) <= n
      BY <2>1, FS_Subset DEF IsHeap
    <3> QED
      BY <1>1, <1>2, <3>1
  <2> QED
    BY <2>1
<1>4. Free(h) \in 1 .. n + 1 /\ Free(h) \notin DOMAIN h
  BY <1>3 DEF Free
<1> QED
  BY <1>1, <1>4

LEMMA NewBuffer ==
  ASSUME NEW h, IsHeap(h), NEW b \in Names \ {NoBuffer}, NEW bytes \in Seq(Byte),
         NEW r, r = New(h, b, bytes)
  PROVE  Writes(h, r, b) /\ b \in DOMAIN r /\ r[b] = bytes
<1>1. DOMAIN r = DOMAIN h \cup {b}
  BY DEF New
<1>2. \A x \in DOMAIN r : r[x] = IF x = b THEN bytes ELSE h[x]
  BY DEF New
<1>3. r = [x \in DOMAIN r |-> r[x]]
  BY DEF New
<1>4. IsFiniteSet(DOMAIN r)
  BY <1>1, FS_AddElement DEF IsHeap
<1>5. \A x \in DOMAIN r : r[x] \in Seq(Byte)
  BY <1>1, <1>2 DEF IsHeap
<1>6. IsHeap(r)
  BY <1>1, <1>3, <1>4, <1>5 DEF IsHeap
<1> QED
  BY <1>1, <1>2, <1>6 DEF Writes

LEMMA WrittenBuffer ==
  ASSUME NEW h, IsHeap(h), NEW b \in DOMAIN h, NEW bytes \in Seq(Byte),
         NEW r, r = [h EXCEPT ![b] = bytes]
  PROVE  Writes(h, r, b) /\ DOMAIN r = DOMAIN h /\ r[b] = bytes
BY DEF IsHeap, Writes

-----------------------------------------------------------------------------
(* Views.                                                                  *)

LEMMA StringView ==
  ASSUME NEW h, NEW bytes \in Seq(Byte)
  PROVE  Shared(h, OfString(bytes), bytes) /\ OfString(bytes).b = NoBuffer
BY NamesDiffer DEF Shared, Within, Views, Names, OfString, BytesOf

LEMMA BufferView ==
  ASSUME NEW h, IsHeap(h), NEW b \in DOMAIN h
  PROVE  /\ Within(h, OfBuffer(b, h[b])) /\ BytesOf(h, OfBuffer(b, h[b])) = h[b]
         /\ OfBuffer(b, h[b]).b = b /\ OfBuffer(b, h[b]).from = 0
         /\ OfBuffer(b, h[b]).to = Len(h[b])
<1>1. h[b] \in Seq(Byte) /\ b \in Names /\ b # NoBuffer /\ <<>> \in Seq(Byte)
  BY EmptySeq DEF IsHeap
<1>2. Len(h[b]) \in Nat /\ SubSeq(h[b], 1, Len(h[b])) = h[b]
  BY <1>1, LenProperties, SubSeqFull
<1> QED
  BY <1>1, <1>2 DEF OfBuffer, Within, Views, BytesOf

LEMMA BytesOfView ==
  ASSUME NEW h, IsHeap(h), NEW v, Within(h, v)
  PROVE  BytesOf(h, v) \in Seq(Byte)
<1>1. CASE v.b = NoBuffer
  BY <1>1 DEF Within, Views, BytesOf
<1>2. CASE v.b # NoBuffer
  <2>1. /\ h[v.b] \in Seq(Byte) /\ v.from \in Nat /\ v.to \in Nat /\ v.to <= Len(h[v.b])
    BY <1>2 DEF Within, Views, IsHeap
  <2>2. \A i \in v.from + 1 .. v.to : h[v.b][i] \in Byte
    BY <2>1, ElementOfSeq
  <2>3. SubSeq(h[v.b], v.from + 1, v.to) \in Seq(Byte)
    BY <2>1, <2>2, SubSeqProperties
  <2> QED
    BY <1>2, <2>3 DEF BytesOf
<1> QED
  BY <1>1, <1>2

LEMMA ViewStays ==
  ASSUME NEW h, NEW r, NEW v, Within(h, v), Keeps(h, r, {v.b})
  PROVE  Within(r, v) /\ BytesOf(r, v) = BytesOf(h, v)
BY DEF Within, Keeps, BytesOf

-----------------------------------------------------------------------------
(* Clients.                                                                *)

LEMMA ClientStays ==
  ASSUME NEW h, NEW r, NEW c \in Clients, NEW client, IsClient(h, c, client),
         Keeps(h, r, Buffers(client))
  PROVE  IsClient(r, c, client)
<1>1. CASE client = NoGet
  BY <1>1 DEF IsClient
<1>2. CASE client \in [pc : {"get"}, kind : Kinds, dst : Views]
  <2>1. Ready(h, c, client.kind, client.dst) /\ client.pc = "get"
    BY <1>2 DEF IsClient, NoGet
  <2>2. Within(h, client.dst) /\ Keeps(h, r, {client.dst.b})
    BY <2>1 DEF Ready, Owned, Buffers
  <2>3. Ready(r, c, client.kind, client.dst)
    BY <2>1, <2>2, ViewStays, NamesDiffer DEF Ready, Owned, Within, Keeps
  <2> QED
    BY <1>2, <2>3 DEF IsClient
<1>3. CASE client \in [pc : {"set"}, kind : Kinds, dst : Views, view : Views,
                       want : Seq(Byte)]
  <2>1. /\ Ready(h, c, client.kind, client.dst) /\ Shared(h, client.view, client.want)
        /\ client.pc = "set"
    BY <1>3 DEF IsClient, NoGet
  <2>2. /\ Within(h, client.dst) /\ Keeps(h, r, {client.dst.b})
        /\ Within(h, client.view) /\ Keeps(h, r, {client.view.b})
    BY <2>1 DEF Ready, Owned, Shared, Buffers, Keeps
  <2>3. Ready(r, c, client.kind, client.dst)
    BY <2>1, <2>2, ViewStays, NamesDiffer DEF Ready, Owned, Within, Keeps
  <2>4. Shared(r, client.view, client.want)
    BY <2>1, <2>2, ViewStays DEF Shared
  <2> QED
    BY <1>3, <2>3, <2>4 DEF IsClient
<1>4. CASE client \in [pc : {"done"}, kind : Kinds, dst : Views, want : Seq(Byte)]
  <2>1. Filled(h, c, client.kind, client.dst, client.want) /\ client.pc = "done"
    BY <1>4 DEF IsClient, NoGet
  <2>2. Within(h, client.dst) /\ Keeps(h, r, {client.dst.b})
    BY <1>4, <2>1 DEF Filled, Shared, Owned, Buffers, Kinds
  <2>3. Within(r, client.dst) /\ BytesOf(r, client.dst) = BytesOf(h, client.dst)
    BY <2>2, ViewStays
  <2>4. client.dst.b = c => r[c] = h[c]
    BY <2>2, NamesDiffer DEF Within, Keeps
  <2>5. Filled(r, c, client.kind, client.dst, client.want)
    BY <2>1, <2>3, <2>4 DEF Filled, Shared, Owned
  <2> QED
    BY <1>4, <2>5 DEF IsClient
<1> QED
  BY <1>1, <1>2, <1>3, <1>4 DEF IsClient

\* A client refers to its own buffer, and to those that are shared.
LEMMA ClientRefers ==
  ASSUME NEW h, NEW c \in Clients, NEW client, IsClient(h, c, client)
  PROVE  /\ Buffers(client) \subseteq Nat \cup {c}
         /\ Buffers(client) \subseteq DOMAIN h \cup {NoBuffer}
<1>1. CASE client = NoGet
  BY <1>1 DEF Buffers, NoGet
<1>2. CASE client \in [pc : {"get"}, kind : Kinds, dst : Views]
  <2>1. Ready(h, c, client.kind, client.dst) /\ client.pc = "get"
    BY <1>2 DEF IsClient, NoGet
  <2> QED
    BY <2>1, NamesDiffer DEF Ready, Owned, Within, Buffers
<1>3. CASE client \in [pc : {"set"}, kind : Kinds, dst : Views, view : Views,
                       want : Seq(Byte)]
  <2>1. /\ Ready(h, c, client.kind, client.dst) /\ Shared(h, client.view, client.want)
        /\ client.pc = "set"
    BY <1>3 DEF IsClient, NoGet
  <2> QED
    BY <2>1, NamesDiffer DEF Ready, Owned, Within, Shared, Buffers
<1>4. CASE client \in [pc : {"done"}, kind : Kinds, dst : Views, want : Seq(Byte)]
  <2>1. Filled(h, c, client.kind, client.dst, client.want) /\ client.pc = "done"
    BY <1>4 DEF IsClient, NoGet
  <2> QED
    BY <1>4, <2>1, NamesDiffer DEF Filled, Owned, Within, Shared, Buffers, Kinds
<1> QED
  BY <1>1, <1>2, <1>3, <1>4 DEF IsClient

\* A get that has the value it waits for.
LEMMA ClientWithView ==
  ASSUME NEW h, NEW c \in Clients, NEW client, IsClient(h, c, client), client.pc = "get",
         NEW view, NEW bytes, Shared(h, view, bytes)
  PROVE  IsClient(h, c, WithView(client, view, bytes))
<1>1. /\ client \in [pc : {"get"}, kind : Kinds, dst : Views]
      /\ Ready(h, c, client.kind, client.dst)
  BY DEF IsClient, NoGet
<1>2. view \in Views /\ bytes \in Seq(Byte)
  BY DEF Shared, Within
<1>3. WithView(client, view, bytes) \in
        [pc : {"set"}, kind : Kinds, dst : Views, view : Views, want : Seq(Byte)]
  BY <1>1, <1>2 DEF WithView
<1>4. /\ WithView(client, view, bytes).kind = client.kind
      /\ WithView(client, view, bytes).dst = client.dst
      /\ WithView(client, view, bytes).view = view
      /\ WithView(client, view, bytes).want = bytes
  BY DEF WithView
<1> QED
  BY <1>1, <1>3, <1>4 DEF IsClient

\* One whose sink is set.
LEMMA ClientWithDst ==
  ASSUME NEW h, NEW c, NEW client, client.kind \in Kinds,
         NEW dst, NEW bytes, Filled(h, c, client.kind, dst, bytes)
  PROVE  IsClient(h, c, WithDst(client, dst, bytes))
<1>1. dst \in Views /\ bytes \in Seq(Byte)
  BY DEF Filled, Shared, Owned, Within, Kinds
<1>2. WithDst(client, dst, bytes) \in [pc : {"done"}, kind : Kinds, dst : Views, want : Seq(Byte)]
  BY <1>1 DEF WithDst
<1>3. /\ WithDst(client, dst, bytes).kind = client.kind
      /\ WithDst(client, dst, bytes).dst = dst
      /\ WithDst(client, dst, bytes).want = bytes
  BY DEF WithDst
<1> QED
  BY <1>2, <1>3 DEF IsClient

\* A prefix.
LEMMA PrefixOf ==
  ASSUME NEW bytes \in Seq(Byte), NEW n \in Nat
  PROVE  Prefix(bytes, n) \in Seq(Byte) /\ Len(Prefix(bytes, n)) <= n
<1>1. Len(bytes) \in Nat /\ \A i \in 1 .. Len(bytes) : bytes[i] \in Byte
  BY LenProperties, ElementOfSeq
<1>2. PICK m \in Nat : m <= n /\ m <= Len(bytes) /\ Prefix(bytes, n) = SubSeq(bytes, 1, m)
  BY <1>1 DEF Prefix
<1>3. \A i \in 1 .. m : bytes[i] \in Byte
  BY <1>1, <1>2
<1> QED
  BY <1>2, <1>3, SubSeqProperties

\* copy leaves a buffer as long as it is, and has the bytes in front.
LEMMA Copied ==
  ASSUME NEW slice \in Seq(Byte), NEW copied \in Seq(Byte), Len(copied) <= Len(slice),
         NEW r, r = copied \o SubSeq(slice, Len(copied) + 1, Len(slice))
  PROVE  r \in Seq(Byte) /\ Len(r) = Len(slice) /\ SubSeq(r, 1, Len(copied)) = copied
<1> DEFINE rest == SubSeq(slice, Len(copied) + 1, Len(slice))
           n == Len(copied)
           m == Len(slice)
<1>1. n \in Nat /\ m \in Nat /\ \A i \in 1 .. m : slice[i] \in Byte
  BY LenProperties, ElementOfSeq
<1>2. rest \in Seq(Byte) /\ Len(rest) = m - n
  <2>1. \A i \in n + 1 .. m : slice[i] \in Byte
    BY <1>1
  <2>2. rest \in Seq(Byte) /\ Len(rest) = IF n + 1 <= m THEN m - (n + 1) + 1 ELSE 0
    BY <1>1, <2>1, SubSeqProperties
  <2> QED
    BY <1>1, <2>2
<1> HIDE DEF rest
<1>3. r \in Seq(Byte) /\ Len(r) = n + (m - n) /\ \A i \in 1 .. n : r[i] = copied[i]
  BY <1>1, <1>2, ConcatProperties DEF rest
<1>4. SubSeq(r, 1, n) = copied
  BY <1>1, <1>3
<1> QED
  BY <1>1, <1>3, <1>4

-----------------------------------------------------------------------------
(* Setting a dst.                                                          *)

\* A sink has the value of its view, and no buffer was written but the client's.
DstIsSet(h, c, kind, bytes, set) ==
  Writes(h, set.heap, c) /\ Filled(set.heap, c, kind, set.dst, bytes)

LEMMA CopySets ==
  ASSUME NEW h, IsHeap(h), NEW c \in Clients, NEW dst, Owned(h, c, dst), dst.to = Len(h[c]),
         NEW bytes \in Seq(Byte)
  PROVE  DstIsSet(h, c, "trunc", bytes, CopyTo(h, dst, bytes))
<1> DEFINE copied == Prefix(bytes, dst.to)
           slice  == copied \o SubSeq(h[c], Len(copied) + 1, Len(h[c]))
           r      == [h EXCEPT ![c] = slice]
           part   == [dst EXCEPT !.to = Len(copied)]
<1>1. c \in DOMAIN h /\ h[c] \in Seq(Byte) /\ dst.b = c /\ dst.to \in Nat /\ c # NoBuffer
      /\ dst \in Views /\ dst.from = 0
  BY NamesDiffer DEF Owned, Within, Views, IsHeap
<1>2. copied \in Seq(Byte) /\ Len(copied) <= Len(h[c]) /\ Len(copied) \in Nat
  BY <1>1, PrefixOf, LenProperties
<1> HIDE DEF copied
<1>3. /\ slice \in Seq(Byte) /\ Len(slice) = Len(h[c])
      /\ SubSeq(slice, 1, Len(copied)) = copied
  BY <1>1, <1>2, Copied
<1> HIDE DEF slice
<1>4. Writes(h, r, c) /\ DOMAIN r = DOMAIN h /\ r[c] = slice
  BY <1>1, <1>3, WrittenBuffer
<1> HIDE DEF r
<1>5. /\ part \in Views /\ part.b = c /\ part.from = 0 /\ part.to = Len(copied)
  BY <1>1, <1>2 DEF Views
<1> HIDE DEF part
<1>6. Owned(r, c, part) /\ BytesOf(r, part) = copied
  BY <1>1, <1>2, <1>3, <1>4, <1>5 DEF Owned, Within, BytesOf
<1>7. copied = Prefix(bytes, Len(r[c]))
  BY <1>3, <1>4 DEF copied
<1>8. CopyTo(h, dst, bytes).heap = r /\ CopyTo(h, dst, bytes).dst = part
  BY <1>1 DEF CopyTo, r, part, slice, copied
<1> QED
  BY <1>4, <1>6, <1>7, <1>8 DEF DstIsSet, Filled

LEMMA SettingDst ==
  ASSUME NEW h, IsHeap(h), NEW c \in Clients, NEW kind \in Kinds, NEW dst,
         Ready(h, c, kind, dst), NEW view, NEW bytes, Shared(h, view, bytes)
  PROVE  DstIsSet(h, c, kind, bytes, SetDst(h, c, kind, dst, view))
<1>1. BytesOf(h, view) = bytes /\ bytes \in Seq(Byte)
  BY DEF Shared
<1>2. Writes(h, h, c)
  BY DEF Writes
<1>3. CASE kind \in {"string", "proto"}
  <2>1. SetDst(h, c, kind, dst, view) = [heap |-> h, dst |-> OfString(bytes)]
    BY <1>1, <1>3 DEF SetDst, AsString
  <2> QED
    BY <1>1, <1>2, <1>3, <2>1, StringView DEF DstIsSet, Filled
<1>4. CASE kind = "view"
  <2>1. SetDst(h, c, kind, dst, view) = [heap |-> h, dst |-> view]
    BY <1>4 DEF SetDst, setView
  <2> QED
    BY <1>1, <1>2, <1>4, <2>1 DEF DstIsSet, Filled
<1>5. CASE kind = "alloc"
  <2> DEFINE r == New(h, c, bytes)
  <2>1. SetDst(h, c, kind, dst, view) = [heap |-> r, dst |-> OfBuffer(c, bytes)]
    BY <1>1, <1>5 DEF SetDst, setBytesOwned
  <2>2. Writes(h, r, c) /\ c \in DOMAIN r /\ r[c] = bytes
    <3>1. c \in Names \ {NoBuffer}
      BY NamesDiffer DEF Names
    <3> QED
      BY <1>1, <3>1, NewBuffer
  <2> HIDE DEF r
  <2>3. Owned(r, c, OfBuffer(c, bytes)) /\ BytesOf(r, OfBuffer(c, bytes)) = bytes
    BY <2>2, BufferView DEF Owned, Writes
  <2> QED
    BY <1>1, <1>5, <2>1, <2>2, <2>3 DEF DstIsSet, Filled
<1>6. CASE kind = "trunc"
  <2>1. SetDst(h, c, kind, dst, view) = CopyTo(h, dst, bytes)
    BY <1>1, <1>6 DEF SetDst
  <2>2. Owned(h, c, dst) /\ dst.to = Len(h[c])
    BY <1>6 DEF Ready
  <2> QED
    BY <1>1, <1>6, <2>1, <2>2, CopySets
<1> QED
  BY <1>3, <1>4, <1>5, <1>6 DEF Kinds

-----------------------------------------------------------------------------
(* Memories.                                                               *)

\* What is not written stays as it is, for all that refer to it.
LEMMA OthersStay ==
  ASSUME NEW h, NEW view, NEW was, NEW g, NEW cs, Sound(h, view, was, g, cs),
         NEW r, NEW b, Writes(h, r, b), b \notin Nat \/ b \notin DOMAIN h
  PROVE  /\ \A v : Within(h, v) /\ v.b \in Nat =>
                     Within(r, v) /\ BytesOf(r, v) = BytesOf(h, v)
         /\ \A v, bytes : Shared(h, v, bytes) => Shared(r, v, bytes)
         /\ g # NoBuffer => g \in DOMAIN r
         /\ \A c \in Clients : c # b \/ b \notin DOMAIN h => IsClient(r, c, cs[c])
<1>1. ASSUME NEW v, Within(h, v), v.b \in Nat
      PROVE  Within(r, v) /\ BytesOf(r, v) = BytesOf(h, v)
  <2>1. Keeps(h, r, {v.b})
    BY <1>1 DEF Keeps, Writes
  <2> QED
    BY <1>1, <2>1, ViewStays
<1>2. ASSUME NEW v, NEW bytes, Shared(h, v, bytes) PROVE Shared(r, v, bytes)
  BY <1>1, <1>2 DEF Shared
<1>3. ASSUME NEW c \in Clients, c # b \/ b \notin DOMAIN h PROVE IsClient(r, c, cs[c])
  <2>1. IsClient(h, c, cs[c])
    BY DEF Sound
  <2>2. Buffers(cs[c]) \subseteq Nat \cup {c}
    BY <2>1, ClientRefers
  <2>3. Keeps(h, r, Buffers(cs[c]))
    BY <1>3, <2>2 DEF Keeps, Writes
  <2> QED
    BY <2>1, <2>3, ClientStays
<1>4. g # NoBuffer => g \in DOMAIN r
  BY DEF Sound, Writes
<1> QED
  BY <1>1, <1>2, <1>3, <1>4

\* A memory is sound when a buffer is written that is nobody's but the getter's.
LEMMA WritingKeeps ==
  ASSUME NEW h, NEW view, NEW was, NEW g, NEW cs, Sound(h, view, was, g, cs),
         NEW r, NEW b, Writes(h, r, b), b = Getter \/ b \notin DOMAIN h
  PROVE  Sound(r, view, was, g, cs)
<1>1. b \notin Nat \/ b \notin DOMAIN h
  BY NamesDiffer
<1>2. \A c \in Clients : c # b \/ b \notin DOMAIN h
  BY NamesDiffer
<1>3. Within(r, view) /\ BytesOf(r, view) = BytesOf(h, view)
  BY <1>1, OthersStay DEF Sound
<1>4. g # NoBuffer => g \in DOMAIN r
  BY DEF Sound, Writes
<1>5. \A c \in Clients : IsClient(r, c, cs[c])
  BY <1>1, <1>2, OthersStay
<1>6. IsHeap(r)
  BY DEF Writes
<1> QED
  BY <1>3, <1>4, <1>5, <1>6 DEF Sound

\* What is collected is referred to by nobody.
LEMMA Collected ==
  ASSUME NEW h, NEW view, NEW was, NEW g, NEW cs, Sound(h, view, was, g, cs),
         Become(h, view, g, cs), loaded' = was
  PROVE  Inv'
<1> DEFINE used == {view.b, g} \cup UNION {Buffers(cs[c]) : c \in Clients}
           r    == heap'
<1>1. r = [b \in used \ {NoBuffer} |-> h[b]] /\ cached' = view /\ getter' = g /\ clients' = cs
  BY DEF Become
<1>2. used \subseteq DOMAIN h \cup {NoBuffer}
  <2>1. \A c \in Clients : Buffers(cs[c]) \subseteq DOMAIN h \cup {NoBuffer}
    BY ClientRefers DEF Sound
  <2>2. view.b \in DOMAIN h \cup {NoBuffer} /\ g \in DOMAIN h \cup {NoBuffer}
    BY DEF Sound, Within
  <2> QED
    BY <2>1, <2>2
<1>3. IsHeap(h) /\ NoBuffer \notin DOMAIN h
  BY DEF Sound, IsHeap
<1> HIDE DEF used, r
<1>4. IsHeap(r)
  <2>1. DOMAIN r \subseteq DOMAIN h /\ \A b \in DOMAIN r : r[b] = h[b]
    BY <1>1, <1>2
  <2>2. IsFiniteSet(DOMAIN r)
    BY <1>3, <2>1, FS_Subset DEF IsHeap
  <2>3. r = [b \in DOMAIN r |-> r[b]]
    BY <1>1
  <2> QED
    BY <1>3, <2>1, <2>2, <2>3 DEF IsHeap
<1>5. \A names : names \subseteq used => Keeps(h, r, names)
  BY <1>1, <1>3 DEF Keeps
<1>6. Within(r, view) /\ BytesOf(r, view) = BytesOf(h, view)
  <2>1. Within(h, view) /\ Keeps(h, r, {view.b})
    BY <1>5 DEF Sound, used
  <2> QED
    BY <2>1, ViewStays
<1>7. g # NoBuffer => g \in DOMAIN r
  BY <1>1 DEF used
<1>8. ASSUME NEW c \in Clients PROVE IsClient(r, c, cs[c])
  <2>1. IsClient(h, c, cs[c]) /\ Keeps(h, r, Buffers(cs[c]))
    BY <1>5 DEF Sound, used
  <2> QED
    BY <2>1, ClientStays
<1>9. Sound(r, view, was, g, cs)
  BY <1>4, <1>6, <1>7, <1>8 DEF Sound
<1> QED
  BY <1>1, <1>9 DEF Inv, r

LEMMA OtherClients ==
  ASSUME NEW h, NEW view, NEW was, NEW g, NEW cs, Sound(h, view, was, g, cs), NEW ds,
         ds = [c \in Clients |-> ds[c]], \A c \in Clients : IsClient(h, c, ds[c])
  PROVE  Sound(h, view, was, g, ds)
BY DEF Sound

LEMMA OtherView ==
  ASSUME NEW h, NEW view, NEW was, NEW g, NEW cs, Sound(h, view, was, g, cs)
  PROVE  /\ \A v, bytes : Shared(h, v, bytes) => Sound(h, v, bytes, g, cs)
         /\ Sound(h, NoView, <<>>, g, cs)
<1>1. <<Junk>> \in Seq(Byte) /\ <<>> \in Seq(Byte)
  BY DEF Byte
<1>2. Within(h, NoView) /\ NoView.b \in Nat
  BY <1>1, StringView DEF NoView, Shared
<1> QED
  BY <1>1, <1>2 DEF Sound, Shared

LEMMA InitInv == SinksInit => Inv
<1> SUFFICES ASSUME SinksInit PROVE Inv
  OBVIOUS
<1>1. DOMAIN heap = {} /\ heap = [b \in {} |-> b] /\ IsFiniteSet({})
  BY FS_EmptySet DEF SinksInit
<1>2. IsHeap(heap)
  BY <1>1 DEF IsHeap
<1>3. <<Junk>> \in Seq(Byte) /\ <<>> \in Seq(Byte)
  BY DEF Byte
<1>4. Within(heap, NoView) /\ NoView.b \in Nat
  BY <1>3, StringView DEF NoView, Shared
<1>5. \A c \in Clients : IsClient(heap, c, NoGet)
  BY DEF IsClient
<1> QED
  BY <1>2, <1>3, <1>4, <1>5 DEF SinksInit, Inv, Sound

-----------------------------------------------------------------------------
(* Steps.                                                                  *)

LEMMA AtGet ==
  ASSUME Inv, NEW c \in Clients, IsAt(c, "get")
  PROVE  /\ clients[c].kind \in Kinds
         /\ Ready(heap, c, clients[c].kind, clients[c].dst)
BY DEF Inv, Sound, IsClient, IsAt, NoGet

LEMMA AtDone ==
  ASSUME Inv, NEW c \in Clients, IsAt(c, "done")
  PROVE  /\ clients[c] \in [pc : {"done"}, kind : Kinds, dst : Views, want : Seq(Byte)]
         /\ Filled(heap, c, clients[c].kind, clients[c].dst, clients[c].want)
BY DEF Inv, Sound, IsClient, IsAt, NoGet

\* A client for a client.
LEMMA ClientReplaced ==
  ASSUME NEW h, NEW cs, cs = [d \in Clients |-> cs[d]], NEW c \in Clients, NEW client,
         IsClient(h, c, client), \A d \in Clients \ {c} : IsClient(h, d, cs[d]),
         NEW ds, ds = [cs EXCEPT ![c] = client]
  PROVE  ds = [d \in Clients |-> ds[d]] /\ \A d \in Clients : IsClient(h, d, ds[d])
<1>1. DOMAIN cs = Clients
  OBVIOUS
<1> QED
  BY <1>1

LEMMA GetKeeps ==
  ASSUME Inv, NEW c \in Clients, NEW kind \in Kinds, GetInto(c, kind)
  PROVE  Inv'
<1>1. /\ IsHeap(heap) /\ Within(heap, cached) /\ cached.b \in Nat
      /\ clients = [d \in Clients |-> clients[d]]
      /\ \A d \in Clients : IsClient(heap, d, clients[d])
  BY DEF Inv, Sound
<1>2. CASE kind # "trunc"
  <2> DEFINE client == [pc |-> "get", kind |-> kind, dst |-> OfString(<<>>)]
  <2>1. /\ clients' = [clients EXCEPT ![c] = client]
        /\ heap' = heap /\ cached' = cached /\ loaded' = loaded /\ getter' = getter
    BY <1>2 DEF GetInto
  <2>2. Within(heap, OfString(<<>>)) /\ OfString(<<>>).b = NoBuffer /\ OfString(<<>>) \in Views
    <3>1. <<>> \in Seq(Byte)
      OBVIOUS
    <3>2. Shared(heap, OfString(<<>>), <<>>) /\ OfString(<<>>).b = NoBuffer
      BY <3>1, StringView
    <3> QED
      BY <3>2 DEF Shared, Within
  <2>3. IsClient(heap, c, client)
    <3>1. client \in [pc : {"get"}, kind : Kinds, dst : Views]
      BY <2>2
    <3>2. Ready(heap, c, client.kind, client.dst)
      BY <1>2, <2>2 DEF Ready
    <3> QED
      BY <3>1, <3>2 DEF IsClient
  <2> HIDE DEF client
  <2>4. clients' = [d \in Clients |-> clients'[d]] /\ \A d \in Clients : IsClient(heap, d, clients'[d])
    BY <1>1, <2>1, <2>3, ClientReplaced
  <2>5. Sound(heap, cached, loaded, getter, clients')
    BY <2>4, OtherClients DEF Inv
  <2> QED
    BY <2>1, <2>5 DEF Inv
<1>3. CASE kind = "trunc"
  <2>1. PICK n \in DstLengths :
          /\ Become(New(heap, c, [i \in 1 .. n |-> Junk]), cached, getter,
                    [clients EXCEPT ![c] = [pc |-> "get", kind |-> kind,
                                            dst |-> OfBuffer(c, [i \in 1 .. n |-> Junk])]])
          /\ UNCHANGED loaded
    BY <1>3 DEF GetInto
  <2> DEFINE slice  == [i \in 1 .. n |-> Junk]
             client == [pc |-> "get", kind |-> kind, dst |-> OfBuffer(c, slice)]
             h      == New(heap, c, slice)
             cs     == [clients EXCEPT ![c] = client]
  <2>2. slice \in Seq(Byte)
    BY SinksAssumption DEF Byte
  <2> HIDE DEF slice
  <2>3. Writes(heap, h, c) /\ c \in DOMAIN h /\ h[c] = slice
    <3>1. c \in Names \ {NoBuffer}
      BY NamesDiffer DEF Names
    <3> QED
      BY <1>1, <2>2, <3>1, NewBuffer
  <2> HIDE DEF h
  <2>4. IsHeap(h)
    BY <2>3 DEF Writes
  <2>5. IsClient(h, c, client)
    <3>1. /\ Within(h, OfBuffer(c, slice)) /\ OfBuffer(c, slice).b = c
          /\ OfBuffer(c, slice).from = 0 /\ OfBuffer(c, slice).to = Len(slice)
          /\ OfBuffer(c, slice) \in Views
      BY <2>3, <2>4, BufferView DEF Within
    <3>2. client \in [pc : {"get"}, kind : Kinds, dst : Views]
      BY <3>1
    <3>3. Ready(h, c, client.kind, client.dst)
      BY <1>3, <2>3, <3>1 DEF Ready, Owned
    <3> QED
      BY <3>2, <3>3 DEF IsClient
  <2>6. /\ Within(h, cached) /\ BytesOf(h, cached) = BytesOf(heap, cached)
        /\ getter # NoBuffer => getter \in DOMAIN h
        /\ \A d \in Clients \ {c} : IsClient(h, d, clients[d])
    <3>1. c \notin Nat
      BY NamesDiffer
    <3> QED
      BY <1>1, <2>3, <3>1, OthersStay DEF Inv
  <2> HIDE DEF client
  <2>7. cs = [d \in Clients |-> cs[d]] /\ \A d \in Clients : IsClient(h, d, cs[d])
    BY <1>1, <2>5, <2>6, ClientReplaced
  <2> HIDE DEF cs
  <2>8. Sound(h, cached, loaded, getter, cs)
    BY <2>4, <2>6, <2>7 DEF Inv, Sound
  <2>9. Become(h, cached, getter, cs) /\ loaded' = loaded
    BY <2>1 DEF h, cs, client, slice
  <2> QED
    BY <2>8, <2>9, Collected
<1> QED
  BY <1>2, <1>3

LEMMA HitKeeps ==
  ASSUME Inv, NEW c \in Clients, Hit(c)
  PROVE  Inv'
<1> DEFINE client == WithView(clients[c], cached, BytesOf(heap, cached))
<1>1. /\ clients = [d \in Clients |-> clients[d]]
      /\ \A d \in Clients : IsClient(heap, d, clients[d])
      /\ clients[c].pc = "get"
      /\ IsHeap(heap) /\ Within(heap, cached) /\ cached.b \in Nat
  BY DEF Inv, Sound, Hit, IsAt
<1>2. Shared(heap, cached, BytesOf(heap, cached))
  BY <1>1, BytesOfView DEF Shared
<1>3. IsClient(heap, c, client)
  BY <1>1, <1>2, ClientWithView
<1> HIDE DEF client
<1>4. /\ clients' = [clients EXCEPT ![c] = client]
      /\ heap' = heap /\ cached' = cached /\ loaded' = loaded /\ getter' = getter
  BY DEF Hit, client
<1>5. clients' = [d \in Clients |-> clients'[d]] /\ \A d \in Clients : IsClient(heap, d, clients'[d])
  BY <1>1, <1>3, <1>4, ClientReplaced
<1>6. Sound(heap, cached, loaded, getter, clients')
  BY <1>5, OtherClients DEF Inv
<1> QED
  BY <1>4, <1>6 DEF Inv

\* A view in a buffer of its own.
LEMMA NewView ==
  ASSUME NEW h, NEW view, NEW was, NEW g, NEW cs, Sound(h, view, was, g, cs),
         NEW bytes \in Seq(Byte), NEW r, r = New(h, Free(h), bytes)
  PROVE  Sound(r, view, was, g, cs) /\ Shared(r, OfBuffer(Free(h), bytes), bytes)
<1> DEFINE b == Free(h)
<1>1. IsHeap(h)
  BY DEF Sound
<1>2. b \in Nat /\ b # NoBuffer /\ b \in Names \ {NoBuffer} /\ b \notin DOMAIN h
  BY <1>1, FreeName DEF Names, NoBuffer
<1> HIDE DEF b
<1>3. Writes(h, r, b) /\ b \in DOMAIN r /\ r[b] = bytes
  BY <1>1, <1>2, NewBuffer DEF b
<1>4. Sound(r, view, was, g, cs)
  BY <1>2, <1>3, WritingKeeps
<1>5. Shared(r, OfBuffer(b, bytes), bytes)
  BY <1>2, <1>3, BufferView DEF Shared, Writes
<1> QED
  BY <1>4, <1>5 DEF b

LEMMA LoadLocallyKeeps ==
  ASSUME Inv, NEW c \in Clients, NEW how, NEW bytes \in Contents, NEW sharers \in Sharers(c),
         LoadLocally(c, how, bytes, sharers)
  PROVE  Inv'
<1> DEFINE kind == clients[c].kind
           dst  == clients[c].dst
           g    == IF how = "SetBytes" THEN Getter ELSE getter
           h0   == IF how = "SetBytes" THEN New(heap, Getter, bytes) ELSE heap
           view == IF KeepsString(kind, how) THEN OfString(bytes) ELSE OfBuffer(Free(h0), bytes)
           h1   == IF KeepsString(kind, how) THEN h0 ELSE New(h0, Free(h0), bytes)
           set  == SetDst(h1, c, kind, dst, view)
           h    == set.heap
           cs   == [d \in Clients |-> IF d = c THEN WithDst(clients[d], set.dst, bytes)
                                      ELSE IF d \in sharers THEN WithView(clients[d], view, bytes)
                                      ELSE clients[d]]
<1>1. Become(h, view, g, cs) /\ loaded' = bytes
  BY DEF LoadLocally
<1>2. bytes \in Seq(Byte) /\ kind \in Kinds /\ Sound(heap, cached, loaded, getter, clients)
  BY AtGet, SinksAssumption DEF LoadLocally, Inv
<1>3. \A d \in sharers : d \in Clients \ {c} /\ clients[d].pc = "get"
  BY DEF Sharers, IsAt
<1>4. Sound(h0, cached, loaded, g, clients)
  <2>1. CASE how = "SetBytes"
    <3>1. Getter \in Names \ {NoBuffer} /\ IsHeap(heap)
      BY <1>2, NamesDiffer DEF Names, Sound
    <3>2. Writes(heap, h0, Getter) /\ Getter \in DOMAIN h0
      BY <1>2, <2>1, <3>1, NewBuffer
    <3> HIDE DEF h0
    <3>3. Sound(h0, cached, loaded, getter, clients)
      BY <1>2, <3>2, WritingKeeps
    <3> QED
      BY <2>1, <3>2, <3>3 DEF Sound
  <2> QED
    BY <1>2, <2>1
<1> HIDE DEF g, h0
<1>5. Sound(h1, cached, loaded, g, clients) /\ Shared(h1, view, bytes)
  <2>1. CASE KeepsString(kind, how)
    BY <1>2, <1>4, <2>1, StringView
  <2>2. CASE ~KeepsString(kind, how)
    BY <1>2, <1>4, <2>2, NewView
  <2> QED
    BY <2>1, <2>2
<1> HIDE DEF view, h1
<1>6. IsHeap(h1) /\ Ready(h1, c, kind, dst)
  BY <1>5 DEF Sound, IsClient, IsAt, NoGet, LoadLocally
<1> HIDE DEF kind, dst
<1>7. DstIsSet(h1, c, kind, bytes, set)
  BY <1>2, <1>5, <1>6, SettingDst
<1> HIDE DEF set
<1>8. Writes(h1, h, c) /\ Filled(h, c, kind, set.dst, bytes)
  BY <1>7 DEF DstIsSet
<1> HIDE DEF h
<1>9. /\ Shared(h, view, bytes)
      /\ g # NoBuffer => g \in DOMAIN h
      /\ \A d \in Clients \ {c} : IsClient(h, d, clients[d])
  <2>1. c \notin Nat
    BY NamesDiffer
  <2> QED
    BY <1>5, <1>8, <2>1, OthersStay
<1>10. \A d \in Clients : IsClient(h, d, cs[d])
  <2> SUFFICES ASSUME NEW d \in Clients PROVE IsClient(h, d, cs[d])
    OBVIOUS
  <2>1. CASE d = c
    BY <1>2, <1>8, <2>1, ClientWithDst DEF kind
  <2>2. CASE d # c /\ d \in sharers
    BY <1>3, <1>9, <2>2, ClientWithView
  <2>3. CASE d # c /\ d \notin sharers
    BY <1>9, <2>3
  <2> QED
    BY <2>1, <2>2, <2>3
<1>11. cs = [d \in Clients |-> cs[d]]
  OBVIOUS
<1> HIDE DEF cs
<1>12. Sound(h, view, bytes, g, cs)
  BY <1>5, <1>8, <1>9, <1>10, <1>11 DEF Sound, Shared, Writes
<1> QED
  BY <1>1, <1>12, Collected

LEMMA LoadLocallyFailsKeeps ==
  ASSUME Inv, NEW c \in Clients, NEW bytes, NEW sharers, LoadLocallyFails(c, bytes, sharers)
  PROVE  Inv'
<1> DEFINE cs == [d \in Clients |-> IF d \in sharers \cup {c} THEN NoGet ELSE clients[d]]
<1>1. cs = [d \in Clients |-> cs[d]] /\ \A d \in Clients : IsClient(heap, d, cs[d])
  BY DEF Inv, Sound, IsClient
<1>2. Become(heap, cached, getter, cs) /\ loaded' = loaded
  BY DEF LoadLocallyFails
<1> HIDE DEF cs
<1>3. Sound(heap, cached, loaded, getter, cs)
  BY <1>1, OtherClients DEF Inv
<1> QED
  BY <1>2, <1>3, Collected

LEMMA LoadFromPeerKeeps ==
  ASSUME Inv, NEW c \in Clients, NEW bytes \in Contents, NEW sharers \in Sharers(c),
         LoadFromPeer(c, bytes, sharers)
  PROVE  Inv'
<1> DEFINE view == OfBuffer(Free(heap), bytes)
           h    == New(heap, Free(heap), bytes)
           cs   == [d \in Clients |-> IF d \in sharers \cup {c}
                                      THEN WithView(clients[d], view, bytes) ELSE clients[d]]
<1>1. PICK hot \in BOOLEAN : /\ Become(h, IF hot THEN view ELSE NoView, getter, cs)
                             /\ loaded' = IF hot THEN bytes ELSE <<>>
  BY DEF LoadFromPeer
<1>2. bytes \in Seq(Byte) /\ Sound(heap, cached, loaded, getter, clients)
  BY SinksAssumption DEF Inv
<1>3. \A d \in sharers \cup {c} : d \in Clients /\ clients[d].pc = "get"
  BY DEF Sharers, IsAt, LoadFromPeer
<1>4. Sound(h, cached, loaded, getter, clients) /\ Shared(h, view, bytes)
  BY <1>2, NewView
<1> HIDE DEF view, h
<1>5. \A d \in Clients : IsClient(h, d, clients[d])
  BY <1>4 DEF Sound
<1>6. \A d \in Clients : IsClient(h, d, cs[d])
  <2> SUFFICES ASSUME NEW d \in Clients PROVE IsClient(h, d, cs[d])
    OBVIOUS
  <2>1. CASE d \in sharers \cup {c}
    BY <1>3, <1>4, <1>5, <2>1, ClientWithView
  <2>2. CASE d \notin sharers \cup {c}
    BY <1>5, <2>2
  <2> QED
    BY <2>1, <2>2
<1>7. cs = [d \in Clients |-> cs[d]]
  OBVIOUS
<1> HIDE DEF cs
<1>8. Sound(h, cached, loaded, getter, cs)
  BY <1>4, <1>6, <1>7, OtherClients
<1>9. CASE hot
  <2>1. Sound(h, view, bytes, getter, cs)
    BY <1>4, <1>8, OtherView
  <2> QED
    BY <1>1, <1>9, <2>1, Collected
<1>10. CASE ~hot
  <2>1. Sound(h, NoView, <<>>, getter, cs)
    BY <1>8, OtherView
  <2> QED
    BY <1>1, <1>10, <2>1, Collected
<1> QED
  BY <1>9, <1>10

\* A sink is set from a view that is shared; only the client's buffer is written.
LEMMA setSinkViewKeeps ==
  ASSUME Inv, NEW c \in Clients, setSinkView(c)
  PROVE  Inv'
<1> DEFINE client == clients[c]
           set    == SetDst(heap, c, client.kind, client.dst, client.view)
           h      == set.heap
           done   == WithDst(client, set.dst, client.want)
           cs     == [clients EXCEPT ![c] = done]
           idle   == [clients EXCEPT ![c] = NoGet]
<1>1. loaded' = loaded /\ \/ Become(h, cached, getter, cs) \/ Become(heap, cached, getter, idle)
  BY DEF setSinkView
<1>2. /\ client.kind \in Kinds /\ Ready(heap, c, client.kind, client.dst)
      /\ Shared(heap, client.view, client.want)
  BY DEF setSinkView, IsAt, Inv, Sound, IsClient, NoGet
<1>3. /\ IsHeap(heap) /\ Within(heap, cached) /\ cached.b \in Nat
      /\ clients = [d \in Clients |-> clients[d]]
      /\ \A d \in Clients : IsClient(heap, d, clients[d])
  BY DEF Inv, Sound
<1> HIDE DEF client
<1>4. DstIsSet(heap, c, client.kind, client.want, set)
  BY <1>2, <1>3, SettingDst
<1> HIDE DEF set
<1>5. Writes(heap, h, c) /\ Filled(h, c, client.kind, set.dst, client.want)
  BY <1>4 DEF DstIsSet
<1> HIDE DEF h
<1>6. IsClient(h, c, done)
  BY <1>2, <1>5, ClientWithDst
<1> HIDE DEF done
<1>7. /\ Within(h, cached) /\ BytesOf(h, cached) = BytesOf(heap, cached)
      /\ getter # NoBuffer => getter \in DOMAIN h
      /\ \A d \in Clients \ {c} : IsClient(h, d, clients[d])
  <2>1. c \notin Nat
    BY NamesDiffer
  <2> QED
    BY <1>3, <1>5, <2>1, OthersStay DEF Inv
<1>8. cs = [d \in Clients |-> cs[d]] /\ \A d \in Clients : IsClient(h, d, cs[d])
  BY <1>3, <1>6, <1>7, ClientReplaced
<1>9. idle = [d \in Clients |-> idle[d]] /\ \A d \in Clients : IsClient(heap, d, idle[d])
  BY <1>3 DEF IsClient
<1> HIDE DEF cs, idle
<1>10. Sound(h, cached, loaded, getter, cs)
  BY <1>5, <1>7, <1>8 DEF Inv, Sound, Writes
<1>11. Sound(heap, cached, loaded, getter, idle)
  BY <1>9, OtherClients DEF Inv
<1> QED
  BY <1>1, <1>10, <1>11, Collected

LEMMA DropViewKeeps ==
  ASSUME Inv, DropView
  PROVE  Inv'
<1>1. Sound(heap, NoView, <<>>, getter, clients)
  BY OtherView DEF Inv
<1> QED
  BY <1>1, Collected DEF DropView

\* A buffer that is written again.
LEMMA OverwrittenBuffer ==
  ASSUME NEW h, IsHeap(h), NEW b \in DOMAIN h
  PROVE  Writes(h, Overwritten(h, b), b)
<1> DEFINE bytes == [i \in DOMAIN h[b] |-> Junk]
<1>1. h[b] \in Seq(Byte)
  BY DEF IsHeap
<1>2. bytes \in Seq(Byte)
  BY <1>1, LenProperties DEF Byte
<1> HIDE DEF bytes
<1>3. Overwritten(h, b) = [h EXCEPT ![b] = bytes]
  BY DEF Overwritten, bytes
<1> QED
  BY <1>2, <1>3, WrittenBuffer

LEMMA WriteBufferKeeps ==
  ASSUME Inv, WriteBuffer
  PROVE  Inv'
<1> DEFINE h == Overwritten(heap, getter)
<1>1. getter = Getter /\ getter \in DOMAIN heap /\ IsHeap(heap)
  BY DEF WriteBuffer, Inv, Sound
<1>2. Writes(heap, h, Getter)
  BY <1>1, OverwrittenBuffer
<1> HIDE DEF h
<1>3. Sound(h, cached, loaded, getter, clients)
  BY <1>2, WritingKeeps DEF Inv
<1>4. Sound(h, cached, loaded, NoBuffer, clients)
  BY <1>3 DEF Sound
<1>5. Become(h, cached, NoBuffer, clients) /\ loaded' = loaded
  BY DEF WriteBuffer, h
<1> QED
  BY <1>4, <1>5, Collected

LEMMA WriteDstKeeps ==
  ASSUME Inv, NEW c \in Clients, WriteDst(c)
  PROVE  Inv'
<1> DEFINE h  == Overwritten(heap, clients[c].dst.b)
           cs == [clients EXCEPT ![c] = NoGet]
<1>1. /\ IsHeap(heap) /\ Within(heap, cached) /\ cached.b \in Nat
      /\ clients = [d \in Clients |-> clients[d]]
  BY DEF Inv, Sound
<1>2. Owned(heap, c, clients[c].dst)
  BY AtDone DEF WriteDst, Filled
<1>3. Writes(heap, h, c)
  <2>1. clients[c].dst.b = c /\ c \in DOMAIN heap
    BY <1>2, NamesDiffer DEF Owned, Within
  <2> QED
    BY <1>1, <2>1, OverwrittenBuffer
<1>4. Become(h, cached, getter, cs) /\ loaded' = loaded
  BY DEF WriteDst
<1> HIDE DEF h
<1>5. /\ Within(h, cached) /\ BytesOf(h, cached) = BytesOf(heap, cached)
      /\ getter # NoBuffer => getter \in DOMAIN h
      /\ \A d \in Clients \ {c} : IsClient(h, d, clients[d])
  <2>1. c \notin Nat
    BY NamesDiffer
  <2> QED
    BY <1>1, <1>3, <2>1, OthersStay DEF Inv
<1>6. cs = [d \in Clients |-> cs[d]] /\ \A d \in Clients : IsClient(h, d, cs[d])
  BY <1>1, <1>5 DEF IsClient
<1> HIDE DEF cs
<1>7. Sound(h, cached, loaded, getter, cs)
  BY <1>3, <1>5, <1>6 DEF Inv, Sound, Writes
<1> QED
  BY <1>4, <1>7, Collected

LEMMA LetGoKeeps ==
  ASSUME Inv, NEW c \in Clients, LetGo(c)
  PROVE  Inv'
<1> DEFINE cs == [clients EXCEPT ![c] = NoGet]
<1>1. cs = [d \in Clients |-> cs[d]] /\ \A d \in Clients : IsClient(heap, d, cs[d])
  BY DEF Inv, Sound, IsClient
<1>2. Become(heap, cached, getter, cs) /\ loaded' = loaded
  BY DEF LetGo
<1> HIDE DEF cs
<1>3. Sound(heap, cached, loaded, getter, cs)
  BY <1>1, OtherClients DEF Inv
<1> QED
  BY <1>2, <1>3, Collected

LEMMA ByteSliceKeeps ==
  ASSUME Inv, NEW c \in Clients, ByteSlice(c)
  PROVE  Inv'
<1> DEFINE bytes  == BytesOf(heap, clients[c].dst)
           h      == New(heap, c, bytes)
           client == [clients[c] EXCEPT !.kind = "alloc", !.dst = OfBuffer(c, bytes)]
           cs     == [clients EXCEPT ![c] = client]
<1>1. /\ IsHeap(heap) /\ Within(heap, cached) /\ cached.b \in Nat
      /\ clients = [d \in Clients |-> clients[d]]
      /\ c \in Names \ {NoBuffer} /\ c \notin Nat
  BY NamesDiffer DEF Inv, Sound, Names
<1>2. /\ clients[c] \in [pc : {"done"}, kind : Kinds, dst : Views, want : Seq(Byte)]
      /\ bytes \in Seq(Byte) /\ bytes = clients[c].want
  BY AtDone DEF ByteSlice, Filled, Shared
<1>3. Become(h, cached, getter, cs) /\ loaded' = loaded
  <2>1. [clients EXCEPT ![c].kind = "alloc", ![c].dst = OfBuffer(c, bytes)] = cs
    BY <1>1
  <2> QED
    BY <2>1 DEF ByteSlice
<1> HIDE DEF bytes
<1>4. Writes(heap, h, c) /\ c \in DOMAIN h /\ h[c] = bytes
  BY <1>1, <1>2, NewBuffer
<1> HIDE DEF h
<1>5. /\ Owned(h, c, OfBuffer(c, bytes)) /\ BytesOf(h, OfBuffer(c, bytes)) = bytes
      /\ OfBuffer(c, bytes) \in Views
  BY <1>4, BufferView DEF Owned, Within, Writes
<1>6. IsClient(h, c, client)
  <2>1. /\ client \in [pc : {"done"}, kind : Kinds, dst : Views, want : Seq(Byte)]
        /\ client.kind = "alloc" /\ client.dst = OfBuffer(c, bytes) /\ client.want = bytes
    BY <1>2, <1>5 DEF Kinds
  <2>2. Filled(h, c, client.kind, client.dst, client.want)
    BY <1>2, <1>5, <2>1 DEF Filled
  <2> QED
    BY <2>1, <2>2 DEF IsClient
<1> HIDE DEF client
<1>7. /\ Within(h, cached) /\ BytesOf(h, cached) = BytesOf(heap, cached)
      /\ getter # NoBuffer => getter \in DOMAIN h
      /\ \A d \in Clients \ {c} : IsClient(h, d, clients[d])
  BY <1>1, <1>4, OthersStay DEF Inv
<1>8. cs = [d \in Clients |-> cs[d]] /\ \A d \in Clients : IsClient(h, d, cs[d])
  BY <1>1, <1>6, <1>7, ClientReplaced
<1> HIDE DEF cs
<1>9. Sound(h, cached, loaded, getter, cs)
  BY <1>4, <1>7, <1>8 DEF Inv, Sound, Writes
<1> QED
  BY <1>3, <1>9, Collected

\* A part of a part of s.
PartIsPart(s, i, j, m, n) ==
  SubSeq(SubSeq(s, i + 1, j), m + 1, n) = SubSeq(s, i + m + 1, i + n)

LEMMA PartOfPart ==
  ASSUME NEW s \in Seq(Byte), NEW i \in Nat, NEW j \in Nat, i <= j, j <= Len(s),
         NEW m \in Nat, NEW n \in Nat, m <= n, n <= j - i
  PROVE  PartIsPart(s, i, j, m, n)
<1>1. Len(s) \in Nat
  BY LenProperties
<1>2. CASE m = n
  BY <1>2, SubSeqEmpty DEF PartIsPart
<1>3. CASE m < n
  <2>1. /\ i + 1 \in 1 .. Len(s) /\ j \in 1 .. Len(s)
        /\ m + 1 \in 1 .. j - (i + 1) + 1 /\ n \in 1 .. j - (i + 1) + 1
    BY <1>1, <1>3
  <2>2. SubSeq(SubSeq(s, i + 1, j), m + 1, n)
          = SubSeq(s, (i + 1) + (m + 1) - 1, (i + 1) + n - 1)
    BY <2>1, SubSeqOfSubSeq
  <2>3. (i + 1) + (m + 1) - 1 = i + m + 1 /\ (i + 1) + n - 1 = i + n
    OBVIOUS
  <2> QED
    BY <2>2, <2>3 DEF PartIsPart
<1> QED
  BY <1>2, <1>3

\* A part of a view has a part of its bytes.
LEMMA PartOfView ==
  ASSUME NEW h, IsHeap(h), NEW v, NEW bytes, Shared(h, v, bytes),
         NEW from \in Nat, NEW to \in Nat, from <= to, to <= Len(bytes),
         NEW w, w = IF v.b # NoBuffer
                    THEN [v EXCEPT !.from = v.from + from, !.to = v.from + to]
                    ELSE OfString(SubSeq(v.s, from + 1, to))
  PROVE  Shared(h, w, SubSeq(bytes, from + 1, to))
<1>1. v \in Views /\ v.b \in Nat /\ bytes \in Seq(Byte) /\ BytesOf(h, v) = bytes
      /\ v.from \in Nat /\ v.to \in Nat
  BY DEF Shared, Within, Views
<1>2. SubSeq(bytes, from + 1, to) \in Seq(Byte)
  <2>1. \A i \in from + 1 .. to : bytes[i] \in Byte
    BY <1>1, ElementOfSeq
  <2> QED
    BY <2>1, SubSeqProperties
<1>3. CASE v.b = NoBuffer
  <2>1. bytes = v.s /\ w = OfString(SubSeq(bytes, from + 1, to))
    BY <1>1, <1>3 DEF BytesOf
  <2> QED
    BY <1>2, <2>1, StringView
<1>4. CASE v.b # NoBuffer
  <2> DEFINE s == h[v.b]
  <2>1. s \in Seq(Byte) /\ v.from <= v.to /\ v.to <= Len(s) /\ v.b \in DOMAIN h
    BY <1>4 DEF Shared, Within, IsHeap
  <2> HIDE DEF s
  <2>2. bytes = SubSeq(s, v.from + 1, v.to)
    BY <1>1, <1>4 DEF BytesOf, s
  <2>3. to <= v.to - v.from
    <3>1. \A i \in v.from + 1 .. v.to : s[i] \in Byte
      BY <1>1, <2>1, ElementOfSeq
    <3>2. Len(bytes) = IF v.from + 1 <= v.to THEN v.to - (v.from + 1) + 1 ELSE 0
      BY <1>1, <2>2, <3>1, SubSeqProperties
    <3> QED
      BY <1>1, <2>1, <3>2
  <2>4. SubSeq(bytes, from + 1, to) = SubSeq(s, v.from + from + 1, v.from + to)
    <3> DEFINE i == v.from
               j == v.to
    <3>1. i \in Nat /\ j \in Nat /\ i <= j /\ j <= Len(s) /\ to <= j - i
      BY <1>1, <2>1, <2>3
    <3>2. bytes = SubSeq(s, i + 1, j)
      BY <2>2
    <3> HIDE DEF i, j
    <3>3. PartIsPart(s, i, j, from, to)
      BY <2>1, <3>1, PartOfPart
    <3> QED
      BY <3>2, <3>3 DEF PartIsPart, i
  <2>5. w \in Views /\ w.b = v.b /\ w.from = v.from + from /\ w.to = v.from + to
    <3> DEFINE i == v.from + from
               j == v.from + to
    <3>1. i \in Nat /\ j \in Nat
      BY <1>1
    <3>2. w = [v EXCEPT !.from = i, !.to = j]
      BY <1>4
    <3> HIDE DEF i, j
    <3>3. w \in Views /\ w.b = v.b /\ w.from = i /\ w.to = j
      BY <1>1, <3>1, <3>2 DEF Views
    <3> QED
      BY <3>3 DEF i, j
  <2>6. Len(s) \in Nat
    BY <2>1, LenProperties
  <2>7. v.from + from <= v.from + to /\ v.from + to <= Len(s)
    BY <1>1, <2>1, <2>3, <2>6
  <2>8. Within(h, w) /\ BytesOf(h, w) = SubSeq(s, v.from + from + 1, v.from + to)
    BY <1>4, <2>1, <2>5, <2>7 DEF Within, BytesOf, s
  <2> QED
    BY <1>1, <1>2, <2>4, <2>5, <2>8 DEF Shared
<1> QED
  BY <1>3, <1>4

LEMMA SliceKeeps ==
  ASSUME Inv, NEW c \in Clients, NEW part \in Parts, Slice(c, part.from, part.to)
  PROVE  Inv'
<1> DEFINE from   == part.from
           to     == part.to
           v      == clients[c].dst
           w      == IF v.b # NoBuffer
                     THEN [v EXCEPT !.from = v.from + from, !.to = v.from + to]
                     ELSE OfString(SubSeq(v.s, from + 1, to))
           bytes  == SubSeq(clients[c].want, from + 1, to)
           client == [clients[c] EXCEPT !.dst = w, !.want = bytes]
           cs     == [clients EXCEPT ![c] = client]
<1>1. /\ IsHeap(heap) /\ clients = [d \in Clients |-> clients[d]]
      /\ \A d \in Clients : IsClient(heap, d, clients[d])
  BY DEF Inv, Sound
<1>2. /\ clients[c] \in [pc : {"done"}, kind : Kinds, dst : Views, want : Seq(Byte)]
      /\ clients[c].kind = "view" /\ Shared(heap, v, clients[c].want)
  BY AtDone DEF Slice, Filled
<1>3. from \in Nat /\ to \in Nat /\ from <= to /\ to <= Len(clients[c].want)
  BY <1>2, SinksAssumption DEF Slice, Shared
<1>4. Become(heap, cached, getter, cs) /\ loaded' = loaded
  <2>1. [clients EXCEPT ![c].dst = w, ![c].want = SubSeq(@, from + 1, to)] = cs
    BY <1>1
  <2> QED
    BY <2>1 DEF Slice
<1> HIDE DEF from, to
<1>5. Shared(heap, w, bytes)
  BY <1>1, <1>2, <1>3, PartOfView
<1> HIDE DEF w, bytes
<1>6. IsClient(heap, c, client)
  <2>1. w \in Views /\ bytes \in Seq(Byte)
    BY <1>5 DEF Shared, Within
  <2>2. /\ client \in [pc : {"done"}, kind : Kinds, dst : Views, want : Seq(Byte)]
        /\ client.kind = "view" /\ client.dst = w /\ client.want = bytes
    BY <1>2, <2>1
  <2>3. Filled(heap, c, client.kind, client.dst, client.want)
    BY <1>5, <2>1, <2>2 DEF Filled
  <2> QED
    BY <2>2, <2>3 DEF IsClient
<1> HIDE DEF client
<1>7. cs = [d \in Clients |-> cs[d]] /\ \A d \in Clients : IsClient(heap, d, cs[d])
  BY <1>1, <1>6, ClientReplaced
<1> HIDE DEF cs
<1>8. Sound(heap, cached, loaded, getter, cs)
  BY <1>7, OtherClients DEF Inv
<1> QED
  BY <1>4, <1>8, Collected

LEMMA NextKeeps == Inv /\ [SinksNext]_sinkVars => Inv'
<1> SUFFICES ASSUME Inv, [SinksNext]_sinkVars PROVE Inv'
  OBVIOUS
<1>1. ASSUME NEW c \in Clients, NEW kind \in Kinds, GetInto(c, kind) PROVE Inv'
  BY <1>1, GetKeeps
<1>2. ASSUME NEW c \in Clients, Hit(c) \/ setSinkView(c) PROVE Inv'
  BY <1>2, HitKeeps, setSinkViewKeeps
<1>3. ASSUME NEW c \in Clients, Load(c) PROVE Inv'
  <2>1. PICK bytes \in Contents, sharers \in Sharers(c) :
          \/ \E how \in {"SetString", "SetBytes"} : LoadLocally(c, how, bytes, sharers)
          \/ LoadLocally(c, "SetProto", bytes, sharers)
          \/ LoadLocallyFails(c, bytes, sharers)
          \/ LoadFromPeer(c, bytes, sharers)
    BY <1>3 DEF Load
  <2> QED
    BY <2>1, LoadLocallyKeeps, LoadLocallyFailsKeeps, LoadFromPeerKeeps
<1>4. ASSUME NEW c \in Clients, Use(c) PROVE Inv'
  BY <1>4, WriteDstKeeps, LetGoKeeps, ByteSliceKeeps, SliceKeeps DEF Use
<1>5. ASSUME DropView \/ WriteBuffer PROVE Inv'
  BY <1>5, DropViewKeeps, WriteBufferKeeps
<1>6. ASSUME UNCHANGED sinkVars PROVE Inv'
  BY <1>6 DEF sinkVars, Inv
<1> QED
  BY <1>1, <1>2, <1>3, <1>4, <1>5, <1>6 DEF SinksNext

LEMMA Invariance == SinksSpec => []Inv
BY InitInv, NextKeeps, PTL DEF SinksSpec

\* What is cached stays what was loaded (byteview.go:26): no getter that writes
\* the buffer it gave to SetBytes, and no client that writes the slice it was
\* given, writes a buffer that a view is a part of.
THEOREM CachedBytesKept == SinksSpec => []CachedBytesStand
<1>1. Inv => CachedBytesStand
  BY DEF Inv, Sound, CachedBytesStand
<1> QED
  BY <1>1, Invariance, PTL

\* Every sink has the value that was loaded for it (sinks.go), whichever method
\* the getter called and of whose sink, until its client writes there.
THEOREM ValuesArrive == SinksSpec => []ClientsGetTheValue
<1>1. Inv => ClientsGetTheValue
  <2> SUFFICES ASSUME Inv, NEW c \in Clients
               PROVE  /\ IsAt(c, "done") =>
                           BytesOf(heap, clients[c].dst) =
                             IF clients[c].kind = "trunc"
                             THEN Prefix(clients[c].want, Len(heap[clients[c].dst.b]))
                             ELSE clients[c].want
                      /\ IsAt(c, "set") => BytesOf(heap, clients[c].view) = clients[c].want
    BY DEF ClientsGetTheValue
  <2>1. ASSUME IsAt(c, "done")
        PROVE  BytesOf(heap, clients[c].dst) =
                 IF clients[c].kind = "trunc"
                 THEN Prefix(clients[c].want, Len(heap[clients[c].dst.b]))
                 ELSE clients[c].want
    BY <2>1, AtDone DEF Filled, Shared, Owned, Kinds
  <2>2. ASSUME IsAt(c, "set")
        PROVE  BytesOf(heap, clients[c].view) = clients[c].want
    BY <2>2 DEF IsAt, Inv, Sound, IsClient, NoGet, Shared
  <2> QED
    BY <2>1, <2>2
<1> QED
  BY <1>1, Invariance, PTL
=============================================================================
