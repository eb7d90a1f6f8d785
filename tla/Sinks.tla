------------------------------- MODULE Sinks -------------------------------
(***************************************************************************)
(* The memory behind the values of groupcache: the sinks that a Get fills  *)
(* (src/groupcache/sinks.go) and the ByteViews that are cached and handed  *)
(* to those who share a flight (byteview.go).  A ByteView is immutable for *)
(* nobody writes the bytes it is made of: the getter, which may use its    *)
(* buffer again, and the callers, who own what they get, have copies.      *)
(*                                                                         *)
(* This is one key of one process.  What Group says of flights and of      *)
(* what the cache holds is abstracted: a load takes one step, and those    *)
(* who share it set their sinks later.                                     *)
(***************************************************************************)
EXTENDS Integers, Sequences, FiniteSets

CONSTANTS
  Clients,      \* goroutines that call Get
  Getter,       \* the getter of the group
  Contents,     \* what values may be: sequences of bytes
  Malformed,    \* those that are not the encoding of a message
  Junk,         \* a byte that is in none of them
  DstLengths,   \* how long the slices of TruncatingByteSliceSink are
  Parts         \* what Slice is called with

Byte == {Junk} \cup UNION {{bytes[i] : i \in DOMAIN bytes} : bytes \in Contents}

\* The names of buffers are not the numbers of others.
ASSUME SinksAssumption ==
  /\ Contents \subseteq Seq(Byte)
  /\ DstLengths \subseteq Nat
  /\ \A part \in Parts : part.from \in Nat /\ part.to \in Nat /\ part.from <= part.to
  /\ Getter \notin Clients /\ \A name \in Clients \cup {Getter} : name \notin Nat

VARIABLES
  heap,      \* the bytes of each buffer that is referred to
  cached,    \* the view the cache has, or NoView
  loaded,    \* history: the bytes it had when it was loaded
  getter,    \* the buffer that the getter has given to SetBytes, or NoBuffer
  clients    \* where each goroutine is, with its sink's dst, and history

sinkVars == <<heap, cached, loaded, getter, clients>>

Kinds == {"string", "view", "proto", "alloc", "trunc"}

NoBuffer == 0

\* A ByteView is a part of a buffer or a string; so is what a sink fills, be it
\* a string, a message, a view or a slice.
OfString(s)        == [b |-> NoBuffer, from |-> 0, to |-> 0, s |-> s]
OfBuffer(b, bytes) == [b |-> b, from |-> 0, to |-> Len(bytes), s |-> <<>>]

NoView == OfString(<<Junk>>)

BytesOf(h, v) == IF v.b # NoBuffer THEN SubSeq(h[v.b], v.from + 1, v.to) ELSE v.s

NoGet == [pc |-> "idle"]

SinksInit ==
  /\ heap = <<>>
  /\ cached = NoView /\ loaded = <<>>
  /\ getter = NoBuffer
  /\ clients = [c \in Clients |-> NoGet]

-----------------------------------------------------------------------------
(* Memory.                                                                 *)

\* A buffer for a view.  A client's slice and what the getter gives to SetBytes
\* are in buffers of their own, which have their names.
Free(h) == CHOOSE b \in 1 .. Cardinality(DOMAIN h) + 1 : b \notin DOMAIN h

New(h, b, bytes) == [x \in DOMAIN h \cup {b} |-> IF x = b THEN bytes ELSE h[x]]

\* The buffers that a goroutine refers to.
Buffers(client) ==
  CASE client.pc = "idle"            -> {}
    [] client.pc \in {"get", "done"} -> {client.dst.b}
    [] client.pc = "set"             -> {client.dst.b, client.view.b}

\* Memory that nobody refers to is collected.
Become(h, view, g, cs) ==
  LET used == {view.b, g} \cup UNION {Buffers(cs[c]) : c \in Clients}
  IN  /\ heap' = [b \in used \ {NoBuffer} |-> h[b]]
      /\ cached' = view /\ getter' = g /\ clients' = cs

Overwritten(h, b) == [h EXCEPT ![b] = [i \in DOMAIN @ |-> Junk]]

-----------------------------------------------------------------------------
(* The sinks.                                                              *)

Prefix(bytes, n) == SubSeq(bytes, 1, IF n < Len(bytes) THEN n ELSE Len(bytes))

\* Faulty: leaves dst as long as it was.
CopyToUnshrunk(h, dst, bytes) ==
  LET copied == Prefix(bytes, dst.to)
  IN  [heap |-> [h EXCEPT ![dst.b] = copied \o SubSeq(@, Len(copied) + 1, Len(@))],
       dst  |-> dst]

\* copy(*dst, bytes), which shrinks dst to them.
CopyTo(h, dst, bytes) ==
  LET copied == Prefix(bytes, dst.to)
  IN  [heap |-> [h EXCEPT ![dst.b] = copied \o SubSeq(@, Len(copied) + 1, Len(@))],
       dst  |-> [dst EXCEPT !.to = Len(copied)]]

\* A string or a message holds the bytes by itself, ...
AsString(h, bytes) == [heap |-> h, dst |-> OfString(bytes)]

\* ... a ByteView is the view that is cached, ...
setView(h, view) == [heap |-> h, dst |-> view]

\* ... and an allocating sink has a slice of its own, not that of its view.
setBytesOwned(h, c, bytes) == [heap |-> New(h, c, bytes), dst |-> OfBuffer(c, bytes)]

\* A string is kept as it is, for it is immutable; other bytes are cloned, or
\* marshalled, into a buffer that is the view's own.  protoSink clones all.
KeepsString(kind, how) ==
  \/ how = "SetString" /\ kind # "proto"
  \/ how = "SetBytes"  /\ kind = "string"

\* Faulty: the slice of allocBytesSink is that of its view.
SetDstShared(h, c, kind, dst, view) ==
  LET bytes == BytesOf(h, view)
  IN  CASE kind \in {"string", "proto"} -> AsString(h, bytes)
        [] kind = "view" \/ (kind = "alloc" /\ view.b # NoBuffer) -> setView(h, view)
        [] kind = "alloc" /\ view.b = NoBuffer -> setBytesOwned(h, c, bytes)
        [] kind = "trunc" -> CopyTo(h, dst, bytes)

\* What a sink has in its dst after it was set to a view, or to what became it.
SetDst(h, c, kind, dst, view) ==
  LET bytes == BytesOf(h, view)
  IN  CASE kind \in {"string", "proto"} -> AsString(h, bytes)
        [] kind = "view"  -> setView(h, view)
        [] kind = "alloc" -> setBytesOwned(h, c, bytes)
        [] kind = "trunc" -> CopyTo(h, dst, bytes)

\* protoSink returns the error of Unmarshal.
Refuses(kind, bytes) == kind = "proto" /\ bytes \in Malformed

-----------------------------------------------------------------------------

IsAt(c, pc) == clients[c].pc = pc

\* Get, with a new sink.
GetInto(c, kind) ==
  /\ IsAt(c, "idle")
  /\ \/ /\ kind # "trunc"
        /\ clients' = [clients EXCEPT ![c] =
                         [pc |-> "get", kind |-> kind, dst |-> OfString(<<>>)]]
        /\ UNCHANGED <<heap, cached, loaded, getter>>
     \/ \E n \in DstLengths :
          LET slice == [i \in 1 .. n |-> Junk]
          IN  /\ kind = "trunc"
              /\ Become(New(heap, c, slice), cached, getter,
                        [clients EXCEPT ![c] = [pc |-> "get", kind |-> kind,
                                                dst |-> OfBuffer(c, slice)]])
              /\ UNCHANGED loaded

\* A Get has the value of its key, and goes on to set its sink.
WithView(client, view, bytes) ==
  [pc |-> "set", kind |-> client.kind, dst |-> client.dst, view |-> view, want |-> bytes]

\* Its sink is set.
WithDst(client, dst, bytes) ==
  [pc |-> "done", kind |-> client.kind, dst |-> dst, want |-> bytes]

\* lookupCache finds the key.
Hit(c) ==
  /\ IsAt(c, "get") /\ cached # NoView
  /\ clients' = [clients EXCEPT ![c] = WithView(@, cached, BytesOf(heap, cached))]
  /\ UNCHANGED <<heap, cached, loaded, getter>>

\* Those who may share a flight of c.
Sharers(c) == SUBSET {d \in Clients \ {c} : IsAt(d, "get")}

\* LoadLocally: the getter calls a Set method of the sink of the Get that leads,
\* whose view is cached and goes to those who share the flight.
LoadLocally(c, how, bytes, sharers) ==
  LET kind == clients[c].kind
      h0   == IF how = "SetBytes" THEN New(heap, Getter, bytes) ELSE heap
      view == IF KeepsString(kind, how) THEN OfString(bytes) ELSE OfBuffer(Free(h0), bytes)
      h1   == IF KeepsString(kind, how) THEN h0 ELSE New(h0, Free(h0), bytes)
      set  == SetDst(h1, c, kind, clients[c].dst, view)
  IN  /\ IsAt(c, "get") /\ cached = NoView
      /\ ~Refuses(kind, bytes)
      /\ Become(set.heap, view, IF how = "SetBytes" THEN Getter ELSE getter,
                [d \in Clients |-> IF d = c THEN WithDst(clients[d], set.dst, bytes)
                                   ELSE IF d \in sharers THEN WithView(clients[d], view, bytes)
                                   ELSE clients[d]])
      /\ loaded' = bytes

\* The sink of the Get that leads refuses what the getter gives it.
LoadLocallyFails(c, bytes, sharers) ==
  /\ IsAt(c, "get") /\ cached = NoView
  /\ Refuses(clients[c].kind, bytes)
  /\ Become(heap, cached, getter,
            [d \in Clients |-> IF d \in sharers \cup {c} THEN NoGet ELSE clients[d]])
  /\ UNCHANGED loaded

\* LoadFromPeer: the bytes of the answer are the view, which is cached or not.
LoadFromPeer(c, bytes, sharers) ==
  LET view == OfBuffer(Free(heap), bytes)
  IN  /\ IsAt(c, "get") /\ cached = NoView
      /\ \E hot \in BOOLEAN :
           /\ Become(New(heap, Free(heap), bytes), IF hot THEN view ELSE NoView, getter,
                     [d \in Clients |-> IF d \in sharers \cup {c}
                                        THEN WithView(clients[d], view, bytes)
                                        ELSE clients[d]])
           /\ loaded' = IF hot THEN bytes ELSE <<>>

\* What setSinkView does with a Get that has its view.
setSinkView(c) ==
  LET client == clients[c]
      set    == SetDst(heap, c, client.kind, client.dst, client.view)
  IN  /\ IsAt(c, "set")
      /\ \/ /\ ~Refuses(client.kind, client.want)
            /\ Become(set.heap, cached, getter,
                      [clients EXCEPT ![c] = WithDst(@, set.dst, client.want)])
         \/ /\ Refuses(client.kind, client.want)
            /\ Become(heap, cached, getter, [clients EXCEPT ![c] = NoGet])
      /\ UNCHANGED loaded

-----------------------------------------------------------------------------
(* What is done with the values.                                           *)

DropView ==
  /\ cached # NoView
  /\ Become(heap, NoView, getter, clients)
  /\ loaded' = <<>>

\* The getter retains ownership of what it gave to SetBytes, and uses it again.
WriteBuffer ==
  /\ getter # NoBuffer
  /\ Become(Overwritten(heap, getter), cached, NoBuffer, clients)
  /\ UNCHANGED loaded

\* So does a client with its slice.
WriteDst(c) ==
  /\ IsAt(c, "done") /\ clients[c].kind \in {"alloc", "trunc"}
  /\ Become(Overwritten(heap, clients[c].dst.b), cached, getter,
            [clients EXCEPT ![c] = NoGet])
  /\ UNCHANGED loaded

LetGo(c) ==
  /\ IsAt(c, "done")
  /\ Become(heap, cached, getter, [clients EXCEPT ![c] = NoGet])
  /\ UNCHANGED loaded

\* ByteSlice gives a slice that may be written, ...
ByteSlice(c) ==
  LET bytes == BytesOf(heap, clients[c].dst)
  IN  /\ IsAt(c, "done") /\ clients[c].kind = "view"
      /\ Become(New(heap, c, bytes), cached, getter,
                [clients EXCEPT ![c].kind = "alloc", ![c].dst = OfBuffer(c, bytes)])
      /\ UNCHANGED loaded

\* ... Slice a view of a part of the same bytes.
Slice(c, from, to) ==
  LET v == clients[c].dst
  IN  /\ IsAt(c, "done") /\ clients[c].kind = "view"
      /\ to <= Len(BytesOf(heap, v))
      /\ Become(heap, cached, getter,
           [clients EXCEPT
              ![c].dst = IF v.b # NoBuffer
                         THEN [v EXCEPT !.from = v.from + from, !.to = v.from + to]
                         ELSE OfString(SubSeq(v.s, from + 1, to)),
              ![c].want = SubSeq(@, from + 1, to)])
      /\ UNCHANGED loaded

-----------------------------------------------------------------------------

Load(c) ==
  \E bytes \in Contents, sharers \in Sharers(c) :
    \/ \E how \in {"SetString", "SetBytes"} : LoadLocally(c, how, bytes, sharers)
    \/ bytes \notin Malformed /\ LoadLocally(c, "SetProto", bytes, sharers)
    \/ LoadLocallyFails(c, bytes, sharers)
    \/ LoadFromPeer(c, bytes, sharers)

Use(c) ==
  \/ WriteDst(c) \/ LetGo(c) \/ ByteSlice(c)
  \/ \E part \in Parts : Slice(c, part.from, part.to)

SinksNext ==
  \/ \E c \in Clients :
       (\E kind \in Kinds : GetInto(c, kind)) \/ Hit(c) \/ Load(c) \/ setSinkView(c) \/ Use(c)
  \/ DropView \/ WriteBuffer

SinksSpec == SinksInit /\ [][SinksNext]_sinkVars

-----------------------------------------------------------------------------

\* What is cached stays what was loaded (byteview.go:26), though the getter
\* writes its buffer, and clients the slices they got, while the view is in the
\* cache or on its way to those who share a flight.
CachedBytesStand == cached # NoView => BytesOf(heap, cached) = loaded

\* A client has what was loaded for it, in every kind of sink and whichever
\* method of another sink the getter called: all of it, or what fits a slice of
\* its own, "shrunk to fit" (sinks.go:282), until it writes there itself.
ClientsGetTheValue ==
  \A c \in Clients :
    /\ IsAt(c, "done") =>
         BytesOf(heap, clients[c].dst) =
           IF clients[c].kind = "trunc"
           THEN Prefix(clients[c].want, Len(heap[clients[c].dst.b]))
           ELSE clients[c].want
    /\ IsAt(c, "set") => BytesOf(heap, clients[c].view) = clients[c].want
=============================================================================
