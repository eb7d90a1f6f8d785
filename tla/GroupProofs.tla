---------------------------- MODULE GroupProofs ----------------------------
(***************************************************************************)
(* Group for any number of processes, callers, keys and hops: loads are    *)
(* single, a key is in one cache of a process, whose bytes are exact, and  *)
(* the statistics add up.                                                  *)
(***************************************************************************)
EXTENDS Group, FiniteSetTheorems, SequenceTheorems, WellFoundedInduction, FunctionTheorems, TLAPS

Whiches == {"main", "hot"}

\* A Get that has no outcome yet, one that has, and one that has read the bytes
\* of the main cache.
Short ==
  [pc : {"main", "hot", "load", "wait", "pick", "remote", "local"},
   peer : Peers, key : Keys, leads : BOOLEAN, asked : BOOLEAN]
Ended ==
  [pc : {"main bytes", "evict main", "evict hot", "finish", "forget", "answer"},
   peer : Peers, key : Keys, leads : BOOLEAN, asked : BOOLEAN, ok : BOOLEAN]
Counting ==
  [pc : {"hot bytes"},
   peer : Peers, key : Keys, leads : BOOLEAN, asked : BOOLEAN, ok : BOOLEAN, mainBytes : Int]

Busy  == Short \cup Ended \cup Counting
Steps == {Idle} \cup Busy

CacheSet == [keys : Seq(Keys), nbytes : Int]

IsRing(r) == DOMAIN r \subseteq Nat /\ \A point \in DOMAIN r : r[point] \in Peers

TypeOK ==
  /\ DOMAIN ring = Peers /\ \A p \in Peers : IsRing(ring[p])
  /\ cache \in [Peers -> [Whiches -> CacheSet]]
  /\ flight \in [Peers -> [Keys -> {"none", "running", "ok", "failed"}]]
  /\ calls \in [Calls -> Steps]

\* A call is in Do's map, as the one that leads.
Holds(call) == calls[call].pc \notin {"idle", "answer"} /\ calls[call].leads

Same(call, other) == Peer(call) = Peer(other) /\ Key(call) = Key(other)

Flight(call) == flight[Peer(call)][Key(call)]

\* Those who load lead, and those who wait do not.
Roles ==
  \A call \in Calls :
    /\ calls[call].pc \notin {"idle", "main", "hot", "load", "wait", "answer"} =>
         calls[call].leads
    /\ calls[call].pc \in {"load", "wait"} => ~calls[call].leads

\* The map has a key as long as a call leads, and only one does.
Flights ==
  /\ \A call \in Calls : Holds(call) =>
       Flight(call) \in IF At(call, "forget") THEN {"ok", "failed"} ELSE {"running"}
  /\ \A call, other \in Calls : Holds(call) /\ Holds(other) /\ Same(call, other) => call = other
  /\ \A p \in Peers, key \in Keys : flight[p][key] # "none" =>
       \E call \in Calls : Holds(call) /\ Peer(call) = p /\ Key(call) = key
  /\ \A call \in Calls : At(call, "wait") => Flight(call) = "running"

\* A request is answered by the Get it has begun.
Asks(call) == ~At(call, "idle") /\ calls[call].asked

Requests ==
  /\ \A call \in Calls : Asks(call) => call[2] > 0 /\ At(Client(call), "remote")
  /\ \A call \in Calls : At(call, "remote") => call[2] < MaxHops /\ Asks(Server(call))

\* A call that leads has seen that the caches do not have its key.
In(call, which) == Key(call) \in KeysIn(cache[Peer(call)][which])

Absent(call) ==
  /\ At(call, "hot") /\ calls[call].leads => ~In(call, "main")
  /\ calls[call].pc \in {"pick", "remote", "local"} => ~In(call, "main") /\ ~In(call, "hot")

Caches ==
  /\ KeyInOneCache
  /\ CacheBytes = 0 => \A p \in Peers, which \in Whiches : KeysIn(cache[p][which]) = {}
  /\ \A call \in Calls : Absent(call)

Inv == TypeOK /\ Roles /\ Flights /\ Requests /\ Caches

-----------------------------------------------------------------------------
(* Rings and caches.                                                       *)

LEMMA Least ==
  ASSUME NEW T \in SUBSET Nat, T # {}
  PROVE  \E x \in T : \A y \in T : x <= y
<1>1. PICK x \in T : \A y \in T : ~(<<y, x>> \in OpToRel(<, Nat))
  <2>1. IsWellFoundedOn(OpToRel(<, Nat), Nat)
    BY NatLessThanWellFounded
  <2> QED
    BY <2>1, WFMin
<1>2. \A y \in T : ~(y < x)
  BY <1>1 DEF OpToRel
<1> QED
  BY <1>2

LEMMA Greatest ==
  ASSUME NEW n \in Nat, NEW T \in SUBSET (1 .. n), T # {}
  PROVE  \E x \in T : \A y \in T : y <= x
<1> DEFINE distances == {n - x : x \in T}
<1>1. distances \in SUBSET Nat /\ distances # {}
  <2>1. \A x \in T : x \in 1 .. n /\ n - x \in Nat
    OBVIOUS
  <2> QED
    BY <2>1
<1>2. PICK d \in distances : \A e \in distances : d <= e
  BY <1>1, Least
<1>3. PICK x \in T : d = n - x
  BY <1>2
<1>4. \A y \in T : n - x <= n - y
  BY <1>2, <1>3
<1> QED
  BY <1>4

\* The peers of a ring are those that Set was given.
LEMMA RingOfPeers ==
  ASSUME NEW peers \in Seq(Peers)
  PROVE  IsRing(AddPeers(EmptyRing, peers))
<1> DEFINE those(point) == {i \in DOMAIN peers : point \in ReplicaHash[peers[i]]}
           last(point)  == CHOOSE i \in those(point) : \A j \in those(point) : j <= i
           points       == UNION {ReplicaHash[peers[i]] : i \in DOMAIN peers}
<1>1. DOMAIN peers = 1 .. Len(peers) /\ Len(peers) \in Nat
      /\ \A i \in DOMAIN peers : peers[i] \in Peers
  BY LenProperties, ElementOfSeq
<1>2. points \subseteq Nat
  BY <1>1, GroupAssumption
<1>3. DOMAIN AddPeers(EmptyRing, peers) = points
  BY DEF AddPeers, EmptyRing
<1>4. ASSUME NEW point \in points PROVE AddPeers(EmptyRing, peers)[point] \in Peers
  <2>1. those(point) # {} /\ those(point) \in SUBSET (1 .. Len(peers))
    BY <1>1
  <2>2. \E i \in those(point) : \A j \in those(point) : j <= i
    <3> HIDE DEF those
    <3> QED
      BY <1>1, <2>1, Greatest
  <2>3. last(point) \in those(point)
    BY <2>2
  <2>4. AddPeers(EmptyRing, peers)[point] = peers[last(point)]
    BY <2>1 DEF AddPeers, EmptyRing
  <2> HIDE DEF last
  <2> QED
    BY <1>1, <2>3, <2>4
<1> QED
  BY <1>2, <1>3, <1>4 DEF IsRing

LEMMA OwnerIsPeer ==
  ASSUME NEW r, IsRing(r), ~IsEmpty(r), NEW key
  PROVE  Owner(r, key) \in Peers
<1> DEFINE after == {point \in DOMAIN r : point >= KeyHash[key]}
           them  == IF after = {} THEN DOMAIN r ELSE after
<1>1. them \in SUBSET Nat /\ them # {} /\ them \subseteq DOMAIN r
  BY DEF IsRing, IsEmpty
<1>2. Owner(r, key) = r[First(them)]
  BY DEF Owner
<1> HIDE DEF them
<1>3. First(them) \in them
  BY <1>1, Least DEF First
<1> QED
  BY <1>1, <1>2, <1>3 DEF IsRing

\* What is done with a cache: keys go, and only add brings one.
LEMMA WithoutIsPart ==
  ASSUME NEW c \in CacheSet, NEW key \in Keys
  PROVE  /\ Without(c, key) \in Seq(Keys)
         /\ \A i \in 1 .. Len(Without(c, key)) : Without(c, key)[i] \in KeysIn(c)
<1>1. c.keys \in Seq(Keys)
  BY DEF CacheSet
<1>2. DOMAIN c.keys = 1 .. Len(c.keys) /\ Len(c.keys) \in Nat
      /\ \A i \in DOMAIN c.keys : c.keys[i] \in KeysIn(c) /\ c.keys[i] \in Keys
  BY <1>1, LenProperties, ElementOfSeq DEF KeysIn
<1>3. CASE key \notin KeysIn(c)
  BY <1>1, <1>2, <1>3 DEF Without
<1>4. CASE key \in KeysIn(c)
  <2> DEFINE n     == CHOOSE i \in DOMAIN c.keys : c.keys[i] = key
             here  == KeysIn(c) \cap Keys
             front == SubSeq(c.keys, 1, n - 1)
             back  == SubSeq(c.keys, n + 1, Len(c.keys))
  <2>1. n \in 1 .. Len(c.keys)
    BY <1>2, <1>4 DEF KeysIn
  <2>2. Without(c, key) = front \o back
    BY <1>4 DEF Without, Seqs!RemoveAt
  <2> HIDE DEF n
  <2>3. front \in Seq(here) /\ back \in Seq(here)
    <3>1. \A i \in 1 .. n - 1 : c.keys[i] \in here
      BY <1>2, <2>1
    <3>2. \A i \in n + 1 .. Len(c.keys) : c.keys[i] \in here
      BY <1>2, <2>1
    <3> HIDE DEF here
    <3> QED
      BY <1>2, <2>1, <3>1, <3>2, SubSeqProperties
  <2> HIDE DEF front, back
  <2>4. Without(c, key) \in Seq(here)
    BY <2>2, <2>3, ConcatProperties
  <2> QED
    BY <2>4, ElementOfSeq, SeqMonotonic
<1> QED
  BY <1>3, <1>4

LEMMA MovedToFront ==
  ASSUME NEW c \in CacheSet, NEW key \in Keys
  PROVE  MoveToFront(c, key) \in CacheSet
         /\ KeysIn(MoveToFront(c, key)) \subseteq KeysIn(c) \cup {key}
<1> DEFINE rest == Without(c, key)
           new  == <<key>> \o rest
<1>1. rest \in Seq(Keys) /\ \A i \in 1 .. Len(rest) : rest[i] \in KeysIn(c)
  BY WithoutIsPart
<1>2. <<key>> \in Seq(Keys) /\ Len(<<key>>) = 1 /\ <<key>>[1] = key
  OBVIOUS
<1>3. MoveToFront(c, key) = [c EXCEPT !.keys = new]
  BY DEF MoveToFront
<1> HIDE DEF rest
<1>4. new \in Seq(Keys) /\ DOMAIN new = 1 .. Len(new) /\ Len(new) = 1 + Len(rest)
      /\ Len(rest) \in Nat
      /\ \A i \in 1 .. Len(new) : new[i] = IF i <= 1 THEN key ELSE rest[i - 1]
  BY <1>1, <1>2, ConcatProperties, LenProperties
<1> HIDE DEF new
<1>5. \A i \in DOMAIN new : new[i] \in KeysIn(c) \cup {key}
  BY <1>1, <1>4
<1>6. MoveToFront(c, key) \in CacheSet /\ MoveToFront(c, key).keys = new
  BY <1>3, <1>4 DEF CacheSet
<1> QED
  BY <1>5, <1>6 DEF KeysIn

LEMMA CacheMethods ==
  ASSUME NEW c \in CacheSet, NEW key \in Keys
  PROVE  /\ add(c, key) \in CacheSet /\ KeysIn(add(c, key)) \subseteq KeysIn(c) \cup {key}
         /\ get(c, key) \in CacheSet /\ KeysIn(get(c, key)) \subseteq KeysIn(c)
         /\ removeOldest(c) \in CacheSet /\ KeysIn(removeOldest(c)) \subseteq KeysIn(c)
<1> DEFINE front == MoveToFront(c, key)
<1>1. front \in CacheSet /\ KeysIn(front) \subseteq KeysIn(c) \cup {key}
  BY MovedToFront
<1>2. add(c, key) \in CacheSet /\ KeysIn(add(c, key)) \subseteq KeysIn(c) \cup {key}
  <2>1. Bytes[key] \in Int
    BY GroupAssumption
  <2>2. add(c, key) = [front EXCEPT !.nbytes = @ + Bytes[key]]
    BY DEF add
  <2> HIDE DEF front
  <2>3. add(c, key) \in CacheSet /\ add(c, key).keys = front.keys
    BY <1>1, <2>1, <2>2 DEF CacheSet
  <2> QED
    BY <1>1, <2>3 DEF KeysIn
<1>3. get(c, key) \in CacheSet /\ KeysIn(get(c, key)) \subseteq KeysIn(c)
  BY <1>1 DEF get
<1>4. removeOldest(c) \in CacheSet /\ KeysIn(removeOldest(c)) \subseteq KeysIn(c)
  <2>1. CASE c.keys = <<>>
    BY <2>1 DEF removeOldest
  <2>2. CASE c.keys # <<>>
    <3> DEFINE n == Len(c.keys)
    <3>1. c.keys \in Seq(Keys) /\ n \in Nat \ {0} /\ DOMAIN c.keys = 1 .. n
          /\ \A i \in 1 .. n : c.keys[i] \in Keys
      BY <2>2, LenProperties, EmptySeq, ElementOfSeq DEF CacheSet
    <3> DEFINE rest == SubSeq(c.keys, 1, n - 1)
    <3>2. rest \in Seq(Keys) /\ Len(rest) = n - 1 /\ \A i \in 1 .. n - 1 : rest[i] = c.keys[i]
      <4> HIDE DEF n
      <4>1. \A i \in 1 .. n - 1 : c.keys[i] \in Keys
        BY <3>1
      <4>2. n - 1 \in Int /\ (1 <= n - 1 => n - 1 - 1 + 1 = n - 1) /\ (~(1 <= n - 1) => n - 1 = 0)
            /\ n - 1 - 1 + 1 = n - 1 /\ \A i \in 1 .. n - 1 : 1 + i - 1 = i
        BY <3>1
      <4> QED
        BY <4>1, <4>2, SubSeqProperties
    <3>3. Bytes[c.keys[n]] \in Int /\ c.nbytes \in Int
      BY <3>1, GroupAssumption DEF CacheSet
    <3>4. removeOldest(c) = [keys |-> rest, nbytes |-> c.nbytes - Bytes[c.keys[n]]]
      BY <2>2 DEF removeOldest, Seqs!Front, Seqs!Last
    <3>5. DOMAIN rest = 1 .. n - 1
      BY <3>2, LenProperties
    <3> HIDE DEF rest, n
    <3>6. removeOldest(c) \in CacheSet /\ removeOldest(c).keys = rest
      BY <3>2, <3>3, <3>4 DEF CacheSet
    <3> QED
      BY <3>1, <3>2, <3>5, <3>6 DEF KeysIn
  <2> QED
    BY <2>1, <2>2
<1> QED
  BY <1>2, <1>3, <1>4

-----------------------------------------------------------------------------
(* Calls.                                                                  *)

LEMMA ClientAndServer ==
  ASSUME NEW call \in Calls
  PROVE  /\ call[2] > 0 => Client(call) \in Calls /\ Server(Client(call)) = call
         /\ call[2] < MaxHops => Server(call) \in Calls /\ Client(Server(call)) = call
         /\ Server(call) # call /\ Client(call) # call /\ call[2] \in Int
<1>1. PICK c \in Callers, h \in 0 .. MaxHops : call = <<c, h>>
  BY DEF Calls
<1>2. MaxHops \in Nat /\ h \in Int /\ (h > 0 => h - 1 \in 0 .. MaxHops /\ h - 1 + 1 = h)
      /\ (h < MaxHops => h + 1 \in 0 .. MaxHops /\ h + 1 - 1 = h) /\ h # h + 1 /\ h # h - 1
  BY GroupAssumption
<1> QED
  BY <1>1, <1>2 DEF Calls, Client, Server

ShortPcs == {"main", "hot", "load", "wait", "pick", "remote", "local"}
EndedPcs == {"main bytes", "evict main", "evict hot", "finish", "forget", "answer"}

LEMMA StepFields ==
  ASSUME NEW s \in Steps
  PROVE  /\ s.pc \in {"idle", "hot bytes"} \cup ShortPcs \cup EndedPcs
         /\ s.pc = "idle" => s = Idle
         /\ s.pc # "idle" => /\ s.peer \in Peers /\ s.key \in Keys
                             /\ s.leads \in BOOLEAN /\ s.asked \in BOOLEAN
         /\ s.pc \in ShortPcs => s \in Short
         /\ s.pc \in EndedPcs => s \in Ended
         /\ s.pc = "hot bytes" => s \in Counting
<1>1. CASE s = Idle
  BY <1>1 DEF Idle, ShortPcs, EndedPcs
<1>2. CASE s \in Short
  BY <1>2 DEF Short, ShortPcs, EndedPcs
<1>3. CASE s \in Ended
  BY <1>3 DEF Ended, ShortPcs, EndedPcs
<1>4. CASE s \in Counting
  BY <1>4 DEF Counting, ShortPcs, EndedPcs
<1> QED
  BY <1>1, <1>2, <1>3, <1>4 DEF Steps, Busy

\* What a call that is not idle has.
LEMMA BusyCall ==
  ASSUME TypeOK, NEW call \in Calls, ~At(call, "idle")
  PROVE  /\ Peer(call) \in Peers /\ Key(call) \in Keys
         /\ calls[call].leads \in BOOLEAN /\ calls[call].asked \in BOOLEAN
<1>1. calls[call] \in Steps
  BY DEF TypeOK
<1> QED
  BY <1>1, StepFields DEF At, Peer, Key

\* One call goes on to another point, or returns, and the others stay.
OthersStay(call) ==
  /\ calls' \in [Calls -> Steps]
  /\ \A other \in Calls \ {call} : calls'[other] = calls[other]

Moves(call, pc) ==
  /\ OthersStay(call)
  /\ calls'[call].pc = pc
  /\ calls'[call].peer = Peer(call) /\ calls'[call].key = Key(call)
  /\ calls'[call].leads = calls[call].leads /\ calls'[call].asked = calls[call].asked

Leaves(call) == OthersStay(call) /\ calls'[call].pc = "idle"

LEMMA GotoMoves ==
  ASSUME TypeOK, NEW call \in Calls, NEW pc, Goto(call, pc),
         \/ pc \in ShortPcs /\ calls[call].pc \in ShortPcs
         \/ pc \in EndedPcs /\ calls[call].pc \in EndedPcs
  PROVE  Moves(call, pc)
<1> DEFINE s == [calls[call] EXCEPT !.pc = pc]
<1>1. calls[call] \in Steps /\ calls' = [calls EXCEPT ![call] = s] /\ calls \in [Calls -> Steps]
  BY DEF TypeOK, Goto
<1>2. CASE pc \in ShortPcs /\ calls[call].pc \in ShortPcs
  <2>1. calls[call] \in Short
    BY <1>1, <1>2, StepFields
  <2>2. /\ s \in Short /\ s.pc = pc /\ s.peer = Peer(call) /\ s.key = Key(call)
        /\ s.leads = calls[call].leads /\ s.asked = calls[call].asked
    BY <1>2, <2>1 DEF Short, ShortPcs, Peer, Key
  <2> HIDE DEF s
  <2>3. s \in Steps /\ calls'[call] = s
    BY <1>1, <2>2 DEF Steps, Busy
  <2> QED
    BY <1>1, <2>2, <2>3 DEF Moves, OthersStay
<1>3. CASE pc \in EndedPcs /\ calls[call].pc \in EndedPcs
  <2>1. calls[call] \in Ended
    BY <1>1, <1>3, StepFields
  <2>2. /\ s \in Ended /\ s.pc = pc /\ s.peer = Peer(call) /\ s.key = Key(call)
        /\ s.leads = calls[call].leads /\ s.asked = calls[call].asked
    BY <1>3, <2>1 DEF Ended, EndedPcs, Peer, Key
  <2> HIDE DEF s
  <2>3. s \in Steps /\ calls'[call] = s
    BY <1>1, <2>2 DEF Steps, Busy
  <2> QED
    BY <1>1, <2>2, <2>3 DEF Moves, OthersStay
<1> QED
  BY <1>2, <1>3

\* A call with an outcome goes on, or has nobody to answer.
LEMMA OutcomeFields ==
  ASSUME TypeOK, NEW call \in Calls, ~At(call, "idle"), NEW ok \in BOOLEAN, NEW pc \in EndedPcs
  PROVE  /\ WithOutcome(call, pc, ok) \in Steps
         /\ pc = "answer" /\ ~calls[call].asked => WithOutcome(call, pc, ok).pc = "idle"
         /\ ~(pc = "answer" /\ ~calls[call].asked) =>
              /\ WithOutcome(call, pc, ok).pc = pc
              /\ WithOutcome(call, pc, ok).peer = Peer(call)
              /\ WithOutcome(call, pc, ok).key = Key(call)
              /\ WithOutcome(call, pc, ok).leads = calls[call].leads
              /\ WithOutcome(call, pc, ok).asked = calls[call].asked
<1> DEFINE s == WithOutcome(call, pc, ok)
<1>1. CASE pc = "answer" /\ ~calls[call].asked
  BY <1>1 DEF WithOutcome, Steps, Idle
<1>2. CASE ~(pc = "answer" /\ ~calls[call].asked)
  <2>1. s = [pc |-> pc, peer |-> Peer(call), key |-> Key(call),
             leads |-> calls[call].leads, asked |-> calls[call].asked, ok |-> ok]
    BY <1>2 DEF WithOutcome
  <2>2. /\ Peer(call) \in Peers /\ Key(call) \in Keys
        /\ calls[call].leads \in BOOLEAN /\ calls[call].asked \in BOOLEAN
    BY BusyCall
  <2> HIDE DEF s
  <2>3. s \in Ended
    BY <2>1, <2>2 DEF Ended, EndedPcs
  <2>4. /\ s.pc = pc /\ s.peer = Peer(call) /\ s.key = Key(call)
        /\ s.leads = calls[call].leads /\ s.asked = calls[call].asked
    BY <2>1
  <2> QED
    BY <1>2, <2>3, <2>4 DEF Steps, Busy, s
<1> QED
  BY <1>1, <1>2

LEMMA OutcomeMoves ==
  ASSUME TypeOK, NEW call \in Calls, ~At(call, "idle"), NEW ok \in BOOLEAN, NEW pc \in EndedPcs,
         Outcome(call, pc, ok)
  PROVE  IF pc = "answer" /\ ~calls[call].asked THEN Leaves(call) ELSE Moves(call, pc)
<1> DEFINE s == WithOutcome(call, pc, ok)
<1>1. calls' = [calls EXCEPT ![call] = s] /\ calls \in [Calls -> Steps]
  BY DEF Outcome, TypeOK
<1>2. /\ s \in Steps
      /\ pc = "answer" /\ ~calls[call].asked => s.pc = "idle"
      /\ ~(pc = "answer" /\ ~calls[call].asked) =>
              /\ s.pc = pc /\ s.peer = Peer(call) /\ s.key = Key(call)
              /\ s.leads = calls[call].leads /\ s.asked = calls[call].asked
  BY OutcomeFields
<1> HIDE DEF s
<1>3. OthersStay(call) /\ calls'[call] = s
  BY <1>1, <1>2 DEF OthersStay
<1> QED
  BY <1>2, <1>3 DEF Leaves, Moves

LEMMA InitInv == Init => Inv
<1> SUFFICES ASSUME Init
             PROVE  Inv
  OBVIOUS
<1>1. \A call \in Calls : calls[call].pc = "idle"
  BY DEF Init, Idle
<1>2. \A p \in Peers, which \in Whiches : KeysIn(cache[p][which]) = {}
  BY DEF Init, Whiches, EmptyCache, KeysIn
<1>3. TypeOK
  <2>1. \A p \in Peers : IsRing(ring[p])
    BY DEF Init, IsRing, EmptyRing
  <2>2. EmptyCache \in CacheSet
    BY DEF EmptyCache, CacheSet
  <2>3. cache \in [Peers -> [Whiches -> CacheSet]]
    BY <2>2 DEF Init, Whiches
  <2>4. flight \in [Peers -> [Keys -> {"none", "running", "ok", "failed"}]]
    BY DEF Init
  <2>5. calls \in [Calls -> Steps]
    BY DEF Init, Steps
  <2> QED
    BY <2>1, <2>3, <2>4, <2>5 DEF Init, TypeOK
<1>4. Roles /\ Requests
  BY <1>1 DEF Roles, Requests, Asks, At
<1>5. Flights
  BY <1>1 DEF Init, Flights, Holds, At
<1>6. Caches
  BY <1>1, <1>2 DEF Caches, KeyInOneCache, Absent, At, Whiches
<1> QED
  BY <1>3, <1>4, <1>5, <1>6 DEF Inv

\* Calls that hold a key hold it, and the map stays.
LEMMA FlightsStay ==
  ASSUME Inv, UNCHANGED flight,
         \A call \in Calls :
           /\ Holds(call)' <=> Holds(call)
           /\ Holds(call) => /\ Peer(call)' = Peer(call) /\ Key(call)' = Key(call)
                             /\ At(call, "forget")' <=> At(call, "forget")
           /\ At(call, "wait")' => Flight(call)' = "running"
  PROVE  Flights'
<1>1. ASSUME NEW call \in Calls, Holds(call)
      PROVE  Flight(call)' = Flight(call)
  BY <1>1 DEF Flight
<1>2. \A call \in Calls : Holds(call)' =>
        Flight(call)' \in IF At(call, "forget")' THEN {"ok", "failed"} ELSE {"running"}
  BY <1>1 DEF Inv, Flights
<1>3. \A call, other \in Calls : Holds(call)' /\ Holds(other)'
      /\ Same(call, other)' => call = other
  BY DEF Inv, Flights, Same
<1>4. \A p \in Peers, key \in Keys : flight'[p][key] # "none" =>
        \E call \in Calls : Holds(call)' /\ Peer(call)' = p /\ Key(call)' = key
  BY DEF Inv, Flights
<1> QED
  BY <1>2, <1>3, <1>4 DEF Flights

LEMMA RequestsStay ==
  ASSUME Inv,
         \A call \in Calls : (At(call, "remote")' <=> At(call, "remote"))
           /\ (Asks(call)' <=> Asks(call))
  PROVE  Requests'
<1>1. ASSUME NEW call \in Calls, Asks(call)
      PROVE  call[2] > 0 /\ At(Client(call), "remote")'
  <2>1. call[2] > 0 /\ At(Client(call), "remote")
    BY <1>1 DEF Inv, Requests
  <2> QED
    BY <2>1, ClientAndServer
<1>2. ASSUME NEW call \in Calls, At(call, "remote")
      PROVE  call[2] < MaxHops /\ Asks(Server(call))'
  <2>1. call[2] < MaxHops /\ Asks(Server(call))
    BY <1>2 DEF Inv, Requests
  <2> QED
    BY <2>1, ClientAndServer
<1>3. (\A call \in Calls : Asks(call) => call[2] > 0 /\ At(Client(call), "remote"))'
  BY <1>1 DEF Client
<1>4. (\A call \in Calls : At(call, "remote") => call[2] < MaxHops /\ Asks(Server(call)))'
  BY <1>2 DEF Server
<1> QED
  BY <1>3, <1>4 DEF Requests

\* What a call has seen of the caches is so before its step.
SawAbsent(call) ==
  /\ calls'[call].pc = "hot" /\ calls'[call].leads =>
       calls'[call].key \notin KeysIn(cache[calls'[call].peer]["main"])
  /\ calls'[call].pc \in {"pick", "remote", "local"} =>
       \A which \in Whiches : calls'[call].key \notin KeysIn(cache[calls'[call].peer][which])

\* Keys go at most.
Shrinks == \A p \in Peers, which \in Whiches : KeysIn(cache'[p][which]) \subseteq KeysIn(cache[p][which])

LEMMA CachesShrink ==
  ASSUME Inv, TypeOK', Shrinks, \A call \in Calls : SawAbsent(call)
  PROVE  Caches'
<1>1. KeyInOneCache'
  BY DEF Inv, Caches, KeyInOneCache, Whiches, Shrinks
<1>2. CacheBytes = 0 => \A p \in Peers, which \in Whiches : KeysIn(cache'[p][which]) = {}
  BY DEF Inv, Caches, Shrinks
<1>3. ASSUME NEW call \in Calls PROVE Absent(call)'
  <2>1. calls'[call] \in Steps
    BY DEF TypeOK
  <2>2. calls'[call].pc # "idle" => calls'[call].peer \in Peers
    BY <2>1, StepFields
  <2> QED
    BY <2>2 DEF Absent, In, At, Whiches, SawAbsent, Shrinks, Peer, Key
<1> QED
  BY <1>1, <1>2, <1>3 DEF Caches

LEMMA OldCallsSaw ==
  ASSUME Inv, NEW call \in Calls, calls'[call] = calls[call]
  PROVE  SawAbsent(call)
BY DEF Inv, Caches, Absent, SawAbsent, In, At, Peer, Key, Whiches

-----------------------------------------------------------------------------
(* Steps of one call that leave the loads as they are.                     *)

\* What these steps leave, and what they make of the caches.
QuietFrame == UNCHANGED <<ring, flight>> /\ cache' \in [Peers -> [Whiches -> CacheSet]]

Unasked == {"idle", "remote", "forget"}

LEMMA QuietMove ==
  ASSUME Inv, QuietFrame, NEW call \in Calls, NEW pc, Moves(call, pc),
         calls[call].pc \notin Unasked, pc \notin Unasked,
         calls[call].leads => calls[call].pc # "answer" /\ pc # "answer",
         pc \notin {"main", "hot", "load", "wait", "answer"} => calls[call].leads,
         pc \in {"load", "wait"} => ~calls[call].leads,
         pc = "wait" => Flight(call) = "running"
  PROVE  TypeOK' /\ Roles' /\ Flights' /\ Requests'
<1>1. TypeOK'
  BY DEF Inv, TypeOK, QuietFrame, Moves, OthersStay
<1>2. Roles'
  BY DEF Inv, Roles, Moves, OthersStay
<1>3. \A other \in Calls : Holds(other)' <=> Holds(other)
  BY DEF Holds, Moves, OthersStay, Unasked
<1>4. \A other \in Calls : /\ At(other, "forget")' <=> At(other, "forget")
                           /\ At(other, "remote")' <=> At(other, "remote")
                           /\ Asks(other)' <=> Asks(other)
  BY DEF At, Asks, Moves, OthersStay, Unasked
<1>5. \A other \in Calls : Holds(other) => Peer(other)' = Peer(other) /\ Key(other)' = Key(other)
  BY DEF Peer, Key, Moves, OthersStay
<1>6. \A other \in Calls : At(other, "wait")' => Flight(other)' = "running"
  BY DEF Inv, Flights, At, Flight, Peer, Key, Moves, OthersStay, QuietFrame
<1>7. Flights'
  BY <1>3, <1>4, <1>5, <1>6, FlightsStay DEF QuietFrame
<1>8. Requests'
  BY <1>4, RequestsStay
<1> QED
  BY <1>1, <1>2, <1>7, <1>8

LEMMA QuietLeave ==
  ASSUME Inv, QuietFrame, NEW call \in Calls, Leaves(call),
         calls[call].pc \notin Unasked, ~calls[call].asked,
         calls[call].leads => calls[call].pc = "answer"
  PROVE  TypeOK' /\ Roles' /\ Flights' /\ Requests'
<1>1. TypeOK'
  BY DEF Inv, TypeOK, QuietFrame, Leaves, OthersStay
<1>2. Roles'
  BY DEF Inv, Roles, Leaves, OthersStay
<1>3. \A other \in Calls : Holds(other)' <=> Holds(other)
  BY DEF Holds, Leaves, OthersStay, Unasked
<1>4. \A other \in Calls : /\ At(other, "forget")' <=> At(other, "forget")
                           /\ At(other, "remote")' <=> At(other, "remote")
                           /\ Asks(other)' <=> Asks(other)
  BY DEF At, Asks, Leaves, OthersStay, Unasked
<1>5. \A other \in Calls : Holds(other) => Peer(other)' = Peer(other) /\ Key(other)' = Key(other)
  BY DEF Peer, Key, Leaves, OthersStay, Holds
<1>6. \A other \in Calls : At(other, "wait")' => Flight(other)' = "running"
  BY DEF Inv, Flights, At, Flight, Peer, Key, Leaves, OthersStay, QuietFrame
<1>7. Flights'
  BY <1>3, <1>4, <1>5, <1>6, FlightsStay DEF QuietFrame
<1>8. Requests'
  BY <1>4, RequestsStay
<1> QED
  BY <1>1, <1>2, <1>7, <1>8

\* The caches, too, when keys go at most.
LEMMA QuietMoveInv ==
  ASSUME Inv, QuietFrame, Shrinks, NEW call \in Calls, NEW pc, Moves(call, pc),
         calls[call].pc \notin Unasked, pc \notin Unasked,
         calls[call].leads => calls[call].pc # "answer" /\ pc # "answer",
         pc \notin {"main", "hot", "load", "wait", "answer"} => calls[call].leads,
         pc \in {"load", "wait"} => ~calls[call].leads,
         pc = "wait" => Flight(call) = "running",
         pc = "hot" /\ calls[call].leads => ~In(call, "main"),
         pc \in {"pick", "local"} => ~In(call, "main") /\ ~In(call, "hot")
  PROVE  Inv'
<1>1. TypeOK' /\ Roles' /\ Flights' /\ Requests'
  BY QuietMove
<1>2. SawAbsent(call)
  BY DEF SawAbsent, In, Moves, Unasked, Whiches
<1>3. \A other \in Calls \ {call} : SawAbsent(other)
  BY OldCallsSaw DEF Moves, OthersStay
<1> QED
  BY <1>1, <1>2, <1>3, CachesShrink DEF Inv

LEMMA QuietLeaveInv ==
  ASSUME Inv, QuietFrame, Shrinks, NEW call \in Calls, Leaves(call),
         calls[call].pc \notin Unasked, ~calls[call].asked,
         calls[call].leads => calls[call].pc = "answer"
  PROVE  Inv'
<1>1. TypeOK' /\ Roles' /\ Flights' /\ Requests'
  BY QuietLeave
<1>2. SawAbsent(call)
  BY DEF SawAbsent, Leaves
<1>3. \A other \in Calls \ {call} : SawAbsent(other)
  BY OldCallsSaw DEF Leaves, OthersStay
<1> QED
  BY <1>1, <1>2, <1>3, CachesShrink DEF Inv

LEMMA CachesStay == ASSUME Inv, UNCHANGED cache PROVE Shrinks
  /\ cache' \in [Peers -> [Whiches -> CacheSet]]
BY DEF Inv, TypeOK, Shrinks

\* One of the caches becomes another that has no more keys.
LEMMA OneShrinks ==
  ASSUME Inv, NEW p \in Peers, NEW which \in Whiches, NEW c \in CacheSet,
         KeysIn(c) \subseteq KeysIn(cache[p][which]), cache' = [cache EXCEPT ![p][which] = c]
  PROVE  Shrinks /\ cache' \in [Peers -> [Whiches -> CacheSet]]
<1>1. cache \in [Peers -> [Whiches -> CacheSet]]
  BY DEF Inv, TypeOK
<1>2. \A q \in Peers, w \in Whiches : cache'[q][w] = IF q = p /\ w = which THEN c ELSE cache[q][w]
  BY <1>1
<1>3. cache' \in [Peers -> [Whiches -> CacheSet]]
  BY <1>1
<1> QED
  BY <1>2, <1>3 DEF Shrinks

LEMMA lookupHitStep ==
  ASSUME Inv, NEW call \in Calls, NEW which \in Whiches, lookupHit(call, which)
  PROVE  Inv'
<1> DEFINE c  == get(cache[Peer(call)][which], Key(call))
           pc == IF calls[call].leads THEN "finish" ELSE "answer"
<1>1. /\ ~At(call, "idle") /\ calls[call].pc \in {"main", "hot"}
      /\ Peer(call) \in Peers /\ Key(call) \in Keys /\ calls[call].leads \in BOOLEAN
  BY BusyCall DEF Inv, lookupHit, At, Whiches
<1>2. cache[Peer(call)][which] \in CacheSet
  BY <1>1 DEF Inv, TypeOK
<1>3. c \in CacheSet /\ KeysIn(c) \subseteq KeysIn(cache[Peer(call)][which])
  BY <1>1, <1>2, CacheMethods
<1>4. cache' = [cache EXCEPT ![Peer(call)][which] = c]
  BY DEF lookupHit
<1>5. Shrinks /\ QuietFrame
  <2> HIDE DEF c
  <2> QED
    BY <1>1, <1>3, <1>4, OneShrinks DEF QuietFrame, lookupHit
<1>6. pc \in EndedPcs /\ Outcome(call, pc, TRUE)
  BY DEF lookupHit, EndedPcs
<1>7. IF pc = "answer" /\ ~calls[call].asked THEN Leaves(call) ELSE Moves(call, pc)
  BY <1>1, <1>6, OutcomeMoves DEF Inv
<1>8. CASE pc = "answer" /\ ~calls[call].asked
  BY <1>1, <1>5, <1>7, <1>8, QuietLeaveInv DEF Unasked
<1>9. CASE ~(pc = "answer" /\ ~calls[call].asked)
  <2>1. Moves(call, pc) /\ pc \notin Unasked /\ (calls[call].leads => pc # "answer")
        /\ (pc # "answer" => calls[call].leads)
        /\ pc \notin {"wait", "load", "hot", "pick", "local"} /\ calls[call].pc \notin Unasked
    BY <1>1, <1>7, <1>9 DEF Unasked
  <2> HIDE DEF pc, c
  <2> QED
    BY <1>1, <1>5, <2>1, QuietMoveInv
<1> QED
  BY <1>8, <1>9

LEMMA lookupMissStep ==
  ASSUME Inv, NEW call \in Calls, NEW which \in Whiches, lookupMiss(call, which)
  PROVE  Inv'
<1> DEFINE pc == IF which = "main" THEN "hot" ELSE IF calls[call].leads THEN "pick" ELSE "load"
<1>1. /\ ~At(call, "idle") /\ calls[call].pc = which
      /\ Peer(call) \in Peers /\ Key(call) \in Keys /\ calls[call].leads \in BOOLEAN
  BY BusyCall DEF Inv, lookupMiss, At, Whiches
<1>2. Shrinks /\ QuietFrame
  BY CachesStay DEF lookupMiss, QuietFrame
<1>3. Moves(call, pc)
  <2>1. pc \in ShortPcs /\ calls[call].pc \in ShortPcs /\ Goto(call, pc)
    BY <1>1 DEF lookupMiss, ShortPcs, Whiches
  <2> QED
    BY <2>1, GotoMoves DEF Inv
<1>4. ~In(call, which)
  <2>1. CASE CacheBytes = 0
    BY <1>1, <2>1 DEF In, Inv, Caches
  <2>2. CASE CacheBytes > 0
    BY <2>2 DEF lookupMiss, Found, In
  <2> QED
    BY <2>1, <2>2, GroupAssumption
<1>5. which = "hot" /\ calls[call].leads => ~In(call, "main")
  BY <1>1 DEF Inv, Caches, Absent, At
<1>6. /\ pc \in {"hot", "pick", "load"} /\ (pc = "pick" => calls[call].leads)
      /\ (pc = "load" => ~calls[call].leads) /\ calls[call].pc \notin Unasked
        /\ calls[call].pc # "answer"
      /\ (pc = "hot" => ~In(call, "main")) /\ (pc = "pick" => ~In(call, "main")
        /\ ~In(call, "hot"))
  BY <1>1, <1>4, <1>5 DEF Whiches, Unasked
<1> HIDE DEF pc
<1>7. pc \notin Unasked
  BY <1>6 DEF Unasked
<1> QED
  BY <1>2, <1>3, <1>6, <1>7, QuietMoveInv

LEMMA DoWaitStep == ASSUME Inv, NEW call \in Calls, DoWait(call) PROVE Inv'
<1>1. calls[call].pc = "load" /\ ~calls[call].leads
  BY DEF DoWait, At, Inv, Roles
<1>2. Shrinks /\ QuietFrame
  BY CachesStay DEF DoWait, QuietFrame
<1>3. Moves(call, "wait")
  BY <1>1, GotoMoves DEF DoWait, ShortPcs, Inv
<1>4. Flight(call) = "running"
  BY DEF DoWait, Flight
<1> QED
  BY <1>1, <1>2, <1>3, <1>4, QuietMoveInv DEF Unasked

LEMMA DoLateStep == ASSUME Inv, NEW call \in Calls, DoLate(call) PROVE Inv'
<1>1. calls[call].pc = "load" /\ ~calls[call].leads /\ ~At(call, "idle")
  BY DEF DoLate, At, Inv, Roles
<1>2. Shrinks /\ QuietFrame
  BY CachesStay DEF DoLate, QuietFrame
<1>3. IF ~calls[call].asked THEN Leaves(call) ELSE Moves(call, "answer")
  <2> DEFINE ok == flight[Peer(call)][Key(call)] = "ok"
  <2>1. Outcome(call, "answer", ok) /\ ok \in BOOLEAN
    BY DEF DoLate
  <2> HIDE DEF ok
  <2> QED
    BY <1>1, <2>1, OutcomeMoves DEF EndedPcs, Inv
<1>4. CASE ~calls[call].asked
  BY <1>1, <1>2, <1>3, <1>4, QuietLeaveInv DEF Unasked
<1>5. CASE calls[call].asked
  BY <1>1, <1>2, <1>3, <1>5, QuietMoveInv DEF Unasked
<1> QED
  BY <1>4, <1>5

LEMMA PickLocalStep ==
  ASSUME Inv, NEW call \in Calls, PickSelf(call) \/ PickUnreachable(call)
  PROVE  Inv'
<1>1. calls[call].pc = "pick" /\ calls[call].leads /\ ~In(call, "main") /\ ~In(call, "hot")
  BY DEF PickSelf, PickUnreachable, At, Inv, Roles, Caches, Absent
<1>2. Shrinks /\ QuietFrame
  BY CachesStay DEF PickSelf, PickUnreachable, QuietFrame
<1>3. Moves(call, "local")
  BY <1>1, GotoMoves DEF PickSelf, PickUnreachable, ShortPcs, Inv
<1> QED
  BY <1>1, <1>2, <1>3, QuietMoveInv DEF Unasked

LEMMA LocalErrorStep == ASSUME Inv, NEW call \in Calls, LocalError(call) PROVE Inv'
<1>1. calls[call].pc = "local" /\ calls[call].leads /\ ~At(call, "idle")
  BY DEF LocalError, At, Inv, Roles
<1>2. Shrinks /\ QuietFrame
  BY CachesStay DEF LocalError, QuietFrame
<1>3. Moves(call, "finish")
  BY <1>1, OutcomeMoves DEF LocalError, EndedPcs, Inv
<1> QED
  BY <1>1, <1>2, <1>3, QuietMoveInv DEF Unasked

LEMMA MainBytesStep == ASSUME Inv, NEW call \in Calls, MainBytes(call) PROVE Inv'
<1>1. calls[call].pc = "main bytes" /\ calls[call].leads /\ ~At(call, "idle")
      /\ calls[call] \in Ended /\ Peer(call) \in Peers
  BY StepFields, BusyCall DEF MainBytes, At, Inv, Roles, TypeOK, EndedPcs
<1>2. Shrinks /\ QuietFrame
  BY CachesStay DEF MainBytes, QuietFrame
<1>3. Moves(call, "hot bytes")
  <2> DEFINE bytes == cache[Peer(call)]["main"].nbytes
             s == [pc |-> "hot bytes", peer |-> Peer(call), key |-> Key(call),
                   leads |-> calls[call].leads, asked |-> calls[call].asked,
                   ok |-> calls[call].ok, mainBytes |-> bytes]
  <2>1. bytes \in Int
    BY <1>1 DEF Inv, TypeOK, CacheSet, Whiches
  <2>2. calls' = [calls EXCEPT ![call] = s] /\ calls \in [Calls -> Steps]
    BY DEF MainBytes, Inv, TypeOK, Peer, Key
  <2> HIDE DEF bytes
  <2>3. s \in Counting
    BY <1>1, <2>1 DEF Ended, Counting, Peer, Key
  <2>4. /\ s.pc = "hot bytes" /\ s.peer = Peer(call) /\ s.key = Key(call)
        /\ s.leads = calls[call].leads /\ s.asked = calls[call].asked
    OBVIOUS
  <2> HIDE DEF s
  <2> QED
    BY <2>2, <2>3, <2>4 DEF Moves, OthersStay, Steps, Busy
<1> QED
  BY <1>1, <1>2, <1>3, QuietMoveInv DEF Unasked

LEMMA BothFitStep ==
  ASSUME Inv, NEW call \in Calls, BothFit(call) \/ ChooseVictim(call)
  PROVE  Inv'
<1>1. calls[call].pc = "hot bytes" /\ calls[call].leads /\ ~At(call, "idle")
  BY DEF BothFit, ChooseVictim, At, Inv, Roles
<1>2. Shrinks /\ QuietFrame
  BY CachesStay DEF BothFit, ChooseVictim, QuietFrame
<1>3. PICK pc \in {"finish", "evict main", "evict hot"} : Outcome(call, pc, TRUE)
  BY DEF BothFit, ChooseVictim, Victim, EvictPc
<1>4. Moves(call, pc)
  BY <1>1, <1>3, OutcomeMoves DEF EndedPcs, Inv
<1> QED
  BY <1>1, <1>2, <1>4, QuietMoveInv DEF Unasked

LEMMA EvictStep ==
  ASSUME Inv, NEW call \in Calls, NEW which \in Whiches, Evict(call, which)
  PROVE  Inv'
<1> DEFINE c == removeOldest(cache[Peer(call)][which])
<1>1. /\ ~At(call, "idle") /\ calls[call].pc \in {"evict main", "evict hot"} /\ calls[call].leads
      /\ Peer(call) \in Peers /\ Key(call) \in Keys
  <2>1. calls[call].pc = EvictPc[which]
    BY DEF Evict, At
  <2>2. calls[call].pc \in {"evict main", "evict hot"}
    <3>1. which = "main" \/ which = "hot"
      BY DEF Whiches
    <3>2. EvictPc["main"] = "evict main" /\ EvictPc["hot"] = "evict hot"
      BY DEF EvictPc
    <3> QED
      BY <2>1, <3>1, <3>2
  <2>3. ~At(call, "idle") /\ calls[call].leads
    BY <2>2 DEF At, Inv, Roles
  <2> QED
    BY <2>2, <2>3, BusyCall DEF Inv
<1>2. cache[Peer(call)][which] \in CacheSet
  BY <1>1 DEF Inv, TypeOK
<1>3. c \in CacheSet /\ KeysIn(c) \subseteq KeysIn(cache[Peer(call)][which])
  BY <1>1, <1>2, CacheMethods
<1>4. cache' = [cache EXCEPT ![Peer(call)][which] = c]
  BY DEF Evict
<1>5. Shrinks /\ QuietFrame
  <2> HIDE DEF c
  <2> QED
    BY <1>1, <1>3, <1>4, OneShrinks DEF QuietFrame, Evict
<1>6. Moves(call, "main bytes")
  BY <1>1, GotoMoves DEF Evict, EndedPcs, Inv
<1> QED
  BY <1>1, <1>5, <1>6, QuietMoveInv DEF Unasked

LEMMA UnheardStep == ASSUME Inv, NEW call \in Calls, Unheard(call) PROVE Inv'
<1>1. calls[call].pc = "answer" /\ ~calls[call].asked
  BY DEF Unheard, At
<1>2. Shrinks /\ QuietFrame
  BY CachesStay DEF Unheard, QuietFrame
<1>3. Leaves(call)
  BY DEF Unheard, Leaves, OthersStay, Inv, TypeOK, Steps, Idle
<1> QED
  BY <1>1, <1>2, <1>3, QuietLeaveInv DEF Unasked

-----------------------------------------------------------------------------
(* Steps that add to a cache, begin or answer a request.                   *)

Absents == {"hot", "pick", "remote", "local"}

\* The call that leads adds its key, which is in neither cache.
LEMMA AddKeeps ==
  ASSUME Inv, NEW call \in Calls, calls[call].pc \in {"remote", "local"}, NEW which \in Whiches,
         CacheBytes > 0, cache' = [cache EXCEPT ![Peer(call)][which] = add(@, Key(call))],
         calls'[call].pc \notin Absents,
         \A other \in Calls : calls'[other] = calls[other] \/ calls'[other].pc \notin Absents
  PROVE  cache' \in [Peers -> [Whiches -> CacheSet]] /\ Caches'
<1> DEFINE c == add(cache[Peer(call)][which], Key(call))
<1>1. /\ Peer(call) \in Peers /\ Key(call) \in Keys /\ Holds(call)
      /\ ~In(call, "main") /\ ~In(call, "hot")
  <2>1. ~At(call, "idle")
    BY DEF At
  <2>2. Peer(call) \in Peers /\ Key(call) \in Keys
    BY <2>1, BusyCall DEF Inv
  <2> QED
    BY <2>2 DEF Inv, Roles, Caches, Absent, Holds
<1>2. cache \in [Peers -> [Whiches -> CacheSet]]
  BY DEF Inv, TypeOK
<1>3. c \in CacheSet /\ KeysIn(c) \subseteq KeysIn(cache[Peer(call)][which]) \cup {Key(call)}
  <2>1. cache[Peer(call)][which] \in CacheSet
    BY <1>1, <1>2
  <2> QED
    BY <1>1, <2>1, CacheMethods
<1>4. cache' = [cache EXCEPT ![Peer(call)][which] = c]
  OBVIOUS
<1> HIDE DEF c
<1>5. cache' \in [Peers -> [Whiches -> CacheSet]]
  BY <1>1, <1>2, <1>3, <1>4
<1>6. \A p \in Peers, w \in Whiches :
        cache'[p][w] = IF p = Peer(call) /\ w = which THEN c ELSE cache[p][w]
  BY <1>1, <1>2, <1>4
<1>7. \A p \in Peers, w \in Whiches : \A key \in KeysIn(cache'[p][w]) :
        key \in KeysIn(cache[p][w]) \/ (p = Peer(call) /\ w = which /\ key = Key(call))
  BY <1>3, <1>6
<1>8. KeyInOneCache'
  BY <1>1, <1>7 DEF KeyInOneCache, In, Inv, Caches, Whiches
<1>9. ASSUME NEW other \in Calls PROVE Absent(other)'
  <2>1. CASE calls'[other].pc \notin Absents
    BY <2>1 DEF Absent, At, Absents
  <2>2. CASE calls'[other].pc \in Absents
    <3>1. other # call /\ calls'[other] = calls[other]
      BY <2>2
    <3>2. ~At(other, "idle") /\ (calls[other].pc = "hot" /\ calls[other].leads => Holds(other))
          /\ (calls[other].pc \in {"pick", "remote", "local"} => Holds(other))
      BY <2>2, <3>1 DEF Holds, Inv, Roles, Absents, At
    <3>3. Peer(other) \in Peers
      BY <3>2, BusyCall DEF Inv
    <3>4. Holds(other) => ~Same(call, other)
      BY <1>1, <3>1 DEF Inv, Flights
    <3>5. Holds(other) => \A w \in Whiches : In(other, w)' => In(other, w)
      BY <1>7, <3>1, <3>3, <3>4 DEF In, Same, Peer, Key
    <3> QED
      BY <3>1, <3>2, <3>5 DEF Inv, Caches, Absent, At, Whiches
  <2> QED
    BY <2>1, <2>2
<1> QED
  BY <1>5, <1>8, <1>9 DEF Caches

LEMMA AfterAddIs == AfterAdd \in {"main bytes", "finish"}
BY DEF AfterAdd

LEMMA LocalOkStep == ASSUME Inv, NEW call \in Calls, LocalOk(call) PROVE Inv'
<1>1. calls[call].pc = "local" /\ calls[call].leads /\ ~At(call, "idle")
  BY DEF LocalOk, At, Inv, Roles
<1>2. Moves(call, AfterAdd)
  BY <1>1, AfterAddIs, OutcomeMoves DEF LocalOk, EndedPcs, Inv
<1>3. CASE CacheBytes > 0
  <2>1. cache' = [cache EXCEPT ![Peer(call)]["main"] = add(@, Key(call))]
    BY <1>3 DEF LocalOk, Added
  <2>2. calls'[call].pc \notin Absents
        /\ \A other \in Calls : calls'[other] = calls[other] \/ calls'[other].pc \notin Absents
    BY <1>2, AfterAddIs DEF Moves, OthersStay, Absents
  <2>3. cache' \in [Peers -> [Whiches -> CacheSet]] /\ Caches'
    BY <1>1, <1>3, <2>1, <2>2, AddKeeps DEF Whiches
  <2>4. QuietFrame
    BY <2>3 DEF QuietFrame, LocalOk
  <2>5. TypeOK' /\ Roles' /\ Flights' /\ Requests'
    BY <1>1, <1>2, <2>4, AfterAddIs, QuietMove DEF Unasked
  <2> QED
    BY <2>3, <2>5 DEF Inv
<1>4. CASE ~(CacheBytes > 0)
  <2>1. Shrinks /\ QuietFrame
    BY <1>4, CachesStay DEF LocalOk, Added, QuietFrame
  <2> QED
    BY <1>1, <1>2, <2>1, AfterAddIs, QuietMoveInv DEF Unasked
<1> QED
  BY <1>3, <1>4

\* A request is answered, and the call that has sent it goes on.
LEMMA Answered ==
  ASSUME Inv, QuietFrame, NEW call \in Calls, calls[call].pc = "answer", calls[call].asked,
         NEW pc \in {"local", "main bytes", "finish"}, calls' \in [Calls -> Steps],
         calls'[call].pc = "idle",
         LET client == Client(call)
         IN  /\ calls'[client].pc = pc
             /\ calls'[client].peer = Peer(client) /\ calls'[client].key = Key(client)
             /\ calls'[client].leads = calls[client].leads
             /\ calls'[client].asked = calls[client].asked,
         \A other \in Calls \ {call, Client(call)} : calls'[other] = calls[other]
  PROVE  TypeOK' /\ Roles' /\ Flights' /\ Requests'
<1> DEFINE client == Client(call)
<1>1. Asks(call) /\ call[2] > 0
  BY DEF Asks, At, Inv, Requests
<1>2. /\ client \in Calls /\ client # call /\ Server(client) = call
      /\ calls[client].pc = "remote" /\ calls[client].leads
  BY <1>1, ClientAndServer DEF Inv, Requests, Roles, At
<1>3. TypeOK'
  BY DEF Inv, TypeOK, QuietFrame
<1> HIDE DEF client
<1>4. \A other \in Calls : other # call /\ other # client => calls'[other] = calls[other]
  BY DEF client
<1>5. /\ calls'[client].pc = pc
      /\ calls'[client].peer = Peer(client) /\ calls'[client].key = Key(client)
      /\ calls'[client].leads = calls[client].leads
      /\ calls'[client].asked = calls[client].asked
  BY DEF client
<1>6. Roles'
  BY <1>2, <1>4, <1>5 DEF Inv, Roles
<1>7. \A other \in Calls :
        /\ Holds(other)' <=> Holds(other)
        /\ Holds(other) => /\ Peer(other)' = Peer(other) /\ Key(other)' = Key(other)
                           /\ At(other, "forget")' <=> At(other, "forget")
        /\ At(other, "wait")' => Flight(other)' = "running"
  <2> SUFFICES ASSUME NEW other \in Calls
               PROVE  /\ Holds(other)' <=> Holds(other)
                      /\ Holds(other) => /\ Peer(other)' = Peer(other) /\ Key(other)' = Key(other)
                                         /\ At(other, "forget")' <=> At(other, "forget")
                      /\ At(other, "wait")' => Flight(other)' = "running"
    OBVIOUS
  <2>1. CASE other = call
    BY <2>1 DEF Holds, At
  <2>2. CASE other = client
    BY <1>2, <1>5, <2>2 DEF Holds, At, Peer, Key
  <2>3. CASE other # call /\ other # client
    <3>1. calls'[other] = calls[other]
      BY <1>4, <2>3
    <3> QED
      BY <3>1 DEF Inv, Flights, Holds, At, Flight, Peer, Key, QuietFrame
  <2> QED
    BY <2>1, <2>2, <2>3
<1>8. Flights'
  BY <1>7, FlightsStay DEF QuietFrame
<1>9. ASSUME NEW other \in Calls, Asks(other)'
      PROVE  other[2] > 0 /\ At(Client(other), "remote")'
  <2>1. other # call /\ Asks(other)
    BY <1>2, <1>4, <1>5, <1>9 DEF Asks, At
  <2>2. other[2] > 0 /\ At(Client(other), "remote") /\ Client(other) \in Calls
        /\ Server(Client(other)) = other
    BY <2>1, ClientAndServer DEF Inv, Requests
  <2>3. Client(other) # call /\ Client(other) # client
    BY <1>2, <2>1, <2>2 DEF At
  <2>4. calls'[Client(other)] = calls[Client(other)]
    BY <1>4, <2>2, <2>3
  <2> QED
    BY <2>2, <2>4 DEF At, Client
<1>10. ASSUME NEW other \in Calls, At(other, "remote")'
       PROVE  other[2] < MaxHops /\ Asks(Server(other))'
  <2>1. other # call /\ other # client /\ At(other, "remote")
    BY <1>2, <1>4, <1>5, <1>10 DEF At
  <2>2. other[2] < MaxHops /\ Asks(Server(other)) /\ Server(other) \in Calls
        /\ Client(Server(other)) = other
    BY <2>1, ClientAndServer DEF Inv, Requests
  <2>3. Server(other) # call
    BY <2>1, <2>2 DEF client
  <2>4. Asks(Server(other))' <=> Asks(Server(other))
    BY <1>2, <1>4, <1>5, <2>2, <2>3 DEF Asks, At, Server
  <2> QED
    BY <2>2, <2>4
<1>11. Requests'
  BY <1>9, <1>10 DEF Requests
<1> QED
  BY <1>3, <1>6, <1>8, <1>11

LEMMA AnswerErrorStep == ASSUME Inv, NEW call \in Calls, AnswerError(call) PROVE Inv'
<1> DEFINE client == Client(call)
           s == [calls[client] EXCEPT !.pc = "local"]
<1>1. calls[call].pc = "answer" /\ calls[call].asked
  BY DEF AnswerError, At
<1>2. /\ client \in Calls /\ client # call /\ calls[client].pc = "remote"
      /\ calls[client] \in Short
  <2>1. Asks(call) /\ call[2] > 0
    BY <1>1 DEF Asks, At, Inv, Requests
  <2>2. client \in Calls /\ client # call /\ calls[client].pc = "remote"
    BY <2>1, ClientAndServer DEF Inv, Requests, At
  <2> QED
    BY <2>2, StepFields DEF Inv, TypeOK, ShortPcs
<1>3. /\ s \in Short /\ s.pc = "local" /\ s.peer = Peer(client) /\ s.key = Key(client)
      /\ s.leads = calls[client].leads /\ s.asked = calls[client].asked
  BY <1>2 DEF Short, Peer, Key
<1>4. calls \in [Calls -> Steps] /\ calls' = [calls EXCEPT ![call] = Idle, ![client] = s]
  <2>1. calls' = [calls EXCEPT ![call] = Idle, ![client].pc = "local"]
        /\ calls \in [Calls -> Steps]
    BY DEF AnswerError, Inv, TypeOK
  <2> QED
    BY <1>2, <2>1
<1>5. /\ calls' \in [Calls -> Steps] /\ calls'[call].pc = "idle" /\ calls'[client] = s
      /\ \A other \in Calls \ {call, client} : calls'[other] = calls[other]
  <2>1. Idle \in Steps /\ s \in Steps /\ Idle.pc = "idle"
    BY <1>3 DEF Steps, Busy, Idle
  <2> HIDE DEF s, client
  <2> QED
    BY <1>2, <1>4, <2>1
<1>6. Shrinks /\ QuietFrame
  BY CachesStay DEF AnswerError, QuietFrame
<1> HIDE DEF s
<1>7. TypeOK' /\ Roles' /\ Flights' /\ Requests'
  BY <1>1, <1>3, <1>5, <1>6, Answered
<1>8. SawAbsent(client)
  BY <1>2, <1>3, <1>5 DEF SawAbsent, Inv, Caches, Absent, In, Whiches, Peer, Key
<1>9. SawAbsent(call)
  BY <1>5 DEF SawAbsent
<1>10. \A other \in Calls \ {call, client} : SawAbsent(other)
  BY <1>5, OldCallsSaw
<1> QED
  BY <1>6, <1>7, <1>8, <1>9, <1>10, CachesShrink DEF Inv

LEMMA AnswerOkStep == ASSUME Inv, NEW call \in Calls, AnswerOk(call) PROVE Inv'
<1> DEFINE client == Client(call)
<1>1. calls[call].pc = "answer" /\ calls[call].asked
  BY DEF AnswerOk, At
<1>2. client \in Calls /\ client # call /\ calls[client].pc = "remote" /\ ~At(client, "idle")
  <2>1. Asks(call) /\ call[2] > 0
    BY <1>1 DEF Asks, At, Inv, Requests
  <2> QED
    BY <2>1, ClientAndServer DEF Inv, Requests, At
<1>3. calls[client].leads
  BY <1>2 DEF Inv, Roles
<1>4. PICK pc \in {"main bytes", "finish"} :
        /\ calls' = [calls EXCEPT ![call] = Idle, ![client] = WithOutcome(client, pc, TRUE)]
        /\ \/ UNCHANGED cache
           \/ /\ CacheBytes > 0
              /\ cache' = [cache EXCEPT ![Peer(client)]["hot"] = add(@, Key(client))]
  BY AfterAddIs DEF AnswerOk, Added
<1> DEFINE s == WithOutcome(client, pc, TRUE)
<1>5. /\ s \in Steps /\ s.pc = pc /\ s.peer = Peer(client) /\ s.key = Key(client)
      /\ s.leads = calls[client].leads /\ s.asked = calls[client].asked
  <2>1. pc \in EndedPcs /\ pc # "answer" /\ TypeOK
    BY DEF EndedPcs, Inv
  <2> HIDE DEF client
  <2> QED
    BY <1>2, <2>1, OutcomeFields
<1> HIDE DEF s, client
<1>6. /\ calls' \in [Calls -> Steps] /\ calls'[call].pc = "idle" /\ calls'[client] = s
      /\ \A other \in Calls \ {call, client} : calls'[other] = calls[other]
  <2>1. Idle \in Steps /\ Idle.pc = "idle" /\ calls \in [Calls -> Steps]
    BY DEF Steps, Idle, Inv, TypeOK
  <2>2. calls' = [calls EXCEPT ![call] = Idle, ![client] = s]
    BY <1>4 DEF s
  <2> QED
    BY <1>2, <1>5, <2>1, <2>2
<1>7. calls'[client].pc \notin Absents /\ calls'[call].pc \notin Absents
  BY <1>5, <1>6 DEF Absents
<1>8. cache' \in [Peers -> [Whiches -> CacheSet]] /\ (TypeOK' => Caches')
  <2>1. CASE UNCHANGED cache
    <3>1. SawAbsent(client) /\ SawAbsent(call)
      BY <1>7 DEF SawAbsent, Absents
    <3>2. \A other \in Calls \ {call, client} : SawAbsent(other)
      BY <1>6, OldCallsSaw
    <3> QED
      BY <2>1, <3>1, <3>2, CachesStay, CachesShrink
  <2>2. CASE CacheBytes > 0
        /\ cache' = [cache EXCEPT ![Peer(client)]["hot"] = add(@, Key(client))]
    <3>1. \A other \in Calls : calls'[other] = calls[other] \/ calls'[other].pc \notin Absents
      BY <1>6, <1>7
    <3> QED
      BY <1>2, <1>7, <2>2, <3>1, AddKeeps DEF Whiches
  <2> QED
    BY <1>4, <2>1, <2>2
<1>9. TypeOK' /\ Roles' /\ Flights' /\ Requests'
  <2>1. QuietFrame
    BY <1>8 DEF QuietFrame, AnswerOk
  <2> QED
    BY <1>1, <1>5, <1>6, <2>1, Answered DEF client
<1> QED
  BY <1>8, <1>9 DEF Inv

\* The request begins a Get of its own.
LEMMA PickRemoteStep == ASSUME Inv, NEW call \in Calls, PickRemote(call) PROVE Inv'
<1> DEFINE server == Server(call)
           owner  == Owner(ring[Peer(call)], Key(call))
           new    == NewCall(owner, Key(call), TRUE)
           s      == [calls[call] EXCEPT !.pc = "remote"]
<1>1. /\ calls[call].pc = "pick" /\ calls[call].leads /\ call[2] < MaxHops /\ ~At(call, "idle")
      /\ calls[server].pc = "idle"
  BY DEF PickRemote, At, Inv, Roles
<1>2. /\ server \in Calls /\ server # call /\ Client(server) = call /\ server[2] > 0
  <2>1. server \in Calls /\ server # call /\ Client(server) = call
    BY <1>1, ClientAndServer
  <2>2. server[2] = call[2] + 1 /\ call[2] \in 0 .. MaxHops
    BY DEF Server, Calls
  <2> QED
    BY <2>1, <2>2, GroupAssumption
<1>3. /\ Peer(call) \in Peers /\ Key(call) \in Keys /\ calls[call] \in Short
  BY <1>1, BusyCall, StepFields DEF Inv, TypeOK, ShortPcs
<1>4. owner \in Peers
  <2>1. IsRing(ring[Peer(call)]) /\ ~IsEmpty(ring[Peer(call)])
    BY <1>3 DEF PickRemote, IsRemote, Inv, TypeOK
  <2> QED
    BY <2>1, OwnerIsPeer
<1>5. calls' = [calls EXCEPT ![call] = s, ![server] = new]
  <2>1. calls' = [calls EXCEPT ![call].pc = "remote", ![server] = new]
    BY DEF PickRemote
  <2> HIDE DEF new, server
  <2> QED
    BY <1>2, <2>1
<1> HIDE DEF owner
<1>6. /\ new \in Short /\ new.pc = "main" /\ new.leads = FALSE /\ new.asked = TRUE
  BY <1>3, <1>4 DEF NewCall, Short
<1>7. /\ s \in Short /\ s.pc = "remote" /\ s.peer = Peer(call) /\ s.key = Key(call)
      /\ s.leads = calls[call].leads /\ s.asked = calls[call].asked
  BY <1>3 DEF Short, Peer, Key
<1> HIDE DEF new, s, server
<1>8. /\ calls' \in [Calls -> Steps] /\ calls'[call] = s /\ calls'[server] = new
      /\ \A other \in Calls : other # call /\ other # server => calls'[other] = calls[other]
  <2>1. new \in Steps /\ s \in Steps /\ calls \in [Calls -> Steps]
    BY <1>6, <1>7 DEF Steps, Busy, Inv, TypeOK
  <2> QED
    BY <1>2, <1>5, <2>1
<1>9. Shrinks /\ TypeOK' /\ UNCHANGED flight
  BY <1>8, CachesStay DEF PickRemote, Inv, TypeOK
<1>10. Roles'
  BY <1>1, <1>6, <1>7, <1>8 DEF Inv, Roles
<1>11. \A other \in Calls :
        /\ Holds(other)' <=> Holds(other)
        /\ Holds(other) => /\ Peer(other)' = Peer(other) /\ Key(other)' = Key(other)
                           /\ At(other, "forget")' <=> At(other, "forget")
        /\ At(other, "wait")' => Flight(other)' = "running"
  <2> SUFFICES ASSUME NEW other \in Calls
               PROVE  /\ Holds(other)' <=> Holds(other)
                      /\ Holds(other) => /\ Peer(other)' = Peer(other) /\ Key(other)' = Key(other)
                                         /\ At(other, "forget")' <=> At(other, "forget")
                      /\ At(other, "wait")' => Flight(other)' = "running"
    OBVIOUS
  <2>1. CASE other = server
    BY <1>1, <1>6, <1>8, <2>1 DEF Holds, At
  <2>2. CASE other = call
    BY <1>1, <1>7, <1>8, <2>2 DEF Holds, At, Peer, Key
  <2>3. CASE other # call /\ other # server
    <3>1. calls'[other] = calls[other]
      BY <1>8, <2>3
    <3> QED
      BY <1>9, <3>1 DEF Inv, Flights, Holds, At, Flight, Peer, Key
  <2> QED
    BY <2>1, <2>2, <2>3
<1>12. Flights'
  BY <1>9, <1>11, FlightsStay
<1>13. ASSUME NEW other \in Calls, Asks(other)'
       PROVE  other[2] > 0 /\ At(Client(other), "remote")'
  <2>1. CASE other = server
    BY <1>2, <1>7, <1>8, <2>1 DEF At, Client
  <2>2. CASE other # server
    <3>1. Asks(other)
      BY <1>1, <1>7, <1>8, <1>13, <2>2 DEF Asks, At
    <3>2. other[2] > 0 /\ At(Client(other), "remote") /\ Client(other) \in Calls
      BY <3>1, ClientAndServer DEF Inv, Requests
    <3>3. calls'[Client(other)] = calls[Client(other)]
      BY <1>1, <1>8, <3>2 DEF At
    <3> QED
      BY <3>2, <3>3 DEF At, Client
  <2> QED
    BY <2>1, <2>2
<1>14. ASSUME NEW other \in Calls, At(other, "remote")'
       PROVE  other[2] < MaxHops /\ Asks(Server(other))'
  <2>1. CASE other = call
    BY <1>1, <1>6, <1>8, <2>1 DEF Asks, At, server
  <2>2. CASE other # call
    <3>1. other # server /\ At(other, "remote")
      BY <1>6, <1>8, <1>14, <2>2 DEF At
    <3>2. other[2] < MaxHops /\ Asks(Server(other)) /\ Server(other) \in Calls
      BY <3>1, ClientAndServer DEF Inv, Requests
    <3>3. Server(other) # server
      BY <1>1, <3>2 DEF Asks, At
    <3>4. Asks(Server(other))'
      BY <1>7, <1>8, <3>2, <3>3 DEF Asks, At, Server
    <3> QED
      BY <3>2, <3>4
  <2> QED
    BY <2>1, <2>2
<1>15. Requests'
  BY <1>13, <1>14 DEF Requests
<1>16. SawAbsent(call)
  BY <1>1, <1>7, <1>8 DEF SawAbsent, Inv, Caches, Absent, In, Whiches
<1>17. SawAbsent(server)
  BY <1>6, <1>8 DEF SawAbsent
<1>18. \A other \in Calls : other # call /\ other # server => SawAbsent(other)
  BY <1>8, OldCallsSaw
<1>19. Caches'
  BY <1>9, <1>16, <1>17, <1>18, CachesShrink
<1> QED
  BY <1>9, <1>10, <1>12, <1>15, <1>19 DEF Inv

\* A call that keeps all but whom it has to answer.
LEMMA WithoutAsker ==
  ASSUME NEW s \in Steps, s.pc # "idle"
  PROVE  LET t == [s EXCEPT !.asked = FALSE]
         IN  /\ t \in Steps /\ t.pc = s.pc /\ t.peer = s.peer /\ t.key = s.key
             /\ t.leads = s.leads /\ t.asked = FALSE
<1>1. CASE s \in Short
  BY <1>1 DEF Short, Steps, Busy
<1>2. CASE s \in Ended
  BY <1>2 DEF Ended, Steps, Busy
<1>3. CASE s \in Counting
  BY <1>3 DEF Counting, Steps, Busy
<1> QED
  BY <1>1, <1>2, <1>3 DEF Steps, Busy, Idle

LEMMA RequestFailsStep == ASSUME Inv, NEW call \in Calls, RequestFails(call) PROVE Inv'
<1> DEFINE server == Server(call)
           alone  == [calls[server] EXCEPT !.asked = FALSE]
           s      == [calls[call] EXCEPT !.pc = "local"]
<1>1. calls[call].pc = "remote" /\ calls[call].leads
  BY DEF RequestFails, At, Inv, Roles
<1>2. /\ server \in Calls /\ server # call /\ Client(server) = call
      /\ calls[server].pc # "idle"
  BY <1>1, ClientAndServer DEF Inv, Requests, At, Asks
<1>3. calls[call] \in Short /\ calls[server] \in Steps /\ calls \in [Calls -> Steps]
  BY <1>1, <1>2, StepFields DEF Inv, TypeOK, ShortPcs
<1>4. calls' = [calls EXCEPT ![call] = s, ![server] = alone]
  <2>1. calls' = [calls EXCEPT ![call].pc = "local", ![server].asked = FALSE]
    BY DEF RequestFails
  <2> HIDE DEF server
  <2> QED
    BY <1>2, <2>1
<1>5. /\ alone \in Steps /\ alone.pc = calls[server].pc /\ alone.peer = Peer(server)
      /\ alone.key = Key(server) /\ alone.leads = calls[server].leads /\ alone.asked = FALSE
  BY <1>2, <1>3, WithoutAsker DEF Peer, Key
<1>6. /\ s \in Short /\ s.pc = "local" /\ s.peer = Peer(call) /\ s.key = Key(call)
      /\ s.leads = calls[call].leads /\ s.asked = calls[call].asked
  BY <1>3 DEF Short, Peer, Key
<1> HIDE DEF alone, s, server
<1>7. /\ calls' \in [Calls -> Steps] /\ calls'[call] = s /\ calls'[server] = alone
      /\ \A other \in Calls : other # call /\ other # server => calls'[other] = calls[other]
  <2>1. s \in Steps
    BY <1>6 DEF Steps, Busy
  <2> QED
    BY <1>2, <1>3, <1>4, <1>5, <2>1
<1>8. Shrinks /\ TypeOK' /\ UNCHANGED flight
  BY <1>7, CachesStay DEF RequestFails, Inv, TypeOK
<1>9. Roles'
  BY <1>1, <1>2, <1>5, <1>6, <1>7 DEF Inv, Roles
<1>10. \A other \in Calls :
        /\ Holds(other)' <=> Holds(other)
        /\ Holds(other) => /\ Peer(other)' = Peer(other) /\ Key(other)' = Key(other)
                           /\ At(other, "forget")' <=> At(other, "forget")
        /\ At(other, "wait")' => Flight(other)' = "running"
  <2> SUFFICES ASSUME NEW other \in Calls
               PROVE  /\ Holds(other)' <=> Holds(other)
                      /\ Holds(other) => /\ Peer(other)' = Peer(other) /\ Key(other)' = Key(other)
                                         /\ At(other, "forget")' <=> At(other, "forget")
                      /\ At(other, "wait")' => Flight(other)' = "running"
    OBVIOUS
  <2>1. CASE other = call
    BY <1>1, <1>6, <1>7, <2>1 DEF Holds, At, Peer, Key
  <2>2. CASE other # call
    <3>1. /\ calls'[other].pc = calls[other].pc /\ calls'[other].leads = calls[other].leads
          /\ Peer(other)' = Peer(other) /\ Key(other)' = Key(other)
      BY <1>5, <1>7, <2>2 DEF Peer, Key
    <3> QED
      BY <1>8, <3>1 DEF Inv, Flights, Holds, At, Flight
  <2> QED
    BY <2>1, <2>2
<1>11. Flights'
  BY <1>8, <1>10, FlightsStay
<1>12. ASSUME NEW other \in Calls, Asks(other)'
       PROVE  other[2] > 0 /\ At(Client(other), "remote")'
  <2>1. other # server /\ Asks(other)
    BY <1>1, <1>5, <1>6, <1>7, <1>12 DEF Asks, At
  <2>2. /\ other[2] > 0 /\ At(Client(other), "remote") /\ Client(other) \in Calls
        /\ Server(Client(other)) = other
    BY <2>1, ClientAndServer DEF Inv, Requests
  <2>3. Client(other) # call
    BY <2>1, <2>2 DEF server
  <2>4. calls'[Client(other)].pc = calls[Client(other)].pc
    BY <1>5, <1>7, <2>2, <2>3
  <2> QED
    BY <2>2, <2>4 DEF At, Client
<1>13. ASSUME NEW other \in Calls, At(other, "remote")'
       PROVE  other[2] < MaxHops /\ Asks(Server(other))'
  <2>1. other # call /\ At(other, "remote")
    BY <1>5, <1>6, <1>7, <1>13 DEF At
  <2>2. /\ other[2] < MaxHops /\ Asks(Server(other)) /\ Server(other) \in Calls
        /\ Client(Server(other)) = other
    BY <2>1, ClientAndServer DEF Inv, Requests
  <2>3. Server(other) # server
    BY <1>2, <2>1, <2>2
  <2>4. Asks(Server(other))'
    BY <1>1, <1>6, <1>7, <2>2, <2>3 DEF Asks, At, Server
  <2> QED
    BY <2>2, <2>4
<1>14. Requests'
  BY <1>12, <1>13 DEF Requests
<1>15. SawAbsent(call)
  BY <1>1, <1>6, <1>7 DEF SawAbsent, Inv, Caches, Absent, In, Whiches
<1>16. SawAbsent(server)
  BY <1>2, <1>5, <1>7 DEF SawAbsent, Inv, Caches, Absent, In, At, Whiches
<1>17. \A other \in Calls : other # call /\ other # server => SawAbsent(other)
  BY <1>7, OldCallsSaw
<1>18. Caches'
  BY <1>8, <1>15, <1>16, <1>17, CachesShrink
<1> QED
  BY <1>8, <1>9, <1>11, <1>14, <1>18 DEF Inv

-----------------------------------------------------------------------------
(* Steps that begin and end a Get and a load.                              *)

LEMMA GetStep == ASSUME Inv, NEW c \in Callers, NEW key \in Keys, Get(c, key) PROVE Inv'
<1> DEFINE call == <<c, 0>>
           new  == NewCall(Home[c], key, FALSE)
<1>1. call \in Calls /\ calls[call].pc = "idle"
  BY GroupAssumption DEF Get, At, Calls
<1>2. /\ new \in Short /\ new.pc = "main" /\ new.leads = FALSE /\ new.asked = FALSE
  BY GroupAssumption DEF NewCall, Short
<1>3. calls' = [calls EXCEPT ![call] = new] /\ calls \in [Calls -> Steps]
  BY DEF Get, Inv, TypeOK
<1> HIDE DEF new, call
<1>4. /\ calls' \in [Calls -> Steps] /\ calls'[call] = new
      /\ \A other \in Calls : other # call => calls'[other] = calls[other]
  BY <1>1, <1>2, <1>3 DEF Steps, Busy
<1>5. Shrinks /\ TypeOK' /\ UNCHANGED flight
  BY <1>4, CachesStay DEF Get, Inv, TypeOK
<1>6. Roles'
  BY <1>2, <1>4 DEF Inv, Roles
<1>7. \A other \in Calls :
        /\ Holds(other)' <=> Holds(other)
        /\ Holds(other) => /\ Peer(other)' = Peer(other) /\ Key(other)' = Key(other)
                           /\ At(other, "forget")' <=> At(other, "forget")
        /\ At(other, "wait")' => Flight(other)' = "running"
  BY <1>1, <1>2, <1>4, <1>5 DEF Inv, Flights, Holds, At, Flight, Peer, Key
<1>8. Flights'
  BY <1>5, <1>7, FlightsStay
<1>9. Requests'
  <2>1. \A other \in Calls : (At(other, "remote")' <=> At(other, "remote"))
          /\ (Asks(other)' <=> Asks(other))
    BY <1>1, <1>2, <1>4 DEF At, Asks
  <2> QED
    BY <2>1, RequestsStay
<1>10. \A other \in Calls : SawAbsent(other)
  <2>1. SawAbsent(call)
    BY <1>2, <1>4 DEF SawAbsent
  <2> QED
    BY <1>4, <2>1, OldCallsSaw
<1>11. Caches'
  BY <1>5, <1>10, CachesShrink
<1> QED
  BY <1>5, <1>6, <1>8, <1>9, <1>11 DEF Inv

LEMMA DoLeadStep == ASSUME Inv, NEW call \in Calls, DoLead(call) PROVE Inv'
<1> DEFINE s == [calls[call] EXCEPT !.pc = "main", !.leads = TRUE]
<1>1. calls[call].pc = "load" /\ Flight(call) = "none" /\ ~At(call, "idle")
  BY DEF DoLead, At, Flight
<1>2. Peer(call) \in Peers /\ Key(call) \in Keys /\ calls[call] \in Short
  BY <1>1, BusyCall, StepFields DEF Inv, TypeOK, ShortPcs
<1>3. calls' = [calls EXCEPT ![call] = s] /\ calls \in [Calls -> Steps]
  BY DEF DoLead, Inv, TypeOK
<1>4. /\ s \in Short /\ s.pc = "main" /\ s.peer = Peer(call) /\ s.key = Key(call)
      /\ s.leads = TRUE /\ s.asked = calls[call].asked
  BY <1>2 DEF Short, Peer, Key
<1> HIDE DEF s
<1>5. /\ calls' \in [Calls -> Steps] /\ calls'[call] = s
      /\ \A other \in Calls : other # call => calls'[other] = calls[other]
  BY <1>3, <1>4 DEF Steps, Busy
<1>6. /\ flight' \in [Peers -> [Keys -> {"none", "running", "ok", "failed"}]]
      /\ \A p \in Peers, key \in Keys :
           flight'[p][key] = IF p = Peer(call)
           /\ key = Key(call) THEN "running" ELSE flight[p][key]
  <2>1. /\ flight \in [Peers -> [Keys -> {"none", "running", "ok", "failed"}]]
        /\ flight' = [flight EXCEPT ![Peer(call)][Key(call)] = "running"]
    BY DEF DoLead, Inv, TypeOK
  <2> QED
    BY <1>2, <2>1
<1>7. Shrinks /\ TypeOK'
  BY <1>5, <1>6, CachesStay DEF DoLead, Inv, TypeOK
<1>8. Roles'
  BY <1>4, <1>5 DEF Inv, Roles
<1>9. \A other \in Calls : Holds(other) => ~Same(call, other)
  <2>1. \A other \in Calls : Holds(other) => Flight(other) # "none"
    BY DEF Inv, Flights
  <2> QED
    BY <1>1, <2>1 DEF Flight, Same
<1>10. Flights'
  <2>1. Holds(call)' /\ ~At(call, "forget")' /\ Flight(call)' = "running" /\ ~At(call, "wait")'
        /\ Peer(call)' = Peer(call) /\ Key(call)' = Key(call)
    BY <1>2, <1>4, <1>5, <1>6 DEF Holds, At, Flight, Peer, Key
  <2>2. \A other \in Calls : other # call =>
          /\ Holds(other)' = Holds(other) /\ At(other, "forget")' = At(other, "forget")
          /\ At(other, "wait")' = At(other, "wait")
          /\ Peer(other)' = Peer(other) /\ Key(other)' = Key(other)
    BY <1>5 DEF Holds, At, Peer, Key
  <2>3. \A other \in Calls : ~At(other, "idle") /\ other # call =>
          Flight(other)' = IF Same(call, other) THEN "running" ELSE Flight(other)
    BY <1>5, <1>6, BusyCall DEF Flight, Same, Peer, Key, Inv
  <2>4. \A other \in Calls : Holds(other)' =>
          Flight(other)' \in IF At(other, "forget")' THEN {"ok", "failed"} ELSE {"running"}
    <3> SUFFICES ASSUME NEW other \in Calls, other # call, Holds(other)
                 PROVE  Flight(other)' \in IF At(other, "forget")' THEN {"ok", "failed"} ELSE {"running"}
      BY <2>1, <2>2
    <3>1. Flight(other)' = Flight(other)
      BY <1>9, <2>3 DEF Holds, At
    <3> QED
      BY <2>2, <3>1 DEF Inv, Flights
  <2>5. \A one, other \in Calls : Holds(one)' /\ Holds(other)' /\ Same(one, other)' => one = other
    BY <1>9, <2>1, <2>2 DEF Inv, Flights, Same
  <2>6. \A p \in Peers, key \in Keys : flight'[p][key] # "none" =>
          \E other \in Calls : Holds(other)' /\ Peer(other)' = p /\ Key(other)' = key
    <3> SUFFICES ASSUME NEW p \in Peers, NEW key \in Keys, flight'[p][key] # "none"
                 PROVE  \E other \in Calls : Holds(other)' /\ Peer(other)' = p
                        /\ Key(other)' = key
      OBVIOUS
    <3>1. CASE p = Peer(call) /\ key = Key(call)
      BY <2>1, <3>1
    <3>2. CASE ~(p = Peer(call) /\ key = Key(call))
      <4>1. PICK other \in Calls : Holds(other) /\ Peer(other) = p /\ Key(other) = key
        BY <1>6, <3>2 DEF Inv, Flights
      <4> QED
        BY <2>2, <3>2, <4>1
    <3> QED
      BY <3>1, <3>2
  <2>7. \A other \in Calls : At(other, "wait")' => Flight(other)' = "running"
    BY <2>1, <2>2, <2>3 DEF Inv, Flights, At
  <2> QED
    BY <2>4, <2>5, <2>6, <2>7 DEF Flights
<1>11. Requests'
  <2>1. \A other \in Calls : (At(other, "remote")' <=> At(other, "remote"))
          /\ (Asks(other)' <=> Asks(other))
    BY <1>1, <1>4, <1>5 DEF At, Asks
  <2> QED
    BY <2>1, RequestsStay
<1>12. \A other \in Calls : SawAbsent(other)
  <2>1. SawAbsent(call)
    BY <1>4, <1>5 DEF SawAbsent
  <2> QED
    BY <1>5, <2>1, OldCallsSaw
<1>13. Caches'
  BY <1>7, <1>12, CachesShrink
<1> QED
  BY <1>7, <1>8, <1>10, <1>11, <1>13 DEF Inv

LEMMA FinishStep == ASSUME Inv, NEW call \in Calls, Finish(call) PROVE Inv'
<1> DEFINE ok  == calls[call].ok
           new(w) == IF w \in Waiters(call) THEN WithOutcome(w, "answer", ok)
                     ELSE IF w = call THEN WithOutcome(w, "forget", ok) ELSE calls[w]
<1>1. calls[call].pc = "finish" /\ calls[call].leads /\ ~At(call, "idle") /\ ok \in BOOLEAN
  <2>1. calls[call].pc = "finish" /\ calls[call].leads
    BY DEF Finish, At, Inv, Roles
  <2>2. calls[call] \in Ended
    BY <2>1, StepFields DEF Inv, TypeOK, EndedPcs
  <2> QED
    BY <2>1, <2>2 DEF Ended, At
<1>2. Peer(call) \in Peers /\ Key(call) \in Keys
  BY <1>1, BusyCall DEF Inv
<1>3. /\ call \notin Waiters(call)
      /\ \A w \in Waiters(call) : calls[w].pc = "wait" /\ ~At(w, "idle") /\ ~calls[w].leads
      /\ \A w \in Calls : calls[w].pc = "wait" /\ w \notin Waiters(call) => ~Same(w, call)
  BY <1>1 DEF Waiters, At, Inv, Roles, Same
<1>4. calls' = [w \in Calls |-> new(w)]
  BY DEF Finish
<1>5. ASSUME NEW w \in Calls, w \in Waiters(call)
      PROVE  /\ calls'[w] \in Steps /\ calls'[w].pc \in {"idle", "answer"}
             /\ calls'[w].pc # "idle" => calls[w].asked /\ calls'[w].asked
             /\ calls[w].asked => calls'[w].pc = "answer" /\ calls'[w].asked
  <2>1. calls'[w] = WithOutcome(w, "answer", ok)
    BY <1>4, <1>5
  <2>2. ~At(w, "idle") /\ calls[w].asked \in BOOLEAN /\ TypeOK
    BY <1>3, <1>5, BusyCall DEF Inv
  <2>3. "answer" \in EndedPcs
    BY DEF EndedPcs
  <2> HIDE DEF ok, new
  <2> QED
    BY <1>1, <2>1, <2>2, <2>3, OutcomeFields
<1>6. /\ calls'[call] \in Steps /\ calls'[call].pc = "forget"
      /\ Peer(call)' = Peer(call) /\ Key(call)' = Key(call)
      /\ calls'[call].leads = calls[call].leads /\ calls'[call].asked = calls[call].asked
  <2>1. calls'[call] = WithOutcome(call, "forget", ok)
    BY <1>3, <1>4
  <2>2. "forget" \in EndedPcs /\ "forget" # "answer" /\ TypeOK
    BY DEF EndedPcs, Inv
  <2>3. calls'[call].peer = Peer(call) /\ calls'[call].key = Key(call) =>
          Peer(call)' = Peer(call) /\ Key(call)' = Key(call)
    BY DEF Peer, Key
  <2> HIDE DEF ok, new
  <2> DEFINE s == WithOutcome(call, "forget", ok)
  <2>4. /\ s \in Steps /\ s.pc = "forget" /\ s.peer = Peer(call) /\ s.key = Key(call)
        /\ s.leads = calls[call].leads /\ s.asked = calls[call].asked
    BY <1>1, <2>2, OutcomeFields
  <2> HIDE DEF s
  <2>5. calls'[call] = s
    BY <2>1 DEF s
  <2> QED
    BY <2>3, <2>4, <2>5
<1>7. \A w \in Calls : w # call /\ w \notin Waiters(call) => calls'[w] = calls[w]
  BY <1>4
<1>8. calls' \in [Calls -> Steps]
  <2>1. \A w \in Calls : calls'[w] \in Steps
    BY <1>5, <1>6, <1>7 DEF Inv, TypeOK
  <2> HIDE DEF new
  <2> QED
    BY <1>4, <2>1
<1>9. PICK outcome \in {"ok", "failed"} : flight' = [flight EXCEPT ![Peer(call)][Key(call)] = outcome]
  BY DEF Finish
<1>10. /\ flight' \in [Peers -> [Keys -> {"none", "running", "ok", "failed"}]]
       /\ \A p \in Peers, key \in Keys :
            flight'[p][key] = IF p = Peer(call)
            /\ key = Key(call) THEN outcome ELSE flight[p][key]
  <2>1. flight \in [Peers -> [Keys -> {"none", "running", "ok", "failed"}]]
    BY DEF Inv, TypeOK
  <2> QED
    BY <1>2, <1>9, <2>1
<1>11. Shrinks /\ TypeOK'
  BY <1>8, <1>10, CachesStay DEF Finish, Inv, TypeOK
<1> HIDE DEF new, ok
<1>12. Roles'
  BY <1>1, <1>5, <1>6, <1>7 DEF Inv, Roles
<1>13. Flights'
  <2>1. Holds(call) /\ Holds(call)' /\ At(call, "forget")' /\ ~At(call, "wait")'
    BY <1>1, <1>6 DEF Holds, At
  <2>2. \A other \in Calls : other # call =>
          /\ Holds(other)' <=> Holds(other)
          /\ Holds(other)' \/ At(other, "wait")' =>
               /\ other \notin Waiters(call)
               /\ Peer(other)' = Peer(other) /\ Key(other)' = Key(other)
               /\ At(other, "forget")' <=> At(other, "forget")
               /\ At(other, "wait")' <=> At(other, "wait")
    BY <1>3, <1>5, <1>7 DEF Holds, At, Peer, Key
  <2>3. \A other \in Calls : Holds(other) /\ other # call => ~Same(other, call)
    BY <2>1 DEF Inv, Flights
  <2>4. ASSUME NEW other \in Calls, ~At(other, "idle"), ~Same(other, call),
               Peer(other)' = Peer(other), Key(other)' = Key(other)
        PROVE  Flight(other)' = Flight(other)
    <3>1. Peer(other) \in Peers /\ Key(other) \in Keys
      BY <2>4, BusyCall DEF Inv
    <3> QED
      BY <1>10, <2>4, <3>1 DEF Flight, Same
  <2>5. \A other \in Calls : Holds(other)' =>
          Flight(other)' \in IF At(other, "forget")' THEN {"ok", "failed"} ELSE {"running"}
    <3>1. Flight(call)' = outcome
      BY <1>2, <1>6, <1>10 DEF Flight
    <3>2. ASSUME NEW other \in Calls, other # call, Holds(other)'
          PROVE  Flight(other)' \in IF At(other, "forget")' THEN {"ok", "failed"} ELSE {"running"}
      <4>1. Flight(other)' = Flight(other)
        BY <2>2, <2>3, <2>4, <3>2 DEF Holds, At
      <4> QED
        BY <2>2, <3>2, <4>1 DEF Inv, Flights
    <3> QED
      BY <2>1, <3>1, <3>2
  <2>6. \A one, other \in Calls : Holds(one)' /\ Holds(other)' /\ Same(one, other)' => one = other
    BY <1>6, <2>1, <2>2 DEF Inv, Flights, Same
  <2>7. \A p \in Peers, key \in Keys : flight'[p][key] # "none" =>
          \E other \in Calls : Holds(other)' /\ Peer(other)' = p /\ Key(other)' = key
    <3> SUFFICES ASSUME NEW p \in Peers, NEW key \in Keys, flight'[p][key] # "none"
                 PROVE  \E other \in Calls : Holds(other)' /\ Peer(other)' = p
                        /\ Key(other)' = key
      OBVIOUS
    <3>1. CASE p = Peer(call) /\ key = Key(call)
      BY <1>6, <2>1, <3>1
    <3>2. CASE ~(p = Peer(call) /\ key = Key(call))
      <4>1. PICK other \in Calls : Holds(other) /\ Peer(other) = p /\ Key(other) = key
        BY <1>10, <3>2 DEF Inv, Flights
      <4> QED
        BY <2>2, <3>2, <4>1
    <3> QED
      BY <3>1, <3>2
  <2>8. ASSUME NEW other \in Calls, At(other, "wait")'
        PROVE  Flight(other)' = "running"
    <3>1. other # call /\ At(other, "wait") /\ other \notin Waiters(call)
          /\ Peer(other)' = Peer(other) /\ Key(other)' = Key(other)
      BY <2>1, <2>2, <2>8
    <3>2. ~Same(other, call) /\ ~At(other, "idle")
      BY <1>3, <3>1 DEF At
    <3> QED
      BY <2>4, <3>1, <3>2 DEF Inv, Flights
  <2> QED
    BY <2>5, <2>6, <2>7, <2>8 DEF Flights
<1>14. Requests'
  <2>1. \A other \in Calls : (At(other, "remote")' <=> At(other, "remote"))
          /\ (Asks(other)' <=> Asks(other))
    BY <1>1, <1>3, <1>5, <1>6, <1>7 DEF At, Asks
  <2> QED
    BY <2>1, RequestsStay
<1>15. \A other \in Calls : SawAbsent(other)
  <2>1. SawAbsent(call)
    BY <1>6 DEF SawAbsent
  <2>2. \A other \in Calls : other \in Waiters(call) => SawAbsent(other)
    BY <1>5 DEF SawAbsent
  <2> QED
    BY <1>7, <2>1, <2>2, OldCallsSaw
<1>16. Caches'
  BY <1>11, <1>15, CachesShrink
<1> QED
  BY <1>11, <1>12, <1>13, <1>14, <1>16 DEF Inv

LEMMA ForgetStep == ASSUME Inv, NEW call \in Calls, Forget(call) PROVE Inv'
<1>1. calls[call].pc = "forget" /\ calls[call].leads /\ ~At(call, "idle")
      /\ calls[call].ok \in BOOLEAN
  <2>1. calls[call].pc = "forget" /\ calls[call].leads
    BY DEF Forget, At, Inv, Roles
  <2>2. calls[call] \in Ended
    BY <2>1, StepFields DEF Inv, TypeOK, EndedPcs
  <2> QED
    BY <2>1, <2>2 DEF Ended, At
<1>2. Peer(call) \in Peers /\ Key(call) \in Keys /\ calls[call].asked \in BOOLEAN
  BY <1>1, BusyCall DEF Inv
<1>3. IF ~calls[call].asked THEN Leaves(call) ELSE Moves(call, "answer")
  BY <1>1, OutcomeMoves DEF Forget, EndedPcs, Inv
<1>4. /\ calls' \in [Calls -> Steps] /\ calls'[call].pc \in {"idle", "answer"}
      /\ calls[call].asked => calls'[call].pc = "answer" /\ calls'[call].asked
      /\ ~calls[call].asked => calls'[call].pc = "idle"
      /\ \A other \in Calls : other # call => calls'[other] = calls[other]
  BY <1>2, <1>3 DEF Leaves, Moves, OthersStay
<1>5. /\ flight' \in [Peers -> [Keys -> {"none", "running", "ok", "failed"}]]
      /\ \A p \in Peers, key \in Keys :
           flight'[p][key] = IF p = Peer(call) /\ key = Key(call) THEN "none" ELSE flight[p][key]
  <2>1. /\ flight \in [Peers -> [Keys -> {"none", "running", "ok", "failed"}]]
        /\ flight' = [flight EXCEPT ![Peer(call)][Key(call)] = "none"]
    BY DEF Forget, Inv, TypeOK
  <2> QED
    BY <1>2, <2>1
<1>6. Shrinks /\ TypeOK'
  BY <1>4, <1>5, CachesStay DEF Forget, Inv, TypeOK
<1>7. Roles'
  BY <1>4 DEF Inv, Roles
<1>8. Flights'
  <2>1. Holds(call) /\ ~Holds(call)' /\ ~At(call, "wait")' /\ Flight(call) \in {"ok", "failed"}
    BY <1>1, <1>4 DEF Holds, At, Inv, Flights
  <2>2. \A other \in Calls : other # call =>
          /\ Holds(other)' = Holds(other) /\ At(other, "forget")' = At(other, "forget")
          /\ At(other, "wait")' = At(other, "wait")
          /\ Peer(other)' = Peer(other) /\ Key(other)' = Key(other)
    BY <1>4 DEF Holds, At, Peer, Key
  <2>3. \A other \in Calls : Holds(other) /\ other # call => ~Same(other, call)
    BY <2>1 DEF Inv, Flights
  <2>4. \A other \in Calls : At(other, "wait") => ~Same(other, call)
    BY <2>1 DEF Inv, Flights, Same, Flight
  <2>5. ASSUME NEW other \in Calls, other # call, ~At(other, "idle"), ~Same(other, call)
        PROVE  Flight(other)' = Flight(other)
    <3>1. Peer(other) \in Peers /\ Key(other) \in Keys
      BY <2>5, BusyCall DEF Inv
    <3> QED
      BY <1>5, <2>2, <2>5, <3>1 DEF Flight, Same
  <2>6. \A other \in Calls : Holds(other)' =>
          Flight(other)' \in IF At(other, "forget")' THEN {"ok", "failed"} ELSE {"running"}
    <3> SUFFICES ASSUME NEW other \in Calls, other # call, Holds(other)
                 PROVE  Flight(other)' \in IF At(other, "forget")' THEN {"ok", "failed"} ELSE {"running"}
      BY <2>1, <2>2
    <3>1. Flight(other)' = Flight(other)
      BY <2>3, <2>5 DEF Holds, At
    <3> QED
      BY <2>2, <3>1 DEF Inv, Flights
  <2>7. \A one, other \in Calls : Holds(one)' /\ Holds(other)' /\ Same(one, other)' => one = other
    BY <2>1, <2>2 DEF Inv, Flights, Same
  <2>8. \A p \in Peers, key \in Keys : flight'[p][key] # "none" =>
          \E other \in Calls : Holds(other)' /\ Peer(other)' = p /\ Key(other)' = key
    <3> SUFFICES ASSUME NEW p \in Peers, NEW key \in Keys, flight'[p][key] # "none"
                 PROVE  \E other \in Calls : Holds(other)' /\ Peer(other)' = p
                        /\ Key(other)' = key
      OBVIOUS
    <3>1. ~(p = Peer(call) /\ key = Key(call)) /\ flight[p][key] # "none"
      BY <1>5
    <3>2. PICK other \in Calls : Holds(other) /\ Peer(other) = p /\ Key(other) = key
      BY <3>1 DEF Inv, Flights
    <3> QED
      BY <2>2, <3>1, <3>2
  <2>9. \A other \in Calls : At(other, "wait")' => Flight(other)' = "running"
    <3> SUFFICES ASSUME NEW other \in Calls, other # call, At(other, "wait")
                 PROVE  Flight(other)' = "running"
      BY <2>1, <2>2
    <3>1. Flight(other)' = Flight(other)
      BY <2>4, <2>5 DEF At
    <3> QED
      BY <3>1 DEF Inv, Flights
  <2> QED
    BY <2>6, <2>7, <2>8, <2>9 DEF Flights
<1>9. Requests'
  <2>1. \A other \in Calls : (At(other, "remote")' <=> At(other, "remote"))
          /\ (Asks(other)' <=> Asks(other))
    BY <1>1, <1>2, <1>4 DEF At, Asks
  <2> QED
    BY <2>1, RequestsStay
<1>10. \A other \in Calls : SawAbsent(other)
  <2>1. SawAbsent(call)
    BY <1>4 DEF SawAbsent
  <2> QED
    BY <1>4, <2>1, OldCallsSaw
<1>11. Caches'
  BY <1>6, <1>10, CachesShrink
<1> QED
  BY <1>6, <1>7, <1>8, <1>9, <1>11 DEF Inv

\* What is not the ring stays.
LEMMA RingStep ==
  ASSUME Inv, UNCHANGED <<cache, flight, calls>>,
         DOMAIN ring' = Peers, \A p \in Peers : IsRing(ring'[p])
  PROVE  Inv'
<1>1. TypeOK' /\ Roles'
  BY DEF Inv, TypeOK, Roles
<1>2. Flights'
  BY DEF Inv, Flights, Holds, At, Flight, Same, Peer, Key
<1>3. Requests'
  BY DEF Inv, Requests, Asks, At, Client, Server
<1>4. Caches'
  BY DEF Inv, Caches, KeyInOneCache, Absent, In, At, Peer, Key
<1> QED
  BY <1>1, <1>2, <1>3, <1>4 DEF Inv

LEMMA SetPeersStep ==
  ASSUME Inv, NEW p \in Peers, NEW peers \in PeerLists, SetPeers(p, peers)
  PROVE  Inv'
<1> DEFINE r == AddPeers(EmptyRing, peers)
<1>1. IsRing(r)
  BY RingOfPeers, GroupAssumption
<1>2. ring' = [ring EXCEPT ![p] = r] /\ UNCHANGED <<cache, flight, calls>>
  BY DEF SetPeers
<1> HIDE DEF r
<1>3. DOMAIN ring' = Peers /\ \A other \in Peers : IsRing(ring'[other])
  BY <1>1, <1>2 DEF Inv, TypeOK
<1> QED
  BY <1>2, <1>3, RingStep

LEMMA NextInv == Inv /\ [Next]_vars => Inv'
<1> SUFFICES ASSUME Inv, [Next]_vars
             PROVE  Inv'
  OBVIOUS
<1>1. CASE \E p \in Peers, peers \in PeerLists : SetPeers(p, peers)
  BY <1>1, SetPeersStep
<1>2. CASE \E c \in Callers, key \in Keys : Get(c, key)
  BY <1>2, GetStep
<1>3. ASSUME NEW call \in Calls, Step(call) PROVE Inv'
  <2>1. CASE Lookup(call)
    BY <2>1, lookupHitStep, lookupMissStep DEF Lookup, Whiches
  <2>2. CASE Do(call)
    BY <2>2, DoLeadStep, DoWaitStep, DoLateStep, FinishStep, ForgetStep DEF Do
  <2>3. CASE Pick(call)
    BY <2>3, PickLocalStep, PickRemoteStep DEF Pick
  <2>4. CASE getLocally(call)
    BY <2>4, LocalOkStep, LocalErrorStep DEF getLocally
  <2>5. CASE populateCache(call)
    BY <2>5, EvictStep, MainBytesStep, BothFitStep DEF populateCache, Whiches
  <2>6. CASE Answer(call)
    BY <2>6, UnheardStep, AnswerOkStep, AnswerErrorStep DEF Answer
  <2> QED
    BY <1>3, <2>1, <2>2, <2>3, <2>4, <2>5, <2>6 DEF Step
<1>4. CASE \E call \in Calls : PickUnreachable(call) \/ RequestFails(call)
  BY <1>4, PickLocalStep, RequestFailsStep
<1>5. CASE UNCHANGED vars
  <2>1. UNCHANGED <<ring, cache, flight, calls>>
    BY <1>5 DEF vars
  <2>2. DOMAIN ring' = Peers /\ \A p \in Peers : IsRing(ring'[p])
    BY <2>1 DEF Inv, TypeOK
  <2> QED
    BY <2>1, <2>2, RingStep
<1> QED
  BY <1>1, <1>2, <1>3, <1>4, <1>5 DEF Next

-----------------------------------------------------------------------------
(* The limit.                                                              *)

Fit(p) == cache[p]["main"].nbytes + cache[p]["hot"].nbytes <= CacheBytes

\* A call that is evicting, and does not go by fewer bytes of the main cache
\* than there are: it will see that the caches are over their limit.
Watches(call) ==
  \/ calls[call].pc \in {"main bytes", "evict main", "evict hot"}
  \/ /\ calls[call].pc = "hot bytes"
     /\ cache[Peer(call)]["main"].nbytes <= calls[call].mainBytes

Limits == \A p \in Peers : Fit(p) \/ \E call \in Calls : Watches(call) /\ Peer(call) = p

\* The caches take no more bytes than before.
BytesShrink == \A p \in Peers, which \in Whiches : cache'[p][which].nbytes <= cache[p][which].nbytes

\* A call that watched goes on to watch.
WatchesOn(call) == Watches(call) => Watches(call)' /\ Peer(call)' = Peer(call)

LEMMA LimitsStay ==
  ASSUME TypeOK, TypeOK', Limits, BytesShrink, \A call \in Calls : WatchesOn(call)
  PROVE  Limits'
<1> SUFFICES ASSUME NEW p \in Peers
             PROVE  Fit(p)' \/ \E call \in Calls : Watches(call)' /\ Peer(call)' = p
  BY DEF Limits
<1>1. CASE Fit(p)
  <2>1. \A which \in Whiches :
          /\ cache[p][which].nbytes \in Int /\ cache'[p][which].nbytes \in Int
          /\ cache'[p][which].nbytes <= cache[p][which].nbytes
    BY DEF TypeOK, CacheSet, BytesShrink
  <2> QED
    BY <1>1, <2>1, GroupAssumption DEF Fit, Whiches
<1>2. CASE ~Fit(p)
  BY <1>2 DEF Limits, WatchesOn
<1> QED
  BY <1>1, <1>2

\* A call that is not touched goes on to watch, for the main cache does not grow.
LEMMA StayedOn ==
  ASSUME TypeOK, TypeOK', BytesShrink, NEW call \in Calls,
         calls'[call].pc = calls[call].pc, calls'[call].peer = calls[call].peer,
         calls[call].pc = "hot bytes" => calls'[call].mainBytes = calls[call].mainBytes
  PROVE  WatchesOn(call)
<1>1. CASE calls[call].pc = "hot bytes"
  <2>1. Peer(call) \in Peers /\ calls[call] \in Counting
    BY <1>1, BusyCall, StepFields DEF TypeOK, At
  <2>2. PICK p \in Peers : calls[call].peer = p /\ calls'[call].peer = p
    BY <2>1 DEF Peer
  <2>3. /\ cache[p]["main"].nbytes \in Int /\ cache'[p]["main"].nbytes \in Int
        /\ cache'[p]["main"].nbytes <= cache[p]["main"].nbytes
    <3>1. "main" \in Whiches
      BY DEF Whiches
    <3>2. cache[p]["main"] \in CacheSet /\ cache'[p]["main"] \in CacheSet
      BY <3>1 DEF TypeOK
    <3> QED
      BY <3>1, <3>2 DEF CacheSet, BytesShrink
  <2>4. calls[call].mainBytes \in Int /\ calls'[call].mainBytes = calls[call].mainBytes
    BY <1>1, <2>1 DEF Counting
  <2>5. Watches(call) <=> cache[p]["main"].nbytes <= calls[call].mainBytes
    BY <1>1, <2>2 DEF Watches, Peer
  <2>6. Watches(call)' <=> cache'[p]["main"].nbytes <= calls'[call].mainBytes
    BY <1>1, <2>2 DEF Watches, Peer
  <2>7. Watches(call) => Watches(call)'
    BY <2>3, <2>4, <2>5, <2>6
  <2> QED
    BY <2>2, <2>7 DEF WatchesOn, Peer
<1>2. CASE calls[call].pc # "hot bytes"
  BY <1>2 DEF WatchesOn, Watches, Peer
<1> QED
  BY <1>1, <1>2

LEMMA BytesOfMethods ==
  ASSUME NEW c \in CacheSet, NEW key \in Keys
  PROVE  get(c, key).nbytes = c.nbytes /\ removeOldest(c).nbytes <= c.nbytes
<1>1. get(c, key).nbytes = c.nbytes
  BY DEF get, MoveToFront, CacheSet
<1>2. removeOldest(c).nbytes <= c.nbytes
  <2>1. CASE c.keys = <<>>
    BY <2>1 DEF removeOldest, CacheSet
  <2>2. CASE c.keys # <<>>
    <3> DEFINE n == Len(c.keys)
               last == c.keys[n]
    <3>1. c.keys \in Seq(Keys) /\ c.nbytes \in Int
      BY DEF CacheSet
    <3>2. n \in Nat \ {0}
      BY <2>2, <3>1, LenProperties, EmptySeq
    <3>3. last \in Keys
      <4> HIDE DEF n
      <4>1. n \in 1 .. n
        BY <3>2
      <4> QED
        BY <3>1, <4>1, ElementOfSeq DEF n
    <3>4. removeOldest(c) = [keys |-> Seqs!Front(c.keys), nbytes |-> c.nbytes - Bytes[last]]
      BY <2>2 DEF removeOldest, Seqs!Last
    <3>5. Bytes[last] \in Nat
      BY <3>3, GroupAssumption
    <3> HIDE DEF last
    <3> QED
      BY <3>1, <3>4, <3>5
  <2> QED
    BY <2>1, <2>2
<1> QED
  BY <1>1, <1>2

\* One cache becomes another that takes no more bytes.
LEMMA OneTakesNoMore ==
  ASSUME TypeOK, NEW p \in Peers, NEW which \in Whiches, NEW c, cache' = [cache EXCEPT ![p][which] = c],
         c.nbytes <= cache[p][which].nbytes
  PROVE  BytesShrink
<1>1. cache \in [Peers -> [Whiches -> CacheSet]]
  BY DEF TypeOK
<1>2. \A q \in Peers, w \in Whiches :
        cache'[q][w] = (IF q = p /\ w = which THEN c ELSE cache[q][w])
        /\ cache[q][w].nbytes \in Int
  BY <1>1 DEF CacheSet
<1> QED
  BY <1>2 DEF BytesShrink

\* The steps that neither add nor evict.
LEMMA LimitsKept ==
  ASSUME TypeOK, TypeOK', Limits, BytesShrink,
         \A call \in Calls :
           \/ calls[call].pc \notin {"main bytes", "hot bytes", "evict main", "evict hot"}
           \/ /\ calls'[call].pc = calls[call].pc /\ calls'[call].peer = calls[call].peer
              /\ calls[call].pc = "hot bytes" => calls'[call].mainBytes = calls[call].mainBytes
  PROVE  Limits'
<1>1. \A call \in Calls : WatchesOn(call)
  BY StayedOn DEF WatchesOn, Watches
<1> QED
  BY <1>1, LimitsStay

\* A call that has added watches.
LEMMA AddWatches ==
  ASSUME TypeOK, TypeOK', Limits, NEW adder \in Calls, NEW which \in Whiches, NEW c,
         Peer(adder) \in Peers, cache' = [cache EXCEPT ![Peer(adder)][which] = c],
         calls'[adder].pc = "main bytes", calls'[adder].peer = Peer(adder),
         \A call \in Calls :
           \/ calls[call].pc \notin {"main bytes", "hot bytes", "evict main", "evict hot"}
           \/ calls'[call] = calls[call]
  PROVE  Limits'
<1>1. ASSUME NEW p \in Peers, p # Peer(adder)
      PROVE  Fit(p)' \/ \E call \in Calls : Watches(call)' /\ Peer(call)' = p
  <2>1. cache'[p] = cache[p]
    BY <1>1 DEF TypeOK
  <2>2. CASE Fit(p)
    BY <2>1, <2>2 DEF Fit
  <2>3. CASE ~Fit(p)
    <3>1. PICK call \in Calls : Watches(call) /\ Peer(call) = p
      BY <2>3 DEF Limits
    <3>2. calls'[call] = calls[call]
      BY <3>1 DEF Watches
    <3> QED
      BY <2>1, <3>1, <3>2 DEF Watches, Peer
  <2> QED
    BY <2>2, <2>3
<1>2. Watches(adder)' /\ Peer(adder)' = Peer(adder)
  BY DEF Watches, Peer
<1> QED
  BY <1>1, <1>2 DEF Limits

EvictingPcs == {"main bytes", "hot bytes", "evict main", "evict hot"}

LEMMA BytesStay == ASSUME TypeOK, UNCHANGED cache PROVE BytesShrink
BY DEF TypeOK, CacheSet, BytesShrink

\* Steps that leave the caches.
LEMMA OtherLimits ==
  ASSUME Inv, Inv', Limits, NEW call \in Calls,
         \/ \E which \in Whiches : lookupMiss(call, which)
         \/ DoLead(call) \/ DoWait(call) \/ DoLate(call) \/ Forget(call) \/ Finish(call)
         \/ PickSelf(call) \/ PickUnreachable(call) \/ LocalError(call) \/ Unheard(call)
  PROVE  Limits'
<1>1. UNCHANGED cache
  BY DEF lookupMiss, DoLead, DoWait, DoLate, Forget, Finish, PickSelf, PickUnreachable,
     LocalError, Unheard
<1>2. calls[call].pc \notin EvictingPcs
  BY DEF lookupMiss, DoLead, DoWait, DoLate, Forget, Finish, PickSelf, PickUnreachable,
     LocalError, Unheard,
         At, Whiches, EvictingPcs
<1>3. \A other \in Calls \ {call} : calls'[other] = calls[other] \/ calls[other].pc \notin EvictingPcs
  <2>1. CASE Finish(call)
    BY <2>1 DEF Finish, Waiters, At, EvictingPcs
  <2>2. CASE ~Finish(call)
    BY <2>2 DEF lookupMiss, DoLead, DoWait, DoLate, Forget, PickSelf, PickUnreachable,
       LocalError, Unheard,
           Goto, Outcome, Inv, TypeOK
  <2> QED
    BY <2>1, <2>2
<1> QED
  BY <1>1, <1>2, <1>3, BytesStay, LimitsKept DEF Inv, EvictingPcs

LEMMA StartLimits ==
  ASSUME Inv, Inv', Limits,
         \/ \E c \in Callers, key \in Keys : Get(c, key)
         \/ \E p \in Peers, peers \in PeerLists : SetPeers(p, peers)
         \/ UNCHANGED vars
  PROVE  Limits'
<1>1. UNCHANGED cache
  BY DEF Get, SetPeers, vars
<1>2. \A call \in Calls : calls'[call] = calls[call] \/ calls[call].pc \notin EvictingPcs
  BY DEF Get, SetPeers, vars, At, Inv, TypeOK, EvictingPcs
<1> QED
  BY <1>1, <1>2, BytesStay, LimitsKept DEF Inv, EvictingPcs

\* A request and its Get.
LEMMA RequestLimits ==
  ASSUME Inv, Inv', Limits, NEW call \in Calls, PickRemote(call) \/ RequestFails(call) \/ AnswerError(call)
  PROVE  Limits'
<1>1. UNCHANGED cache
  BY DEF PickRemote, RequestFails, AnswerError
<1>2. CASE PickRemote(call)
  <2>1. \A other \in Calls : calls'[other] = calls[other] \/ calls[other].pc \notin EvictingPcs
    BY <1>2 DEF PickRemote, At, Inv, TypeOK, EvictingPcs
  <2> QED
    BY <1>1, <2>1, BytesStay, LimitsKept DEF Inv, EvictingPcs
<1>3. CASE RequestFails(call)
  <2>1. calls[call].pc = "remote" /\ call[2] < MaxHops /\ Asks(Server(call))
    BY <1>3 DEF RequestFails, At, Inv, Requests
  <2>2. Server(call) \in Calls /\ Server(call) # call /\ calls[Server(call)] \in Busy
    <3>1. Server(call) \in Calls /\ Server(call) # call /\ calls[Server(call)].pc # "idle"
      BY <2>1, ClientAndServer DEF Asks, At
    <3> QED
      BY <3>1 DEF Inv, TypeOK, Steps, Idle
  <2> DEFINE server == Server(call)
             alone  == [calls[server] EXCEPT !.asked = FALSE]
  <2>3. /\ alone.pc = calls[server].pc /\ alone.peer = calls[server].peer
        /\ calls[server].pc = "hot bytes" => alone.mainBytes = calls[server].mainBytes
    <3>1. CASE calls[server] \in Short
      BY <3>1 DEF Short
    <3>2. CASE calls[server] \in Ended
      BY <3>2 DEF Ended
    <3>3. CASE calls[server] \in Counting
      BY <3>3 DEF Counting
    <3> QED
      BY <2>2, <3>1, <3>2, <3>3 DEF Busy
  <2>4. calls' = [calls EXCEPT ![call].pc = "local", ![server].asked = FALSE]
        /\ calls \in [Calls -> Steps]
    BY <1>3 DEF RequestFails, Inv, TypeOK
  <2>5. calls'[server] = alone
        /\ \A other \in Calls \ {call, server} : calls'[other] = calls[other]
    <3> HIDE DEF server
    <3>1. server \in Calls /\ server # call
      BY <2>2 DEF server
    <3> QED
      BY <2>4, <3>1
  <2> HIDE DEF alone, server
  <2>6. \A other \in Calls :
           \/ calls[other].pc \notin EvictingPcs
           \/ /\ calls'[other].pc = calls[other].pc /\ calls'[other].peer = calls[other].peer
              /\ calls[other].pc = "hot bytes" => calls'[other].mainBytes = calls[other].mainBytes
    BY <2>1, <2>3, <2>5 DEF EvictingPcs
  <2> QED
    BY <1>1, <2>6, BytesStay, LimitsKept DEF Inv, EvictingPcs
<1>4. CASE AnswerError(call)
  <2>1. calls[call].pc = "answer" /\ calls[Client(call)].pc = "remote"
    BY <1>4 DEF AnswerError, At, Asks, Inv, Requests
  <2>2. \A other \in Calls : calls'[other] = calls[other] \/ calls[other].pc \notin EvictingPcs
    BY <1>4, <2>1 DEF AnswerError, Inv, TypeOK, EvictingPcs
  <2> QED
    BY <1>1, <2>2, BytesStay, LimitsKept DEF Inv, EvictingPcs
<1> QED
  BY <1>2, <1>3, <1>4

LEMMA HitLimits ==
  ASSUME Inv, Inv', Limits, NEW call \in Calls, NEW which \in Whiches, lookupHit(call, which)
  PROVE  Limits'
<1> DEFINE c == get(cache[Peer(call)][which], Key(call))
<1>1. /\ ~At(call, "idle") /\ calls[call].pc \in {"main", "hot"}
      /\ Peer(call) \in Peers /\ Key(call) \in Keys
  BY BusyCall DEF Inv, lookupHit, At, Whiches
<1>2. cache[Peer(call)][which] \in CacheSet
  BY <1>1 DEF Inv, TypeOK
<1>3. c.nbytes = cache[Peer(call)][which].nbytes /\ c.nbytes \in Int
  BY <1>1, <1>2, BytesOfMethods DEF CacheSet
<1>4. cache' = [cache EXCEPT ![Peer(call)][which] = c]
  BY DEF lookupHit
<1> HIDE DEF c
<1>5. BytesShrink
  <2>1. c.nbytes <= cache[Peer(call)][which].nbytes
    BY <1>3
  <2> QED
    BY <1>1, <1>4, <2>1, OneTakesNoMore DEF Inv
<1>6. \A other \in Calls : calls'[other] = calls[other] \/ calls[other].pc \notin EvictingPcs
  BY <1>1 DEF lookupHit, Outcome, Inv, TypeOK, EvictingPcs
<1> QED
  BY <1>5, <1>6, LimitsKept DEF Inv, EvictingPcs

\* Who adds goes on to look at the bytes.
LEMMA LocalOkLimits ==
  ASSUME Inv, Inv', Limits, NEW call \in Calls, LocalOk(call)
  PROVE  Limits'
<1>1. calls[call].pc = "local" /\ ~At(call, "idle") /\ Peer(call) \in Peers
  BY BusyCall DEF LocalOk, At, Inv
<1>2. \A other \in Calls : calls'[other] = calls[other] \/ calls[other].pc \notin EvictingPcs
  BY <1>1 DEF LocalOk, Outcome, Inv, TypeOK, EvictingPcs
<1>3. CASE CacheBytes > 0
  <2>1. Outcome(call, "main bytes", TRUE)
    BY <1>3 DEF LocalOk, AfterAdd
  <2>2. Moves(call, "main bytes")
    BY <1>1, <2>1, OutcomeMoves DEF EndedPcs, Inv
  <2>3. cache' = [cache EXCEPT ![Peer(call)]["main"] = add(@, Key(call))]
    BY <1>3 DEF LocalOk, Added
  <2> QED
    BY <1>1, <1>2, <2>2, <2>3, AddWatches DEF Moves, Inv, EvictingPcs, Whiches
<1>4. CASE ~(CacheBytes > 0)
  <2>1. UNCHANGED cache
    BY <1>4 DEF LocalOk, Added
  <2> QED
    BY <1>2, <2>1, BytesStay, LimitsKept DEF Inv, EvictingPcs
<1> QED
  BY <1>3, <1>4

LEMMA AnswerOkLimits ==
  ASSUME Inv, Inv', Limits, NEW call \in Calls, AnswerOk(call)
  PROVE  Limits'
<1> DEFINE client == Client(call)
<1>1. /\ calls[call].pc = "answer" /\ client # call /\ client \in Calls
      /\ calls[client].pc = "remote"
      /\ ~At(client, "idle")
  <2>1. calls[call].pc = "answer" /\ Asks(call)
    BY DEF AnswerOk, At, Asks
  <2> QED
    BY <2>1, ClientAndServer DEF Inv, Requests, At
<1>2. Peer(client) \in Peers
  BY <1>1, BusyCall DEF Inv
<1>3. \A other \in Calls : calls'[other] = calls[other] \/ calls[other].pc \notin EvictingPcs
  BY <1>1 DEF AnswerOk, Inv, TypeOK, EvictingPcs
<1>4. \/ UNCHANGED cache
      \/ /\ cache' = [cache EXCEPT ![Peer(client)]["hot"] = add(@, Key(client))]
         /\ calls' = [calls EXCEPT ![call] = Idle, ![client] = WithOutcome(client, "main bytes", TRUE)]
  BY DEF AnswerOk, Added, AfterAdd
<1>5. CASE UNCHANGED cache
  BY <1>3, <1>5, BytesStay, LimitsKept DEF Inv, EvictingPcs
<1>6. CASE /\ cache' = [cache EXCEPT ![Peer(client)]["hot"] = add(@, Key(client))]
           /\ calls' = [calls EXCEPT ![call] = Idle, ![client] = WithOutcome(client, "main bytes", TRUE)]
  <2> DEFINE s == WithOutcome(client, "main bytes", TRUE)
  <2>1. s.pc = "main bytes" /\ s.peer = Peer(client)
    BY DEF WithOutcome
  <2> HIDE DEF s
  <2>2. calls'[client] = s
    <3> HIDE DEF client
    <3> QED
      BY <1>1, <1>6 DEF Inv, TypeOK, s
  <2> HIDE DEF client
  <2> QED
    BY <1>1, <1>2, <1>3, <1>6, <2>1, <2>2, AddWatches DEF Inv, EvictingPcs, Whiches
<1> QED
  BY <1>4, <1>5, <1>6

\* The steps of the eviction.
LEMMA EvictionLimits ==
  ASSUME Inv, Inv', Limits, NEW call \in Calls, populateCache(call)
  PROVE  Limits'
<1>1. calls[call].pc \in EvictingPcs /\ ~At(call, "idle")
  <2>1. EvictPc["main"] = "evict main" /\ EvictPc["hot"] = "evict hot"
    BY DEF EvictPc
  <2> QED
    BY <2>1 DEF populateCache, Evict, MainBytes, BothFit, ChooseVictim, At, EvictingPcs
<1>2. Peer(call) \in Peers /\ Key(call) \in Keys
  BY <1>1, BusyCall DEF Inv
<1>3. \A other \in Calls \ {call} : calls'[other] = calls[other]
  BY DEF populateCache, Evict, MainBytes, BothFit, ChooseVictim, Goto, Outcome, Inv, TypeOK
<1>4. BytesShrink
  <2>1. CASE UNCHANGED cache
    BY <2>1, BytesStay DEF Inv
  <2>2. ASSUME NEW which \in Whiches, Evict(call, which)
        PROVE  BytesShrink
    <3> DEFINE c == removeOldest(cache[Peer(call)][which])
    <3>1. cache[Peer(call)][which] \in CacheSet
      BY <1>2 DEF Inv, TypeOK
    <3>2. c.nbytes <= cache[Peer(call)][which].nbytes
      BY <1>2, <3>1, BytesOfMethods
    <3>3. cache' = [cache EXCEPT ![Peer(call)][which] = c]
      BY <2>2 DEF Evict
    <3> HIDE DEF c
    <3> QED
      BY <1>2, <3>2, <3>3, OneTakesNoMore DEF Inv
  <2> QED
    BY <2>1, <2>2 DEF populateCache, MainBytes, BothFit, ChooseVictim, Whiches
<1>5. \A other \in Calls \ {call} : WatchesOn(other)
  BY <1>3, <1>4, StayedOn DEF Inv
<1>6. ASSUME NEW which \in Whiches, Evict(call, which)
      PROVE  WatchesOn(call)
  <2>1. calls'[call].pc = "main bytes" /\ calls'[call].peer = calls[call].peer
    <3>1. Moves(call, "main bytes")
      <4>1. calls[call].pc \in EndedPcs
        <5>1. EvictPc["main"] = "evict main" /\ EvictPc["hot"] = "evict hot"
          BY DEF EvictPc
        <5> QED
          BY <1>6, <5>1 DEF Evict, At, EndedPcs, Whiches
      <4> QED
        BY <1>6, <4>1, GotoMoves DEF Evict, EndedPcs, Inv
    <3> QED
      BY <3>1 DEF Moves, Peer
  <2> QED
    BY <2>1 DEF WatchesOn, Watches, Peer
<1>7. ASSUME MainBytes(call)
      PROVE  WatchesOn(call)
  <2> DEFINE bytes == cache[Peer(call)]["main"].nbytes
  <2>1. /\ calls'[call].pc = "hot bytes" /\ calls'[call].peer = Peer(call)
        /\ calls'[call].mainBytes = bytes
    BY <1>7 DEF MainBytes, Inv, TypeOK, Peer
  <2>2. bytes \in Int /\ UNCHANGED cache
    BY <1>2, <1>7 DEF MainBytes, Inv, TypeOK, CacheSet, Whiches
  <2>3. cache'[Peer(call)]["main"].nbytes <= calls'[call].mainBytes
    <3>1. cache'[Peer(call)]["main"].nbytes = bytes
      BY <2>2
    <3> HIDE DEF bytes
    <3>2. bytes <= bytes
      BY <2>2
    <3> QED
      BY <2>1, <3>1, <3>2
  <2> HIDE DEF bytes
  <2> QED
    BY <2>1, <2>3 DEF WatchesOn, Watches, Peer
<1>8. ASSUME ChooseVictim(call)
      PROVE  WatchesOn(call)
  <2>1. PICK pc \in {"evict main", "evict hot"} : Outcome(call, pc, TRUE)
    BY <1>8 DEF ChooseVictim, Victim, EvictPc
  <2>2. Moves(call, pc)
    BY <1>1, <2>1, OutcomeMoves DEF EndedPcs, Inv
  <2> QED
    BY <2>1, <2>2 DEF Moves, WatchesOn, Watches, Peer
<1>9. CASE BothFit(call)
  <2>1. UNCHANGED cache /\ calls[call].pc = "hot bytes" /\ Fits(call)
    BY <1>9 DEF BothFit, At
  <2>2. ASSUME Watches(call)
        PROVE  Fit(Peer(call))
    <3>1. calls[call] \in Counting
      BY <2>1, StepFields DEF Inv, TypeOK
    <3>2. /\ calls[call].mainBytes \in Int /\ CacheBytes \in Int
          /\ cache[Peer(call)]["main"].nbytes \in Int /\ cache[Peer(call)]["hot"].nbytes \in Int
      <4>1. calls[call].mainBytes \in Int
        BY <3>1 DEF Counting
      <4>2. CacheBytes \in Int
        BY GroupAssumption
      <4>3. cache[Peer(call)]["main"] \in CacheSet /\ cache[Peer(call)]["hot"] \in CacheSet
        BY <1>2 DEF Inv, TypeOK, Whiches
      <4> QED
        BY <4>1, <4>2, <4>3 DEF CacheSet
    <3>3. cache[Peer(call)]["main"].nbytes <= calls[call].mainBytes
      BY <2>1, <2>2 DEF Watches
    <3>4. calls[call].mainBytes + cache[Peer(call)]["hot"].nbytes <= CacheBytes
      BY <2>1 DEF Fits
    <3>5. \A main, mark, hot, limit \in Int : main <= mark
          /\ mark + hot <= limit => main + hot <= limit
      OBVIOUS
    <3> QED
      BY <3>2, <3>3, <3>4, <3>5 DEF Fit
  <2>3. ASSUME NEW p \in Peers
        PROVE  Fit(p)' \/ \E other \in Calls : Watches(other)' /\ Peer(other)' = p
    <3>1. CASE Fit(p)
      BY <2>1, <3>1 DEF Fit
    <3>2. CASE ~Fit(p)
      <4>1. PICK other \in Calls : Watches(other) /\ Peer(other) = p
        BY <3>2 DEF Limits
      <4>2. other # call
        BY <2>2, <3>2, <4>1
      <4> QED
        BY <1>5, <4>1, <4>2 DEF WatchesOn
    <3> QED
      BY <3>1, <3>2
  <2> QED
    BY <2>3 DEF Limits
<1>10. CASE ~BothFit(call)
  <2>1. WatchesOn(call)
    BY <1>6, <1>7, <1>8, <1>10 DEF populateCache, Whiches
  <2> QED
    BY <1>4, <1>5, <2>1, LimitsStay DEF Inv
<1> QED
  BY <1>9, <1>10

LEMMA NextLimits == Inv /\ Inv' /\ Limits /\ [Next]_vars => Limits'
<1> SUFFICES ASSUME Inv, Inv', Limits, [Next]_vars
             PROVE  Limits'
  OBVIOUS
<1>1. ASSUME NEW call \in Calls, Step(call) PROVE Limits'
  <2>1. CASE Lookup(call)
    BY <2>1, HitLimits, OtherLimits DEF Lookup, Whiches
  <2>2. CASE Do(call)
    BY <2>2, OtherLimits DEF Do
  <2>3. CASE Pick(call)
    BY <2>3, OtherLimits, RequestLimits DEF Pick
  <2>4. CASE getLocally(call)
    BY <2>4, LocalOkLimits, OtherLimits DEF getLocally
  <2>5. CASE populateCache(call)
    BY <2>5, EvictionLimits
  <2>6. CASE Answer(call)
    BY <2>6, OtherLimits, AnswerOkLimits, RequestLimits DEF Answer
  <2> QED
    BY <1>1, <2>1, <2>2, <2>3, <2>4, <2>5, <2>6 DEF Step
<1> QED
  BY <1>1, StartLimits, OtherLimits, RequestLimits DEF Next

-----------------------------------------------------------------------------

\* Inv holds in every reachable state, whatever Gets, requests, failures and
\* evictions come between one another.
THEOREM Invariance == Spec => []Inv
BY InitInv, NextInv, PTL DEF Spec

\* A key that is being loaded has one call that leads (singleflight.go:37), and
\* whoever waits waits for one.
THEOREM LoadsAreSingle == Spec => []FlightHasALeader
<1>1. Inv => FlightHasALeader
  <2> SUFFICES ASSUME Inv, NEW p \in Peers, NEW key \in Keys
               PROVE  LET leaders == {call \in Calls : Leads(call, p, key)}
                      IN  /\ Cardinality(leaders) = IF flight[p][key] = "running" THEN 1 ELSE 0
                          /\ leaders = {} =>
                               \A call \in Calls :
                                 At(call, "wait") => ~(Peer(call) = p /\ Key(call) = key)
    BY DEF FlightHasALeader
  <2> DEFINE leaders == {call \in Calls : Leads(call, p, key)}
  <2>1. \A call \in Calls : Leads(call, p, key) <=>
          Holds(call) /\ ~At(call, "forget") /\ Peer(call) = p /\ Key(call) = key
    BY DEF Leads, Holds, At
  <2>2. \A call \in Calls : Leads(call, p, key) => flight[p][key] = "running"
    BY <2>1 DEF Inv, Flights, Flight
  <2>3. CASE flight[p][key] = "running"
    <3>1. PICK call \in Calls : Holds(call) /\ Peer(call) = p /\ Key(call) = key
      BY <2>3 DEF Inv, Flights
    <3>2. Leads(call, p, key)
      BY <2>1, <2>3, <3>1 DEF Inv, Flights, Flight
    <3>3. leaders = {call}
      BY <2>1, <3>1, <3>2 DEF Inv, Flights, Same
    <3> QED
      BY <2>3, <3>3, FS_Singleton
  <2>4. CASE flight[p][key] # "running"
    <3>1. leaders = {}
      BY <2>2, <2>4
    <3>2. \A call \in Calls : At(call, "wait") => ~(Peer(call) = p /\ Key(call) = key)
      BY <2>4 DEF Inv, Flights, Flight
    <3> QED
      BY <2>4, <3>1, <3>2, FS_EmptySet
  <2> QED
    BY <2>3, <2>4
<1> QED
  BY <1>1, Invariance, PTL

\* No key is in both caches of a process (groupcache.go:167), although they are
\* filled and emptied under different locks.
THEOREM KeysApart == Spec => []KeyInOneCache
<1>1. Inv => KeyInOneCache
  BY DEF Inv, Caches
<1> QED
  BY <1>1, Invariance, PTL

\* The caches of a process are over the limit for both only while a call of the
\* process is evicting (groupcache.go:158), although others add meanwhile and
\* the two counts of bytes are read one after the other.
THEOREM LimitsHold == Spec => []CachesFit
<1>1. Init => Limits
  <2> SUFFICES ASSUME Init, NEW p \in Peers
               PROVE  Fit(p)
    BY DEF Limits
  <2>1. cache[p]["main"].nbytes = 0 /\ cache[p]["hot"].nbytes = 0
    BY DEF Init, EmptyCache
  <2> QED
    BY <2>1, GroupAssumption DEF Fit
<1>2. Spec => []Limits
  BY <1>1, NextLimits, Invariance, PTL DEF Spec
<1>3. Limits => CachesFit
  BY DEF Limits, Fit, CachesFit, Watches, Evicting
<1> QED
  BY <1>2, <1>3, PTL

-----------------------------------------------------------------------------
(* The statistics.                                                         *)

\* The calls of a process at some points: those that load, those that may still
\* find their key, and the Gets that have neither found it nor called Do.
Those(cs, p, pcs) == {call \in Calls : cs[call].pc \in pcs /\ cs[call].peer = p}

LoadingPcs   == {"remote", "local"}
UnsettledPcs == {"main", "hot", "load", "pick"}
FreshPcs     == {"main", "hot", "load"}

Loading(cs, p)   == Those(cs, p, LoadingPcs)
Unsettled(cs, p) == Those(cs, p, UnsettledPcs)
Fresh(cs, p)     == {call \in Those(cs, p, FreshPcs) : ~cs[call].leads}

Underway(cs) == {call \in Calls : cs[call].pc # "idle"}

\* The statistics of a process, with what its calls have yet to count.
Balance(cs, s, p) ==
  /\ s[p].LoadsDeduped =
       s[p].PeerLoads + s[p].LocalLoads + s[p].LocalLoadErrs + Cardinality(Loading(cs, p))
  /\ s[p].Gets <= s[p].CacheHits + s[p].Loads + Cardinality(Fresh(cs, p))
  /\ s[p].LoadsDeduped + s[p].CacheHits + Cardinality(Unsettled(cs, p)) <= s[p].Gets

StatsSet == [Peers -> [Counters -> Nat]]

Sums(cs, s) ==
  /\ s \in StatsSet
  /\ IsFiniteSet(Underway(cs))
  /\ \A p \in Peers : Balance(cs, s, p)

\* 1 for what is so.
One(b) == IF b THEN 1 ELSE 0

\* A process counts some things once.
Counts(s, t, p, counters) ==
  /\ t \in StatsSet
  /\ \A q \in Peers, c \in Counters : t[q][c] = s[q][c] + One(q = p /\ c \in counters)

\* What is counted when a call goes from a to b makes up for that.
IsFresh(a) == a.pc \in FreshPcs /\ ~a.leads

MakesUp(a, b, counters) ==
  /\ One("LoadsDeduped" \in counters) + One(a.pc \in LoadingPcs) =
       One("PeerLoads" \in counters) + One("LocalLoads" \in counters)
         + One("LocalLoadErrs" \in counters) + One(b.pc \in LoadingPcs)
  /\ One("Gets" \in counters) + One(IsFresh(a)) <=
       One("CacheHits" \in counters) + One("Loads" \in counters) + One(IsFresh(b))
  /\ One("LoadsDeduped" \in counters) + One("CacheHits" \in counters) + One(b.pc \in UnsettledPcs)
       <= One("Gets" \in counters) + One(a.pc \in UnsettledPcs)

LEMMA OneIsNat == \A b : One(b) \in {0, 1}
BY DEF One

LEMMA CountedOne ==
  ASSUME NEW S, IsFiniteSet(S), NEW T, NEW x, T \ {x} = S \ {x}
  PROVE  /\ IsFiniteSet(T) /\ Cardinality(S) \in Nat /\ Cardinality(T) \in Nat
         /\ Cardinality(T) + One(x \in S) = Cardinality(S) + One(x \in T)
<1>1. IsFiniteSet(S \ {x}) /\ Cardinality(S) \in Nat
      /\ Cardinality(S \ {x}) = IF x \in S THEN Cardinality(S) - 1 ELSE Cardinality(S)
  BY FS_RemoveElement, FS_CardinalityType
<1>2. IsFiniteSet(T)
  <2>1. IsFiniteSet((S \ {x}) \cup {x})
    BY <1>1, FS_AddElement
  <2>2. T \subseteq (S \ {x}) \cup {x}
    OBVIOUS
  <2> QED
    BY <2>1, <2>2, FS_Subset
<1>3. Cardinality(T) \in Nat
      /\ Cardinality(T \ {x}) = IF x \in T THEN Cardinality(T) - 1 ELSE Cardinality(T)
  BY <1>2, FS_RemoveElement, FS_CardinalityType
<1>4. Cardinality(T \ {x}) = Cardinality(S \ {x})
  OBVIOUS
<1> HIDE DEF One
<1>5. One(x \in S) = IF x \in S THEN 1 ELSE 0
  BY DEF One
<1>6. One(x \in T) = IF x \in T THEN 1 ELSE 0
  BY DEF One
<1> QED
  BY <1>1, <1>2, <1>3, <1>4, <1>5, <1>6

\* The counts of a process when one of its calls goes on.
LEMMA ThoseCounted ==
  ASSUME NEW cs, NEW ds, NEW call \in Calls, IsFiniteSet(Underway(cs)),
         \A other \in Calls \ {call} : ds[other] = cs[other], NEW p
  PROVE  /\ IsFiniteSet(Underway(ds))
         /\ Cardinality(Loading(cs, p)) \in Nat /\ Cardinality(Loading(ds, p)) \in Nat
         /\ Cardinality(Fresh(cs, p)) \in Nat /\ Cardinality(Fresh(ds, p)) \in Nat
         /\ Cardinality(Unsettled(cs, p)) \in Nat /\ Cardinality(Unsettled(ds, p)) \in Nat
         /\ Cardinality(Loading(ds, p)) + One(call \in Loading(cs, p)) =
              Cardinality(Loading(cs, p)) + One(call \in Loading(ds, p))
         /\ Cardinality(Fresh(ds, p)) + One(call \in Fresh(cs, p)) =
              Cardinality(Fresh(cs, p)) + One(call \in Fresh(ds, p))
         /\ Cardinality(Unsettled(ds, p)) + One(call \in Unsettled(cs, p)) =
              Cardinality(Unsettled(cs, p)) + One(call \in Unsettled(ds, p))
<1>1. IsFiniteSet(Loading(cs, p)) /\ IsFiniteSet(Fresh(cs, p)) /\ IsFiniteSet(Unsettled(cs, p))
  <2>1. /\ Loading(cs, p) \subseteq Underway(cs) /\ Fresh(cs, p) \subseteq Underway(cs)
        /\ Unsettled(cs, p) \subseteq Underway(cs)
    BY DEF Loading, Fresh, Unsettled, Those, LoadingPcs, FreshPcs, UnsettledPcs, Underway
  <2> QED
    BY <2>1, FS_Subset
<1>2. Underway(ds) \ {call} = Underway(cs) \ {call}
  BY DEF Underway
<1>3. Loading(ds, p) \ {call} = Loading(cs, p) \ {call}
  BY DEF Loading, Those
<1>4. Fresh(ds, p) \ {call} = Fresh(cs, p) \ {call}
  BY DEF Fresh, Those
<1>5. Unsettled(ds, p) \ {call} = Unsettled(cs, p) \ {call}
  BY DEF Unsettled, Those
<1>6. IsFiniteSet(Underway(ds))
  BY <1>2, CountedOne
<1> QED
  BY <1>1, <1>3, <1>4, <1>5, <1>6, CountedOne

\* One call goes on, and its process counts what makes up for it.
LEMMA OneCall ==
  ASSUME NEW cs, NEW ds, NEW call \in Calls, NEW s, NEW t, NEW p, NEW counters,
         Sums(cs, s), \A other \in Calls \ {call} : ds[other] = cs[other],
         cs[call].pc # "idle" => cs[call].peer = p, ds[call].pc # "idle" => ds[call].peer = p,
         Counts(s, t, p, counters), MakesUp(cs[call], ds[call], counters)
  PROVE  Sums(ds, t)
<1>1. s \in StatsSet /\ t \in StatsSet /\ IsFiniteSet(Underway(cs))
  BY DEF Sums, Counts
<1>2. IsFiniteSet(Underway(ds))
  BY <1>1, ThoseCounted
<1>3. ASSUME NEW q \in Peers PROVE Balance(ds, t, q)
  <2>1. /\ \A c \in Counters : s[q][c] \in Nat /\ t[q][c] \in Nat
        /\ \A c \in Counters : t[q][c] = s[q][c] + One(q = p /\ c \in counters)
    BY <1>1 DEF StatsSet, Counts
  <2>2. Balance(cs, s, q)
    BY DEF Sums
  <2> DEFINE was == One(call \in Loading(cs, q))     is == One(call \in Loading(ds, q))
             wasF == One(call \in Fresh(cs, q))      isF == One(call \in Fresh(ds, q))
             wasU == One(call \in Unsettled(cs, q))  isU == One(call \in Unsettled(ds, q))
             up(c) == One(q = p /\ c \in counters)
  <2>3. /\ was \in {0, 1} /\ is \in {0, 1} /\ wasF \in {0, 1} /\ isF \in {0, 1}
        /\ wasU \in {0, 1} /\ isU \in {0, 1} /\ \A c : up(c) \in {0, 1}
    BY OneIsNat
  <2>4. /\ up("LoadsDeduped") + was =
             up("PeerLoads") + up("LocalLoads") + up("LocalLoadErrs") + is
        /\ up("Gets") + wasF <= up("CacheHits") + up("Loads") + isF
        /\ up("LoadsDeduped") + up("CacheHits") + isU <= up("Gets") + wasU
    <3>1. CASE q = p
      <4>1. /\ call \in Loading(cs, q) <=> cs[call].pc \in LoadingPcs
            /\ call \in Loading(ds, q) <=> ds[call].pc \in LoadingPcs
            /\ call \in Fresh(cs, q) <=> IsFresh(cs[call])
            /\ call \in Fresh(ds, q) <=> IsFresh(ds[call])
            /\ call \in Unsettled(cs, q) <=> cs[call].pc \in UnsettledPcs
            /\ call \in Unsettled(ds, q) <=> ds[call].pc \in UnsettledPcs
        BY <3>1 DEF Loading, Fresh, Unsettled, Those, LoadingPcs, FreshPcs, UnsettledPcs, IsFresh
      <4>2. /\ was = One(cs[call].pc \in LoadingPcs) /\ is = One(ds[call].pc \in LoadingPcs)
            /\ wasF = One(IsFresh(cs[call])) /\ isF = One(IsFresh(ds[call]))
            /\ wasU = One(cs[call].pc \in UnsettledPcs) /\ isU = One(ds[call].pc \in UnsettledPcs)
        BY <4>1 DEF One
      <4>3. \A c : up(c) = One(c \in counters)
        BY <3>1 DEF One
      <4> QED
        BY <4>2, <4>3 DEF MakesUp
    <3>2. CASE q # p
      <4>1. /\ call \notin Loading(cs, q) /\ call \notin Loading(ds, q)
            /\ call \notin Fresh(cs, q) /\ call \notin Fresh(ds, q)
            /\ call \notin Unsettled(cs, q) /\ call \notin Unsettled(ds, q)
        BY <3>2 DEF Loading, Fresh, Unsettled, Those, LoadingPcs, FreshPcs, UnsettledPcs
      <4>2. was = 0 /\ is = 0 /\ wasF = 0 /\ isF = 0 /\ wasU = 0 /\ isU = 0 /\ \A c : up(c) = 0
        BY <3>2, <4>1 DEF One
      <4> QED
        BY <4>2
    <3> QED
      BY <3>1, <3>2
  <2>5. /\ Cardinality(Loading(cs, q)) \in Nat /\ Cardinality(Loading(ds, q)) \in Nat
        /\ Cardinality(Fresh(cs, q)) \in Nat /\ Cardinality(Fresh(ds, q)) \in Nat
        /\ Cardinality(Unsettled(cs, q)) \in Nat /\ Cardinality(Unsettled(ds, q)) \in Nat
        /\ Cardinality(Loading(ds, q)) + was = Cardinality(Loading(cs, q)) + is
        /\ Cardinality(Fresh(ds, q)) + wasF = Cardinality(Fresh(cs, q)) + isF
        /\ Cardinality(Unsettled(ds, q)) + wasU = Cardinality(Unsettled(cs, q)) + isU
    BY <1>1, ThoseCounted
  <2>6. \A c \in {"Gets", "CacheHits", "Loads", "LoadsDeduped", "PeerLoads", "LocalLoads",
                  "LocalLoadErrs"} :
          s[q][c] \in Nat /\ t[q][c] = s[q][c] + up(c) /\ up(c) \in {0, 1}
    BY <2>1, <2>3 DEF Counters
  <2> HIDE DEF was, is, wasF, isF, wasU, isU, up
  <2>7. /\ s[q].LoadsDeduped \in Nat
        /\ t[q].LoadsDeduped = s[q].LoadsDeduped + up("LoadsDeduped")
        /\ up("LoadsDeduped") \in {0, 1}
        /\ s[q].PeerLoads \in Nat /\ t[q].PeerLoads = s[q].PeerLoads + up("PeerLoads")
        /\ up("PeerLoads") \in {0, 1}
        /\ s[q].LocalLoads \in Nat /\ t[q].LocalLoads = s[q].LocalLoads + up("LocalLoads")
        /\ up("LocalLoads") \in {0, 1}
        /\ s[q].LocalLoadErrs \in Nat
        /\ t[q].LocalLoadErrs = s[q].LocalLoadErrs + up("LocalLoadErrs")
        /\ up("LocalLoadErrs") \in {0, 1}
        /\ s[q].Gets \in Nat /\ t[q].Gets = s[q].Gets + up("Gets") /\ up("Gets") \in {0, 1}
        /\ s[q].CacheHits \in Nat /\ t[q].CacheHits = s[q].CacheHits + up("CacheHits")
        /\ up("CacheHits") \in {0, 1}
        /\ s[q].Loads \in Nat /\ t[q].Loads = s[q].Loads + up("Loads") /\ up("Loads") \in {0, 1}
    BY <2>6
  <2>8. t[q].LoadsDeduped =
          t[q].PeerLoads + t[q].LocalLoads + t[q].LocalLoadErrs + Cardinality(Loading(ds, q))
    <3>1. s[q].LoadsDeduped =
            s[q].PeerLoads + s[q].LocalLoads + s[q].LocalLoadErrs + Cardinality(Loading(cs, q))
      BY <2>2 DEF Balance
    <3>2. /\ up("LoadsDeduped") \in Int /\ up("PeerLoads") \in Int /\ up("LocalLoads") \in Int
          /\ up("LocalLoadErrs") \in Int /\ was \in Int /\ is \in Int
      BY <2>3
    <3>3. /\ Cardinality(Loading(cs, q)) \in Int /\ Cardinality(Loading(ds, q)) \in Int
          /\ Cardinality(Loading(ds, q)) + was = Cardinality(Loading(cs, q)) + is
          /\ up("LoadsDeduped") + was =
               up("PeerLoads") + up("LocalLoads") + up("LocalLoadErrs") + is
      BY <2>4, <2>5
    <3>4. /\ s[q].LoadsDeduped \in Int
          /\ t[q].LoadsDeduped = s[q].LoadsDeduped + up("LoadsDeduped")
          /\ s[q].PeerLoads \in Int /\ t[q].PeerLoads = s[q].PeerLoads + up("PeerLoads")
          /\ s[q].LocalLoads \in Int /\ t[q].LocalLoads = s[q].LocalLoads + up("LocalLoads")
          /\ s[q].LocalLoadErrs \in Int
          /\ t[q].LocalLoadErrs = s[q].LocalLoadErrs + up("LocalLoadErrs")
      BY <2>7
    <3> QED
      BY <3>1, <3>2, <3>3, <3>4
  <2>9. t[q].Gets <= t[q].CacheHits + t[q].Loads + Cardinality(Fresh(ds, q))
    <3>1. s[q].Gets <= s[q].CacheHits + s[q].Loads + Cardinality(Fresh(cs, q))
      BY <2>2 DEF Balance
    <3> QED
      BY <2>3, <2>4, <2>5, <2>7, <3>1
  <2>10. t[q].LoadsDeduped + t[q].CacheHits + Cardinality(Unsettled(ds, q)) <= t[q].Gets
    <3>1. s[q].LoadsDeduped + s[q].CacheHits + Cardinality(Unsettled(cs, q)) <= s[q].Gets
      BY <2>2 DEF Balance
    <3> QED
      BY <2>3, <2>4, <2>5, <2>7, <3>1
  <2> QED
    BY <2>8, <2>9, <2>10 DEF Balance
<1> QED
  BY <1>1, <1>2, <1>3 DEF Sums

LEMMA CountedCounts ==
  ASSUME stats \in StatsSet, NEW p \in Peers, NEW counters, Counted(p, counters)
  PROVE  Counts(stats, stats', p, counters)
<1> DEFINE new == [c \in Counters |-> IF c \in counters THEN stats[p][c] + 1 ELSE stats[p][c]]
<1>1. stats' = [stats EXCEPT ![p] = new]
  BY DEF Counted
<1>2. new \in [Counters -> Nat]
  BY DEF StatsSet
<1>3. \A c \in Counters : new[c] = stats[p][c] + One(c \in counters) /\ stats[p][c] \in Nat
  BY DEF One, StatsSet
<1> HIDE DEF new
<1>4. stats' \in StatsSet /\ \A q \in Peers : stats'[q] = IF q = p THEN new ELSE stats[q]
  BY <1>1, <1>2 DEF StatsSet
<1>5. ASSUME NEW q \in Peers, NEW c \in Counters
      PROVE  stats'[q][c] = stats[q][c] + One(q = p /\ c \in counters)
  <2>1. CASE q = p
    <3>1. One(q = p /\ c \in counters) = One(c \in counters)
      BY <2>1 DEF One
    <3> QED
      BY <1>3, <1>4, <2>1, <3>1
  <2>2. CASE q # p
    <3>1. One(q = p /\ c \in counters) = 0 /\ stats[q][c] \in Nat
      BY <2>2 DEF One, StatsSet
    <3> QED
      BY <1>4, <2>2, <3>1
  <2> QED
    BY <2>1, <2>2
<1> QED
  BY <1>4, <1>5 DEF Counts

LEMMA NothingCounts ==
  ASSUME NEW s \in StatsSet, NEW p
  PROVE  Counts(s, s, p, {})
BY DEF Counts, One, StatsSet

\* What a step of one call has to show.
LEMMA CallSums ==
  ASSUME Inv, Sums(calls, stats), NEW call \in Calls, calls[call].pc # "idle", NEW counters,
         \/ Counted(Peer(call), counters)
         \/ counters = {} /\ UNCHANGED stats,
         \/ Leaves(call)
         \/ \E pc : Moves(call, pc),
         MakesUp(calls[call], calls'[call], counters)
  PROVE  Sums(calls', stats')
<1>1. stats \in StatsSet /\ Peer(call) \in Peers
  BY BusyCall DEF Sums, Inv, At
<1>2. Counts(stats, stats', Peer(call), counters)
  BY <1>1, CountedCounts, NothingCounts
<1>3. /\ \A other \in Calls \ {call} : calls'[other] = calls[other]
      /\ calls'[call].pc # "idle" => calls'[call].peer = Peer(call)
  BY DEF Leaves, Moves, OthersStay
<1> QED
  BY <1>2, <1>3, OneCall DEF Peer

\* A step that counts nothing the sums are about, at points they are not about.
LEMMA MakesUpOutside ==
  ASSUME NEW a, NEW b, NEW counters,
         counters \cap {"LoadsDeduped", "PeerLoads", "LocalLoads", "LocalLoadErrs", "Gets",
                        "CacheHits"} = {},
         a.pc \notin LoadingPcs \cup UnsettledPcs \cup FreshPcs,
         b.pc \notin LoadingPcs \cup UnsettledPcs \cup FreshPcs
  PROVE  MakesUp(a, b, counters)
BY DEF MakesUp, IsFresh, One, LoadingPcs, UnsettledPcs, FreshPcs

\* A load that has ended counts how.
LEMMA LoadEnds ==
  ASSUME NEW a, NEW b, NEW c \in {"PeerLoads", "LocalLoads", "LocalLoadErrs"},
         a.pc \in LoadingPcs, b.pc \notin LoadingPcs \cup UnsettledPcs \cup FreshPcs
  PROVE  MakesUp(a, b, {c})
<1>1. One(a.pc \in LoadingPcs) = 1 /\ One(b.pc \in LoadingPcs) = 0
  BY DEF One
<1>2. /\ One(IsFresh(a)) = 0 /\ One(IsFresh(b)) = 0
      /\ One(a.pc \in UnsettledPcs) = 0 /\ One(b.pc \in UnsettledPcs) = 0
  BY DEF IsFresh, One, LoadingPcs, UnsettledPcs, FreshPcs
<1>3. /\ One("LoadsDeduped" \in {c}) = 0 /\ One("Gets" \in {c}) = 0
      /\ One("CacheHits" \in {c}) = 0 /\ One("Loads" \in {c}) = 0
  BY DEF One
<1>4. One("PeerLoads" \in {c}) + One("LocalLoads" \in {c}) + One("LocalLoadErrs" \in {c}) = 1
  <2>1. CASE c = "PeerLoads"
    <3>1. One("PeerLoads" \in {c}) = 1 /\ One("LocalLoads" \in {c}) = 0
          /\ One("LocalLoadErrs" \in {c}) = 0
      BY <2>1 DEF One
    <3> QED
      BY <3>1
  <2>2. CASE c = "LocalLoads"
    <3>1. One("PeerLoads" \in {c}) = 0 /\ One("LocalLoads" \in {c}) = 1
          /\ One("LocalLoadErrs" \in {c}) = 0
      BY <2>2 DEF One
    <3> QED
      BY <3>1
  <2>3. CASE c = "LocalLoadErrs"
    <3>1. One("PeerLoads" \in {c}) = 0 /\ One("LocalLoads" \in {c}) = 0
          /\ One("LocalLoadErrs" \in {c}) = 1
      BY <2>3 DEF One
    <3> QED
      BY <3>1
  <2> QED
    BY <2>1, <2>2, <2>3
<1> HIDE DEF One
<1>5. One("PeerLoads" \in {c}) \in Int /\ One("LocalLoads" \in {c}) \in Int
      /\ One("LocalLoadErrs" \in {c}) \in Int
  BY DEF One
<1> QED
  BY <1>1, <1>2, <1>3, <1>4, <1>5 DEF MakesUp

LEMMA lookupSums ==
  ASSUME Inv, Sums(calls, stats), NEW call \in Calls, NEW which \in Whiches,
         lookupHit(call, which) \/ lookupMiss(call, which)
  PROVE  Sums(calls', stats')
<1>1. /\ calls[call].pc = which /\ which \in {"main", "hot"} /\ ~At(call, "idle")
      /\ calls[call].leads \in BOOLEAN /\ calls[call].asked \in BOOLEAN
  BY BusyCall DEF lookupHit, lookupMiss, At, Whiches, Inv
<1>2. CASE lookupHit(call, which)
  <2> DEFINE pc == IF calls[call].leads THEN "finish" ELSE "answer"
  <2>1. Outcome(call, pc, TRUE) /\ pc \in EndedPcs /\ TRUE \in BOOLEAN
    BY <1>2 DEF lookupHit, EndedPcs
  <2>2. pc \in {"finish", "answer"}
    OBVIOUS
  <2> HIDE DEF pc
  <2>3. Leaves(call) \/ Moves(call, pc)
    BY <1>1, <2>1, OutcomeMoves DEF Inv
  <2>4. calls'[call].pc \in {"idle", "finish", "answer"}
    BY <2>2, <2>3 DEF Leaves, Moves
  <2>5. MakesUp(calls[call], calls'[call], {"CacheHits"})
    BY <1>1, <2>4 DEF MakesUp, IsFresh, One, LoadingPcs, UnsettledPcs, FreshPcs
  <2>6. Counted(Peer(call), {"CacheHits"})
    BY <1>2 DEF lookupHit
  <2> QED
    BY <1>1, <2>3, <2>5, <2>6, CallSums
<1>3. CASE lookupMiss(call, which)
  <2> DEFINE pc == IF which = "main" THEN "hot" ELSE IF calls[call].leads THEN "pick" ELSE "load"
  <2>1. pc \in ShortPcs /\ calls[call].pc \in ShortPcs /\ Goto(call, pc)
    BY <1>1, <1>3 DEF lookupMiss, ShortPcs
  <2>2. pc = "hot" \/ (pc = "pick" /\ calls[call].leads) \/ (pc = "load" /\ ~calls[call].leads)
    BY <1>1
  <2> HIDE DEF pc
  <2>3. Moves(call, pc)
    BY <2>1, GotoMoves DEF Inv
  <2>4. MakesUp(calls[call], calls'[call], {})
    BY <1>1, <2>2, <2>3 DEF Moves, MakesUp, IsFresh, One, LoadingPcs, UnsettledPcs, FreshPcs
  <2>5. UNCHANGED stats
    BY <1>3 DEF lookupMiss
  <2> QED
    BY <1>1, <2>3, <2>4, <2>5, CallSums DEF At
<1> QED
  BY <1>2, <1>3

LEMMA DoLeadSums ==
  ASSUME Inv, Sums(calls, stats), NEW call \in Calls, DoLead(call)
  PROVE  Sums(calls', stats')
<1> DEFINE s == [calls[call] EXCEPT !.pc = "main", !.leads = TRUE]
<1>1. calls[call].pc = "load" /\ ~At(call, "idle") /\ ~calls[call].leads
  BY DEF DoLead, At, Inv, Roles
<1>2. Peer(call) \in Peers /\ calls[call] \in Short
  BY <1>1, BusyCall, StepFields DEF Inv, TypeOK, ShortPcs
<1>3. calls' = [calls EXCEPT ![call] = s] /\ calls \in [Calls -> Steps]
  BY DEF DoLead, Inv, TypeOK
<1>4. s.pc = "main" /\ s.peer = Peer(call) /\ s.leads = TRUE
  BY <1>2 DEF Short, Peer
<1> HIDE DEF s
<1>5. calls'[call] = s /\ \A other \in Calls \ {call} : calls'[other] = calls[other]
  BY <1>3
<1>6. stats \in StatsSet /\ Counted(Peer(call), {"Loads"})
  BY DEF Sums, DoLead
<1>7. Counts(stats, stats', Peer(call), {"Loads"})
  BY <1>2, <1>6, CountedCounts
<1>8. MakesUp(calls[call], calls'[call], {"Loads"})
  BY <1>1, <1>4, <1>5 DEF MakesUp, IsFresh, One, LoadingPcs, UnsettledPcs, FreshPcs
<1> QED
  BY <1>4, <1>5, <1>7, <1>8, OneCall DEF Peer

LEMMA DoWaitSums ==
  ASSUME Inv, Sums(calls, stats), NEW call \in Calls, DoWait(call) \/ DoLate(call)
  PROVE  Sums(calls', stats')
<1>1. calls[call].pc = "load" /\ ~calls[call].leads /\ ~At(call, "idle")
  BY DEF DoWait, DoLate, At, Inv, Roles
<1>2. Leaves(call) \/ \E pc \in {"wait", "answer"} : Moves(call, pc)
  <2>1. CASE DoWait(call)
    BY <1>1, <2>1, GotoMoves DEF DoWait, ShortPcs, Inv
  <2>2. CASE DoLate(call)
    <3> DEFINE ok == flight[Peer(call)][Key(call)] = "ok"
    <3>1. Outcome(call, "answer", ok) /\ ok \in BOOLEAN
      BY <2>2 DEF DoLate
    <3> HIDE DEF ok
    <3> QED
      BY <1>1, <3>1, OutcomeMoves DEF EndedPcs, Inv
  <2> QED
    BY <2>1, <2>2
<1>3. calls'[call].pc \in {"idle", "wait", "answer"}
  BY <1>2 DEF Leaves, Moves
<1>4. MakesUp(calls[call], calls'[call], {"Loads"})
  BY <1>1, <1>3 DEF MakesUp, IsFresh, One, LoadingPcs, UnsettledPcs, FreshPcs
<1>5. Counted(Peer(call), {"Loads"})
  BY DEF DoWait, DoLate
<1> QED
  BY <1>1, <1>2, <1>4, <1>5, CallSums DEF At

LEMMA PickLocalSums ==
  ASSUME Inv, Sums(calls, stats), NEW call \in Calls, PickSelf(call) \/ PickUnreachable(call)
  PROVE  Sums(calls', stats')
<1>1. calls[call].pc = "pick" /\ calls[call].leads
  BY DEF PickSelf, PickUnreachable, At, Inv, Roles
<1>2. Moves(call, "local")
  BY <1>1, GotoMoves DEF PickSelf, PickUnreachable, ShortPcs, Inv
<1>3. PICK counters \in {{"LoadsDeduped"}, {"LoadsDeduped", "PeerErrors"}} :
        Counted(Peer(call), counters)
  BY DEF PickSelf, PickUnreachable
<1>4. MakesUp(calls[call], calls'[call], counters)
  BY <1>1, <1>2, <1>3 DEF Moves, MakesUp, IsFresh, One, LoadingPcs, UnsettledPcs, FreshPcs
<1> QED
  BY <1>1, <1>2, <1>3, <1>4, CallSums

LEMMA getLocallySums ==
  ASSUME Inv, Sums(calls, stats), NEW call \in Calls, LocalOk(call) \/ LocalError(call)
  PROVE  Sums(calls', stats')
<1>1. calls[call].pc = "local" /\ ~At(call, "idle")
  BY DEF LocalOk, LocalError, At
<1>2. PICK pc \in {"main bytes", "finish"} : Moves(call, pc)
  BY <1>1, AfterAddIs, OutcomeMoves DEF LocalOk, LocalError, EndedPcs, Inv
<1>3. PICK counters \in {{"LocalLoads"}, {"LocalLoadErrs"}} : Counted(Peer(call), counters)
  BY DEF LocalOk, LocalError
<1>4. MakesUp(calls[call], calls'[call], counters)
  <2>1. calls'[call].pc \in {"main bytes", "finish"}
    BY <1>2 DEF Moves
  <2>2. calls'[call].pc \notin LoadingPcs \cup UnsettledPcs \cup FreshPcs
    BY <2>1 DEF LoadingPcs, UnsettledPcs, FreshPcs
  <2>3. calls[call].pc \in LoadingPcs
    BY <1>1 DEF LoadingPcs
  <2> QED
    BY <1>3, <2>2, <2>3, LoadEnds
<1> QED
  BY <1>1, <1>2, <1>3, <1>4, CallSums

\* Steps after the load.
LEMMA QuietSums ==
  ASSUME Inv, Sums(calls, stats), NEW call \in Calls, UNCHANGED stats,
         calls[call].pc \in EndedPcs \cup {"hot bytes"},
         Leaves(call) \/ \E pc \in EndedPcs \cup {"hot bytes"} : Moves(call, pc)
  PROVE  Sums(calls', stats')
<1>1. calls[call].pc # "idle" /\ calls'[call].pc \in EndedPcs \cup {"hot bytes", "idle"}
  BY DEF EndedPcs, Leaves, Moves
<1>2. MakesUp(calls[call], calls'[call], {})
  BY <1>1, MakesUpOutside DEF EndedPcs, LoadingPcs, UnsettledPcs, FreshPcs
<1> QED
  BY <1>1, <1>2, CallSums

\* The steps of an eviction, and those that end a call.
LEMMA EndSums ==
  ASSUME Inv, Sums(calls, stats), NEW call \in Calls,
         populateCache(call) \/ Forget(call) \/ Unheard(call)
  PROVE  Sums(calls', stats')
<1> SUFFICES ASSUME UNCHANGED stats
             PROVE  /\ calls[call].pc \in EndedPcs \cup {"hot bytes"}
                    /\ Leaves(call) \/ \E pc \in EndedPcs \cup {"hot bytes"} : Moves(call, pc)
  <2>1. UNCHANGED stats
    BY DEF populateCache, Evict, MainBytes, BothFit, ChooseVictim, Forget, Unheard
  <2> QED
    BY <2>1, QuietSums
<1>1. CASE \E which \in Whiches : Evict(call, which)
  <2>1. PICK which \in Whiches : Evict(call, which)
    BY <1>1
  <2>2. calls[call].pc = EvictPc[which]
    BY <2>1 DEF Evict, At
  <2>3. calls[call].pc \in {"evict main", "evict hot"}
    <3>1. which = "main" \/ which = "hot"
      BY DEF Whiches
    <3>2. EvictPc["main"] = "evict main" /\ EvictPc["hot"] = "evict hot"
      BY DEF EvictPc
    <3> QED
      BY <2>2, <3>1, <3>2
  <2>4. Moves(call, "main bytes")
    BY <2>1, <2>3, GotoMoves DEF Evict, EndedPcs, Inv
  <2> QED
    BY <2>3, <2>4 DEF EndedPcs
<1>2. CASE MainBytes(call)
  <2>1. calls[call].pc = "main bytes" /\ calls[call] \in Ended /\ Peer(call) \in Peers
    <3>1. calls[call].pc = "main bytes" /\ ~At(call, "idle")
      BY <1>2 DEF MainBytes, At
    <3> QED
      BY <3>1, StepFields, BusyCall DEF Inv, TypeOK, EndedPcs
  <2> DEFINE bytes == cache[Peer(call)]["main"].nbytes
             s == [pc |-> "hot bytes", peer |-> Peer(call), key |-> Key(call),
                   leads |-> calls[call].leads, asked |-> calls[call].asked,
                   ok |-> calls[call].ok, mainBytes |-> bytes]
  <2>2. bytes \in Int
    BY <2>1 DEF Inv, TypeOK, CacheSet, Whiches
  <2>3. calls' = [calls EXCEPT ![call] = s] /\ calls \in [Calls -> Steps]
    BY <1>2 DEF MainBytes, Inv, TypeOK, Peer, Key
  <2> HIDE DEF bytes
  <2>4. s \in Counting
    BY <2>1, <2>2 DEF Ended, Counting, Peer, Key
  <2>5. /\ s.pc = "hot bytes" /\ s.peer = Peer(call) /\ s.key = Key(call)
        /\ s.leads = calls[call].leads /\ s.asked = calls[call].asked
    OBVIOUS
  <2> HIDE DEF s
  <2>6. Moves(call, "hot bytes")
    BY <2>3, <2>4, <2>5 DEF Moves, OthersStay, Steps, Busy
  <2> QED
    BY <2>1, <2>6 DEF EndedPcs
<1>3. CASE BothFit(call) \/ ChooseVictim(call)
  <2>1. calls[call].pc = "hot bytes" /\ ~At(call, "idle")
    BY <1>3 DEF BothFit, ChooseVictim, At
  <2>2. PICK pc \in {"finish", "evict main", "evict hot"} : Outcome(call, pc, TRUE)
    BY <1>3 DEF BothFit, ChooseVictim, Victim, EvictPc
  <2>3. Moves(call, pc)
    BY <2>1, <2>2, OutcomeMoves DEF EndedPcs, Inv
  <2> QED
    BY <2>1, <2>3 DEF EndedPcs
<1>4. CASE Forget(call)
  <2>1. calls[call].pc = "forget" /\ ~At(call, "idle") /\ calls[call].ok \in BOOLEAN
    <3>1. calls[call].pc = "forget"
      BY <1>4 DEF Forget, At
    <3>2. calls[call] \in Ended
      BY <3>1, StepFields DEF Inv, TypeOK, EndedPcs
    <3> QED
      BY <3>1, <3>2 DEF Ended, At
  <2>2. Leaves(call) \/ Moves(call, "answer")
    BY <1>4, <2>1, OutcomeMoves DEF Forget, EndedPcs, Inv
  <2> QED
    BY <2>1, <2>2 DEF EndedPcs
<1>5. CASE Unheard(call)
  BY <1>5 DEF Unheard, Leaves, OthersStay, Inv, TypeOK, Steps, Idle, At, EndedPcs
<1> QED
  BY <1>1, <1>2, <1>3, <1>4, <1>5 DEF populateCache, Whiches

\* A Get begins.
LEMMA GetSums ==
  ASSUME Inv, Sums(calls, stats), NEW c \in Callers, NEW key \in Keys, Get(c, key)
  PROVE  Sums(calls', stats')
<1> DEFINE call == <<c, 0>>
           new  == NewCall(Home[c], key, FALSE)
<1>1. call \in Calls /\ calls[call].pc = "idle" /\ Home[c] \in Peers
  BY GroupAssumption DEF Get, At, Calls
<1>2. new.pc = "main" /\ new.leads = FALSE /\ new.peer = Home[c]
  BY DEF NewCall
<1>3. calls' = [calls EXCEPT ![call] = new] /\ calls \in [Calls -> Steps]
  BY DEF Get, Inv, TypeOK
<1> HIDE DEF new, call
<1>4. calls'[call] = new /\ \A other \in Calls \ {call} : calls'[other] = calls[other]
  BY <1>1, <1>3
<1>5. stats \in StatsSet /\ Counted(Home[c], {"Gets"})
  BY DEF Get, Sums
<1>6. Counts(stats, stats', Home[c], {"Gets"})
  BY <1>1, <1>5, CountedCounts
<1>7. MakesUp(calls[call], calls'[call], {"Gets"})
  BY <1>1, <1>2, <1>4 DEF MakesUp, IsFresh, One, LoadingPcs, UnsettledPcs, FreshPcs
<1> QED
  BY <1>1, <1>2, <1>4, <1>6, <1>7, OneCall

\* Two calls go on.
LEMMA TwoCalls ==
  ASSUME NEW cs \in [Calls -> Steps], NEW ds, NEW call \in Calls, NEW other \in Calls, call # other,
         NEW s, NEW t, NEW u, NEW p, NEW q, NEW these, NEW those, Sums(cs, s),
         \A third \in Calls \ {call, other} : ds[third] = cs[third],
         cs[call].pc # "idle" => cs[call].peer = p, ds[call].pc # "idle" => ds[call].peer = p,
         cs[other].pc # "idle" => cs[other].peer = q, ds[other].pc # "idle" => ds[other].peer = q,
         Counts(s, t, p, these), MakesUp(cs[call], ds[call], these),
         Counts(t, u, q, those), MakesUp(cs[other], ds[other], those)
  PROVE  Sums(ds, u)
<1> DEFINE mid == [cs EXCEPT ![call] = ds[call]]
<1>1. /\ mid[call] = ds[call] /\ mid[other] = cs[other]
      /\ \A third \in Calls \ {call} : mid[third] = cs[third]
      /\ \A third \in Calls \ {other} : ds[third] = mid[third]
  OBVIOUS
<1> HIDE DEF mid
<1>2. Sums(mid, t)
  BY <1>1, OneCall
<1> QED
  BY <1>1, <1>2, OneCall

LEMMA PickRemoteSums ==
  ASSUME Inv, Sums(calls, stats), NEW call \in Calls, PickRemote(call)
  PROVE  Sums(calls', stats')
<1> DEFINE server == Server(call)
           owner  == Owner(ring[Peer(call)], Key(call))
           new    == NewCall(owner, Key(call), TRUE)
           s      == [calls[call] EXCEPT !.pc = "remote"]
           mid    == [stats EXCEPT ![Peer(call)].LoadsDeduped = @ + 1]
<1>1. /\ calls[call].pc = "pick" /\ calls[call].leads /\ call[2] < MaxHops /\ ~At(call, "idle")
      /\ calls[server].pc = "idle"
  BY DEF PickRemote, At, Inv, Roles
<1>2. server \in Calls /\ server # call
  BY <1>1, ClientAndServer
<1>3. Peer(call) \in Peers /\ Key(call) \in Keys /\ calls[call] \in Short
  BY <1>1, BusyCall, StepFields DEF Inv, TypeOK, ShortPcs
<1>4. owner \in Peers /\ owner # Peer(call)
  <2>1. IsRing(ring[Peer(call)]) /\ ~IsEmpty(ring[Peer(call)]) /\ owner # Peer(call)
    BY <1>3 DEF PickRemote, IsRemote, Inv, TypeOK
  <2> QED
    BY <2>1, OwnerIsPeer
<1>5. calls' = [calls EXCEPT ![call] = s, ![server] = new] /\ calls \in [Calls -> Steps]
  <2>1. calls' = [calls EXCEPT ![call].pc = "remote", ![server] = new]
    BY DEF PickRemote
  <2>2. calls \in [Calls -> Steps]
    BY DEF Inv, TypeOK
  <2> HIDE DEF new, server
  <2> QED
    BY <1>2, <2>1, <2>2
<1>6. stats' = [mid EXCEPT ![owner].ServerRequests = @ + 1, ![owner].Gets = @ + 1]
  <2>1. stats' = [stats EXCEPT ![Peer(call)].LoadsDeduped = @ + 1,
                               ![owner].ServerRequests = @ + 1, ![owner].Gets = @ + 1]
    BY DEF PickRemote
  <2> HIDE DEF owner
  <2> QED
    BY <2>1
<1> HIDE DEF owner
<1>7. stats \in StatsSet
  BY DEF Sums
<1>8. Counts(stats, mid, Peer(call), {"LoadsDeduped"})
  BY <1>3, <1>7 DEF Counts, StatsSet, Counters, One
<1> HIDE DEF mid
<1>9. Counts(mid, stats', owner, {"ServerRequests", "Gets"})
  <2>1. mid \in StatsSet
    BY <1>8 DEF Counts
  <2> QED
    BY <1>4, <1>6, <2>1 DEF Counts, StatsSet, Counters, One
<1>10. new.pc = "main" /\ new.leads = FALSE /\ new.peer = owner
  BY DEF NewCall
<1>11. s.pc = "remote" /\ s.peer = Peer(call) /\ s.leads = calls[call].leads
  BY <1>3 DEF Short, Peer
<1> HIDE DEF new, s, server
<1>12. calls'[call] = s /\ calls'[server] = new
       /\ \A third \in Calls \ {call, server} : calls'[third] = calls[third]
  BY <1>2, <1>5
<1>13. MakesUp(calls[call], calls'[call], {"LoadsDeduped"})
  BY <1>1, <1>11, <1>12 DEF MakesUp, IsFresh, One, LoadingPcs, UnsettledPcs, FreshPcs
<1>14. MakesUp(calls[server], calls'[server], {"ServerRequests", "Gets"})
  BY <1>1, <1>10, <1>12 DEF MakesUp, IsFresh, One, LoadingPcs, UnsettledPcs, FreshPcs
<1> QED
  BY <1>1, <1>2, <1>5, <1>8, <1>9, <1>10, <1>11, <1>12, <1>13, <1>14, TwoCalls DEF Peer

LEMMA RequestFailsSums ==
  ASSUME Inv, Sums(calls, stats), NEW call \in Calls, RequestFails(call)
  PROVE  Sums(calls', stats')
<1> DEFINE server == Server(call)
           alone  == [calls[server] EXCEPT !.asked = FALSE]
           s      == [calls[call] EXCEPT !.pc = "local"]
<1>1. calls[call].pc = "remote" /\ ~At(call, "idle")
  BY DEF RequestFails, At
<1>2. server \in Calls /\ server # call /\ calls[server].pc # "idle"
  BY <1>1, ClientAndServer DEF Inv, Requests, At, Asks
<1>3. calls[call] \in Short /\ calls[server] \in Steps /\ calls \in [Calls -> Steps]
      /\ Peer(call) \in Peers
  BY <1>1, <1>2, BusyCall, StepFields DEF Inv, TypeOK, ShortPcs
<1>4. calls' = [calls EXCEPT ![call] = s, ![server] = alone]
  <2>1. calls' = [calls EXCEPT ![call].pc = "local", ![server].asked = FALSE]
    BY DEF RequestFails
  <2> HIDE DEF server
  <2> QED
    BY <1>2, <2>1
<1>5. alone.pc = calls[server].pc /\ alone.peer = Peer(server)
      /\ alone.leads = calls[server].leads
  BY <1>2, <1>3, WithoutAsker DEF Peer
<1>6. s.pc = "local" /\ s.peer = Peer(call)
  BY <1>3 DEF Short, Peer
<1> HIDE DEF alone, s, server
<1>7. calls'[call] = s /\ calls'[server] = alone
      /\ \A third \in Calls \ {call, server} : calls'[third] = calls[third]
  BY <1>2, <1>3, <1>4
<1>8. stats \in StatsSet /\ Counted(Peer(call), {"PeerErrors"})
  BY DEF Sums, RequestFails
<1>9. Counts(stats, stats', Peer(call), {"PeerErrors"})
  BY <1>3, <1>8, CountedCounts
<1>10. Counts(stats', stats', Peer(server), {})
  BY <1>9, NothingCounts DEF Counts
<1>11. MakesUp(calls[call], calls'[call], {"PeerErrors"})
  BY <1>1, <1>6, <1>7 DEF MakesUp, IsFresh, One, LoadingPcs, UnsettledPcs, FreshPcs
<1>12. MakesUp(calls[server], calls'[server], {})
  BY <1>5, <1>7 DEF MakesUp, IsFresh, One
<1> QED
  BY <1>1, <1>2, <1>3, <1>5, <1>6, <1>7, <1>9, <1>10, <1>11, <1>12, TwoCalls DEF Peer

LEMMA AnswerSums ==
  ASSUME Inv, Sums(calls, stats), NEW call \in Calls, AnswerOk(call) \/ AnswerError(call)
  PROVE  Sums(calls', stats')
<1> DEFINE client == Client(call)
<1>1. calls[call].pc = "answer" /\ calls[call].asked /\ ~At(call, "idle")
  BY DEF AnswerOk, AnswerError, At
<1>2. /\ client \in Calls /\ client # call /\ calls[client].pc = "remote"
      /\ calls[client] \in Short /\ ~At(client, "idle") /\ calls \in [Calls -> Steps]
  <2>1. Asks(call) /\ call[2] > 0
    BY <1>1 DEF Asks, At, Inv, Requests
  <2>2. client \in Calls /\ client # call /\ calls[client].pc = "remote"
    BY <2>1, ClientAndServer DEF Inv, Requests, At
  <2> QED
    BY <2>2, StepFields DEF Inv, TypeOK, ShortPcs, At
<1>3. Peer(client) \in Peers /\ stats \in StatsSet
  BY <1>2, BusyCall DEF Inv, Sums
<1>4. CASE AnswerOk(call)
  <2>1. PICK pc \in {"main bytes", "finish"} :
          calls' = [calls EXCEPT ![call] = Idle, ![client] = WithOutcome(client, pc, TRUE)]
    BY <1>4, AfterAddIs DEF AnswerOk
  <2> DEFINE s == WithOutcome(client, pc, TRUE)
  <2>2. s.pc = pc /\ s.peer = Peer(client)
    <3>1. pc \in EndedPcs /\ pc # "answer" /\ TypeOK /\ TRUE \in BOOLEAN
      BY DEF EndedPcs, Inv
    <3> HIDE DEF client
    <3> QED
      BY <1>2, <3>1, OutcomeFields
  <2> HIDE DEF s, client
  <2>3. calls'[call] = Idle /\ calls'[client] = s
        /\ \A third \in Calls \ {call, client} : calls'[third] = calls[third]
    BY <1>2, <2>1 DEF s
  <2>4. Counted(Peer(client), {"PeerLoads"})
    BY <1>4 DEF AnswerOk, client
  <2>5. Counts(stats, stats', Peer(client), {"PeerLoads"})
    BY <1>3, <2>4, CountedCounts
  <2>6. Counts(stats', stats', Peer(call), {})
    BY <2>5, NothingCounts DEF Counts
  <2>7. Idle.pc = "idle"
    BY DEF Idle
  <2>8. MakesUp(calls[client], calls'[client], {"PeerLoads"})
    <3>1. calls[client].pc \in LoadingPcs
      BY <1>2 DEF LoadingPcs
    <3>2. calls'[client].pc \notin LoadingPcs \cup UnsettledPcs \cup FreshPcs
      BY <2>2, <2>3 DEF LoadingPcs, UnsettledPcs, FreshPcs
    <3> QED
      BY <3>1, <3>2, LoadEnds
  <2>9. MakesUp(calls[call], calls'[call], {})
    <3>1. /\ calls[call].pc \notin LoadingPcs \cup UnsettledPcs \cup FreshPcs
          /\ calls'[call].pc \notin LoadingPcs \cup UnsettledPcs \cup FreshPcs
      BY <1>1, <2>3, <2>7 DEF LoadingPcs, UnsettledPcs, FreshPcs
    <3> QED
      BY <3>1, MakesUpOutside
  <2>10. /\ calls[client].pc # "idle" => calls[client].peer = Peer(client)
         /\ calls'[client].pc # "idle" => calls'[client].peer = Peer(client)
         /\ calls[call].pc # "idle" => calls[call].peer = Peer(call)
         /\ calls'[call].pc # "idle" => calls'[call].peer = Peer(call)
    BY <2>2, <2>3, <2>7 DEF Peer
  <2> QED
    BY <1>2, <2>3, <2>5, <2>6, <2>8, <2>9, <2>10, TwoCalls
<1>5. CASE AnswerError(call)
  <2> DEFINE s == [calls[client] EXCEPT !.pc = "local"]
  <2>1. calls' = [calls EXCEPT ![call] = Idle, ![client] = s]
    <3>1. calls' = [calls EXCEPT ![call] = Idle, ![client].pc = "local"]
      BY <1>5 DEF AnswerError
    <3> HIDE DEF client
    <3> QED
      BY <1>2, <3>1
  <2>2. s.pc = "local" /\ s.peer = Peer(client)
    BY <1>2 DEF Short, Peer
  <2> HIDE DEF s, client
  <2>3. calls'[call] = Idle /\ calls'[client] = s
        /\ \A third \in Calls \ {call, client} : calls'[third] = calls[third]
    BY <1>2, <2>1
  <2>4. Counted(Peer(client), {"PeerErrors"})
    BY <1>5 DEF AnswerError, client
  <2>5. Counts(stats, stats', Peer(client), {"PeerErrors"})
    BY <1>3, <2>4, CountedCounts
  <2>6. Counts(stats', stats', Peer(call), {})
    BY <2>5, NothingCounts DEF Counts
  <2>7. Idle.pc = "idle"
    BY DEF Idle
  <2>8. MakesUp(calls[client], calls'[client], {"PeerErrors"})
    BY <1>2, <2>2, <2>3 DEF MakesUp, IsFresh, One, LoadingPcs, UnsettledPcs, FreshPcs
  <2>9. MakesUp(calls[call], calls'[call], {})
    BY <1>1, <2>3, <2>7 DEF MakesUp, IsFresh, One, LoadingPcs, UnsettledPcs, FreshPcs
  <2> QED
    BY <1>2, <2>2, <2>3, <2>5, <2>6, <2>7, <2>8, <2>9, TwoCalls DEF Peer
<1> QED
  BY <1>4, <1>5

\* Those who wait have been counted, and so has the call that leads.
LEMMA FinishSums ==
  ASSUME Inv, Sums(calls, stats), NEW call \in Calls, Finish(call)
  PROVE  Sums(calls', stats')
<1> DEFINE ok    == calls[call].ok
           new(w) == IF w \in Waiters(call) THEN WithOutcome(w, "answer", ok)
                     ELSE IF w = call THEN WithOutcome(w, "forget", ok) ELSE calls[w]
           Done  == {"idle", "wait", "finish", "answer", "forget"}
<1>1. calls[call].pc = "finish" /\ ~At(call, "idle") /\ ok \in BOOLEAN /\ TypeOK
  <2>1. calls[call].pc = "finish"
    BY DEF Finish, At
  <2>2. calls[call] \in Ended
    BY <2>1, StepFields DEF Inv, TypeOK, EndedPcs
  <2> QED
    BY <2>1, <2>2 DEF Ended, At, Inv
<1>2. calls' = [w \in Calls |-> new(w)] /\ UNCHANGED stats
  BY DEF Finish
<1>3. ASSUME NEW w \in Calls, calls'[w] # calls[w]
      PROVE  calls[w].pc \in {"wait", "finish"} /\ calls'[w].pc \in {"idle", "answer", "forget"}
  <2>1. CASE w \in Waiters(call)
    <3>1. calls'[w] = WithOutcome(w, "answer", ok) /\ calls[w].pc = "wait"
      BY <1>2, <2>1 DEF Waiters, At
    <3>2. "answer" \in EndedPcs /\ ~At(w, "idle")
      BY <3>1 DEF EndedPcs, At
    <3> HIDE DEF ok, new
    <3> QED
      BY <1>1, <3>1, <3>2, OutcomeFields
  <2>2. CASE w \notin Waiters(call)
    <3>1. w = call /\ calls'[w] = WithOutcome(call, "forget", ok)
      BY <1>2, <1>3, <2>2
    <3>2. "forget" \in EndedPcs /\ "forget" # "answer"
      BY DEF EndedPcs
    <3> HIDE DEF ok, new
    <3> QED
      BY <1>1, <3>1, <3>2, OutcomeFields
  <2> QED
    BY <2>1, <2>2
<1>4. \A p : /\ Loading(calls', p) = Loading(calls, p)
             /\ Fresh(calls', p) = Fresh(calls, p)
             /\ Unsettled(calls', p) = Unsettled(calls, p)
  BY <1>3 DEF Loading, Fresh, Unsettled, Those, LoadingPcs, FreshPcs, UnsettledPcs
<1>5. IsFiniteSet(Underway(calls'))
  <2>1. Underway(calls') \subseteq Underway(calls)
    BY <1>3 DEF Underway
  <2> QED
    BY <2>1, FS_Subset DEF Sums
<1> HIDE DEF ok, new
<1> QED
  BY <1>2, <1>4, <1>5 DEF Sums, Balance

LEMMA InitSums == Init => Sums(calls, stats)
<1> SUFFICES ASSUME Init
             PROVE  Sums(calls, stats)
  OBVIOUS
<1>1. \A call \in Calls : calls[call].pc = "idle"
  BY DEF Init, Idle
<1>2. Underway(calls) = {} /\ \A p : Loading(calls, p) = {} /\ Fresh(calls, p) = {}
      /\ Unsettled(calls, p) = {}
  BY <1>1 DEF Underway, Loading, Fresh, Unsettled, Those, LoadingPcs, FreshPcs, UnsettledPcs
<1>3. stats = [p \in Peers |-> [c \in Counters |-> 0]]
  BY DEF Init
<1>4. ASSUME NEW p \in Peers PROVE Balance(calls, stats, p)
  <2>1. \A c \in Counters : stats[p][c] = 0
    BY <1>3
  <2> QED
    BY <1>2, <2>1, FS_EmptySet DEF Balance, Counters
<1> QED
  BY <1>2, <1>3, <1>4, FS_EmptySet DEF Sums, StatsSet

LEMMA NextSums == Inv /\ Sums(calls, stats) /\ [Next]_vars => Sums(calls', stats')
<1> SUFFICES ASSUME Inv, Sums(calls, stats), [Next]_vars
             PROVE  Sums(calls', stats')
  OBVIOUS
<1>1. CASE UNCHANGED <<calls, stats>>
  BY <1>1
<1>2. CASE \E p \in Peers, peers \in PeerLists : SetPeers(p, peers)
  BY <1>1, <1>2 DEF SetPeers
<1>3. CASE \E c \in Callers, key \in Keys : Get(c, key)
  BY <1>3, GetSums
<1>4. CASE \E call \in Calls : Step(call) \/ PickUnreachable(call) \/ RequestFails(call)
  <2>1. PICK call \in Calls : Step(call) \/ PickUnreachable(call) \/ RequestFails(call)
    BY <1>4
  <2>2. CASE Lookup(call)
    BY <2>2, lookupSums DEF Lookup, Whiches
  <2>3. CASE Do(call)
    BY <2>3, DoLeadSums, DoWaitSums, FinishSums, EndSums DEF Do
  <2>4. CASE Pick(call) \/ PickUnreachable(call)
    BY <2>4, PickLocalSums, PickRemoteSums DEF Pick
  <2>5. CASE getLocally(call) \/ populateCache(call)
    BY <2>5, getLocallySums, EndSums DEF getLocally
  <2>6. CASE Answer(call) \/ RequestFails(call)
    BY <2>6, AnswerSums, EndSums, RequestFailsSums DEF Answer
  <2> QED
    BY <2>1, <2>2, <2>3, <2>4, <2>5, <2>6 DEF Step
<1> QED
  BY <1>1, <1>2, <1>3, <1>4 DEF Next, vars

\* The statistics of a process at rest add up (groupcache.go:198), however its
\* calls have come between one another: each load that was no duplicate ended in
\* one way, each Get was a hit or a load, and none was both a hit and such a load.
THEOREM StatisticsAddUp == Spec => []StatsAddUp
<1>1. Init => Inv /\ Sums(calls, stats)
  BY InitInv, InitSums
<1>2. Inv /\ Sums(calls, stats) /\ [Next]_vars => Inv' /\ Sums(calls, stats)'
  BY NextInv, NextSums
<1>3. Inv /\ Sums(calls, stats) => StatsAddUp
  <2> SUFFICES ASSUME Sums(calls, stats), NEW p \in Peers,
                      \A call \in Calls : At(call, "idle") \/ Peer(call) # p
               PROVE  LET s == stats[p]
                      IN  /\ s.LoadsDeduped = s.PeerLoads + s.LocalLoads + s.LocalLoadErrs
                          /\ s.Gets - s.CacheHits <= s.Loads
                          /\ s.LoadsDeduped + s.CacheHits <= s.Gets
    BY DEF StatsAddUp
  <2>1. Loading(calls, p) = {} /\ Fresh(calls, p) = {} /\ Unsettled(calls, p) = {}
    BY DEF Loading, Fresh, Unsettled, Those, LoadingPcs, FreshPcs, UnsettledPcs, At, Peer
  <2>2. Cardinality({}) = 0
    BY FS_EmptySet
  <2>3. Balance(calls, stats, p) /\ \A c \in Counters : stats[p][c] \in Nat
    BY DEF Sums, StatsSet
  <2> QED
    BY <2>1, <2>2, <2>3 DEF Balance, Counters
<1> QED
  BY <1>1, <1>2, <1>3, PTL DEF Spec

-----------------------------------------------------------------------------
(* The bytes.  What the first n keys of a list take is a recursive         *)
(* function, and Least is the induction over it.                           *)

\* What the first keys of a list take, from none to all of them.
AreTotals(f, keys) ==
  /\ f \in [0 .. Len(keys) -> Int] /\ f[0] = 0
  /\ \A n \in 1 .. Len(keys) : f[n] = f[n - 1] + Bytes[keys[n]]

LEMMA BytesOfKeys ==
  ASSUME NEW keys \in Seq(Keys)
  PROVE  Len(keys) \in Nat /\ \A n \in 1 .. Len(keys) : keys[n] \in Keys /\ Bytes[keys[n]] \in Int
BY LenProperties, ElementOfSeq, GroupAssumption

LEMMA TotalsExist ==
  ASSUME NEW keys \in Seq(Keys)
  PROVE  \E f : AreTotals(f, keys)
<1> DEFINE upTo(k) == \E f \in [0 .. k -> Int] :
                        f[0] = 0 /\ \A n \in 1 .. k : f[n] = f[n - 1] + Bytes[keys[n]]
           without == {k \in 0 .. Len(keys) : ~upTo(k)}
<1>1. Len(keys) \in Nat /\ \A n \in 1 .. Len(keys) : Bytes[keys[n]] \in Int
  BY BytesOfKeys
<1>2. ASSUME without # {} PROVE FALSE
  <2>1. without \in SUBSET Nat
    BY <1>1
  <2>2. PICK k \in without : \A j \in without : k <= j
    BY <1>2, <2>1, Least
  <2>3. k \in 0 .. Len(keys) /\ ~upTo(k)
    OBVIOUS
  <2>4. k # 0
    <3>1. [n \in 0 .. 0 |-> 0] \in [0 .. 0 -> Int] /\ [n \in 0 .. 0 |-> 0][0] = 0 /\ 1 .. 0 = {}
      OBVIOUS
    <3>2. upTo(0)
      BY <3>1
    <3> QED
      BY <2>3, <3>2
  <2>5. k - 1 \in 0 .. Len(keys) /\ k - 1 \notin without
    <3>1. k \in Int /\ k - 1 \in 0 .. Len(keys) /\ ~(k <= k - 1)
      BY <1>1, <2>3, <2>4
    <3> HIDE DEF without
    <3> QED
      BY <2>2, <3>1
  <2>6. PICK f \in [0 .. k - 1 -> Int] :
          f[0] = 0 /\ \A n \in 1 .. k - 1 : f[n] = f[n - 1] + Bytes[keys[n]]
    BY <2>5
  <2> DEFINE g == [n \in 0 .. k |-> IF n = k THEN f[k - 1] + Bytes[keys[k]] ELSE f[n]]
  <2>7. g \in [0 .. k -> Int]
    BY <1>1, <2>3, <2>4, <2>6
  <2>8. g[0] = 0 /\ \A n \in 1 .. k : g[n] = g[n - 1] + Bytes[keys[n]]
    BY <1>1, <2>3, <2>4, <2>6
  <2> QED
    BY <2>3, <2>7, <2>8
<1>3. upTo(Len(keys))
  <2>1. Len(keys) \in 0 .. Len(keys)
    BY <1>1
  <2> QED
    BY <1>2, <2>1
<1> QED
  BY <1>3 DEF AreTotals

LEMMA TotalsAgree ==
  ASSUME NEW keys \in Seq(Keys), NEW f, NEW g, AreTotals(f, keys), AreTotals(g, keys)
  PROVE  f[Len(keys)] = g[Len(keys)]
<1> DEFINE apart == {n \in 0 .. Len(keys) : f[n] # g[n]}
<1>1. Len(keys) \in Nat
  BY BytesOfKeys
<1>2. ASSUME apart # {} PROVE FALSE
  <2>1. apart \in SUBSET Nat
    BY <1>1
  <2>2. PICK n \in apart : \A m \in apart : n <= m
    BY <1>2, <2>1, Least
  <2>3. n # 0
    BY DEF AreTotals
  <2>4. n - 1 \in 0 .. Len(keys) /\ n - 1 \notin apart /\ n \in 1 .. Len(keys)
    BY <1>1, <2>2, <2>3
  <2>5. f[n - 1] = g[n - 1] /\ f[n] = f[n - 1] + Bytes[keys[n]]
        /\ g[n] = g[n - 1] + Bytes[keys[n]]
    BY <2>4 DEF AreTotals
  <2> QED
    BY <2>5
<1>3. Len(keys) \in 0 .. Len(keys)
  BY <1>1
<1> QED
  BY <1>2, <1>3

\* The recursive function is what its equation says.
LEMMA TotalIs ==
  ASSUME NEW c, c.keys \in Seq(Keys), NEW f, AreTotals(f, c.keys)
  PROVE  TotalBytes(c) = f[Len(c.keys)] /\ TotalBytes(c) \in Int
<1> DEFINE keys == c.keys
           step(g) == [n \in 0 .. Len(keys) |->
                         IF n = 0 THEN 0 ELSE g[n - 1] + Bytes[keys[n]]]
           first == CHOOSE g : g = step(g)
<1>1. Len(keys) \in Nat /\ \A n \in 1 .. Len(keys) : Bytes[keys[n]] \in Int
  BY BytesOfKeys
<1>2. f = step(f)
  BY <1>1 DEF AreTotals
<1>3. first = step(first)
  BY <1>2
<1>4. TotalBytes(c) = first[Len(keys)]
  BY DEF TotalBytes
<1> HIDE DEF first
<1>5. first[0] = 0 /\ \A n \in 1 .. Len(keys) : first[n] = first[n - 1] + Bytes[keys[n]]
  BY <1>1, <1>3
<1>6. first \in [0 .. Len(keys) -> Int]
  <2> DEFINE wrong == {n \in 0 .. Len(keys) : first[n] \notin Int}
  <2>1. ASSUME wrong # {} PROVE FALSE
    <3>1. PICK n \in wrong : \A m \in wrong : n <= m
      <4>1. wrong \in SUBSET Nat
        BY <1>1
      <4> QED
        BY <2>1, <4>1, Least
    <3>2. n # 0
      BY <1>5
    <3>3. n \in 1 .. Len(keys) /\ n - 1 \in 0 .. Len(keys) /\ n - 1 \notin wrong
      BY <1>1, <3>1, <3>2
    <3> QED
      BY <1>1, <1>5, <3>1, <3>3
  <2>2. first = [n \in 0 .. Len(keys) |-> first[n]]
    BY <1>3
  <2>3. \A n \in 0 .. Len(keys) : first[n] \in Int
    BY <2>1
  <2> QED
    BY <2>2, <2>3
<1>7. AreTotals(first, keys)
  BY <1>5, <1>6 DEF AreTotals
<1> QED
  BY <1>1, <1>4, <1>6, <1>7, TotalsAgree

\* The keys of a list are all different, and its bytes are counted.
Exact(c) ==
  /\ c.nbytes = TotalBytes(c)
  /\ \A i, j \in 1 .. Len(c.keys) : c.keys[i] = c.keys[j] => i = j

\* A list with a key in front.
LEMMA PrependTotal ==
  ASSUME NEW c \in CacheSet, NEW d \in CacheSet, NEW key \in Keys,
         Len(d.keys) = Len(c.keys) + 1,
         \A n \in 1 .. Len(d.keys) : d.keys[n] = IF n <= 1 THEN key ELSE c.keys[n - 1]
  PROVE  TotalBytes(d) = TotalBytes(c) + Bytes[key]
<1> DEFINE len == Len(c.keys)
<1>1. /\ c.keys \in Seq(Keys) /\ d.keys \in Seq(Keys) /\ len \in Nat
      /\ Bytes[key] \in Int /\ \A n \in 1 .. len : Bytes[c.keys[n]] \in Int
  BY BytesOfKeys, GroupAssumption DEF CacheSet
<1>2. PICK f : AreTotals(f, c.keys)
  BY <1>1, TotalsExist
<1> DEFINE g == [n \in 0 .. len + 1 |-> IF n = 0 THEN 0 ELSE f[n - 1] + Bytes[key]]
<1>3. f \in [0 .. len -> Int] /\ f[0] = 0
      /\ \A n \in 1 .. len : f[n] = f[n - 1] + Bytes[c.keys[n]]
  BY <1>2 DEF AreTotals
<1> HIDE DEF len
<1>4. g \in [0 .. len + 1 -> Int] /\ g[0] = 0
  BY <1>1, <1>3
<1>5. ASSUME NEW n \in 1 .. len + 1 PROVE g[n] = g[n - 1] + Bytes[d.keys[n]]
  <2>1. CASE n = 1
    <3>1. d.keys[1] = key /\ g[1] = f[0] + Bytes[key] /\ g[0] = 0
      BY <1>1, <2>1 DEF len
    <3> QED
      BY <1>1, <1>3, <2>1, <3>1
  <2>2. CASE n # 1
    <3>1. n - 1 \in 1 .. len /\ n - 1 # 0 /\ n - 1 \in 0 .. len + 1 /\ n - 1 - 1 \in 0 .. len
          /\ ~(n <= 1) /\ n # 0 /\ n \in 0 .. len + 1
      BY <1>1, <2>2
    <3>2. g[n] = f[n - 1] + Bytes[key] /\ g[n - 1] = f[n - 1 - 1] + Bytes[key]
      BY <3>1
    <3>3. f[n - 1] = f[n - 1 - 1] + Bytes[c.keys[n - 1]] /\ d.keys[n] = c.keys[n - 1]
      BY <1>3, <3>1 DEF len
    <3>4. f[n - 1 - 1] \in Int /\ Bytes[c.keys[n - 1]] \in Int
      BY <1>1, <1>3, <3>1
    <3>5. Bytes[key] \in Int
      BY <1>1
    <3> HIDE DEF g
    <3> QED
      BY <3>2, <3>3, <3>4, <3>5
  <2> QED
    BY <2>1, <2>2
<1> HIDE DEF g
<1>6. AreTotals(g, d.keys)
  BY <1>4, <1>5 DEF AreTotals, len
<1>7. TotalBytes(c) = f[len] /\ TotalBytes(d) = g[len + 1]
  BY <1>1, <1>2, <1>6, TotalIs DEF len
<1>8. g[len + 1] = f[len] + Bytes[key]
  BY <1>1 DEF g
<1> QED
  BY <1>7, <1>8

\* A list without its element i.
LEMMA RemoveTotal ==
  ASSUME NEW c \in CacheSet, NEW d \in CacheSet, NEW i \in 1 .. Len(c.keys),
         Len(d.keys) = Len(c.keys) - 1,
         \A n \in 1 .. Len(d.keys) : d.keys[n] = IF n < i THEN c.keys[n] ELSE c.keys[n + 1]
  PROVE  TotalBytes(d) = TotalBytes(c) - Bytes[c.keys[i]]
<1> DEFINE len == Len(c.keys)
           gone == Bytes[c.keys[i]]
<1>1. /\ c.keys \in Seq(Keys) /\ d.keys \in Seq(Keys) /\ len \in Nat
      /\ gone \in Int /\ \A n \in 1 .. len : Bytes[c.keys[n]] \in Int
  BY BytesOfKeys DEF CacheSet
<1>2. PICK f : AreTotals(f, c.keys)
  BY <1>1, TotalsExist
<1> DEFINE g == [n \in 0 .. len - 1 |-> IF n < i THEN f[n] ELSE f[n + 1] - gone]
<1>3. f \in [0 .. len -> Int] /\ f[0] = 0
      /\ \A n \in 1 .. len : f[n] = f[n - 1] + Bytes[c.keys[n]]
  BY <1>2 DEF AreTotals
<1>4. i \in 1 .. len
  OBVIOUS
<1>5. f[i] = f[i - 1] + gone
  BY <1>3, <1>4
<1>6. \A n \in 1 .. len - 1 : d.keys[n] = IF n < i THEN c.keys[n] ELSE c.keys[n + 1]
  OBVIOUS
<1> HIDE DEF len, gone
<1>7. g \in [0 .. len - 1 -> Int] /\ g[0] = 0
  BY <1>1, <1>3, <1>4
<1>8. ASSUME NEW n \in 1 .. len - 1 PROVE g[n] = g[n - 1] + Bytes[d.keys[n]]
  <2>1. /\ n \in 0 .. len /\ n - 1 \in 0 .. len - 1 /\ n + 1 \in 1 .. len /\ n \in 1 .. len
        /\ n \in 0 .. len - 1 /\ n + 1 - 1 = n /\ n - 1 + 1 = n /\ n - 1 \in 0 .. len
    BY <1>1
  <2>2. f[n] \in Int /\ f[n - 1] \in Int /\ f[n + 1] \in Int
    BY <1>1, <1>3, <2>1
  <2>3. f[n] = f[n - 1] + Bytes[c.keys[n]] /\ f[n + 1] = f[n] + Bytes[c.keys[n + 1]]
    BY <1>3, <2>1
  <2>4. CASE n < i
    <3>1. n - 1 < i
      BY <1>4, <2>4
    <3>2. g[n] = f[n] /\ g[n - 1] = f[n - 1] /\ d.keys[n] = c.keys[n]
      BY <1>6, <2>1, <2>4, <3>1
    <3> QED
      BY <2>3, <3>2
  <2>5. CASE n = i
    <3>1. n - 1 < i /\ ~(n < i)
      BY <1>4, <2>5
    <3>2. g[n] = f[n + 1] - gone /\ g[n - 1] = f[n - 1] /\ d.keys[n] = c.keys[n + 1]
      BY <1>6, <2>1, <3>1
    <3>3. f[n] = f[n - 1] + gone
      BY <1>5, <2>5
    <3>4. Bytes[c.keys[n + 1]] \in Int
      BY <1>1, <2>1
    <3> QED
      BY <1>1, <2>2, <2>3, <3>2, <3>3, <3>4
  <2>6. CASE n > i
    <3>1. ~(n - 1 < i) /\ ~(n < i)
      BY <1>4, <2>6
    <3>2. g[n] = f[n + 1] - gone /\ g[n - 1] = f[n - 1 + 1] - gone /\ d.keys[n] = c.keys[n + 1]
      BY <1>6, <2>1, <3>1
    <3>3. Bytes[c.keys[n + 1]] \in Int
      BY <1>1, <2>1
    <3> QED
      BY <1>1, <2>1, <2>2, <2>3, <3>2, <3>3
  <2> QED
    BY <1>4, <2>4, <2>5, <2>6
<1>9. g[len - 1] = f[len] - gone
  <2>1. len - 1 \in 0 .. len - 1 /\ len - 1 + 1 = len
    BY <1>1, <1>4
  <2>2. CASE i = len
    <3>1. len - 1 < i
      BY <1>1, <2>2
    <3>2. g[len - 1] = f[len - 1] /\ f[len] = f[len - 1] + gone
      BY <1>5, <2>1, <2>2, <3>1
    <3>3. f[len - 1] \in Int
      BY <1>1, <1>3, <2>1
    <3> HIDE DEF g
    <3> QED
      BY <1>1, <3>2, <3>3
  <2>3. CASE i # len
    <3>1. ~(len - 1 < i)
      BY <1>1, <1>4, <2>3
    <3> QED
      BY <2>1, <3>1
  <2> QED
    BY <2>2, <2>3
<1> HIDE DEF g
<1>10. AreTotals(g, d.keys)
  BY <1>7, <1>8 DEF AreTotals, len
<1>11. TotalBytes(c) = f[len] /\ TotalBytes(d) = g[len - 1]
  BY <1>1, <1>2, <1>10, TotalIs DEF len
<1> QED
  BY <1>9, <1>11 DEF gone

LEMMA WithoutIs ==
  ASSUME NEW c \in CacheSet, NEW key \in KeysIn(c)
  PROVE  \E i \in 1 .. Len(c.keys) :
           /\ c.keys[i] = key /\ Len(Without(c, key)) = Len(c.keys) - 1
           /\ \A n \in 1 .. Len(c.keys) - 1 :
                Without(c, key)[n] = IF n < i THEN c.keys[n] ELSE c.keys[n + 1]
<1> DEFINE i     == CHOOSE n \in DOMAIN c.keys : c.keys[n] = key
           len   == Len(c.keys)
           front == SubSeq(c.keys, 1, i - 1)
           back  == SubSeq(c.keys, i + 1, len)
<1>1. c.keys \in Seq(Keys) /\ len \in Nat /\ DOMAIN c.keys = 1 .. len
      /\ \A n \in 1 .. len : c.keys[n] \in Keys
  BY LenProperties, ElementOfSeq DEF CacheSet
<1>2. i \in 1 .. len /\ c.keys[i] = key
  BY <1>1 DEF KeysIn
<1>3. Without(c, key) = front \o back
  BY DEF Without, Seqs!RemoveAt
<1> HIDE DEF i, len
<1>4. /\ front \in Seq(Keys) /\ Len(front) = i - 1
      /\ \A n \in 1 .. i - 1 : front[n] = c.keys[n]
  <2>1. \A n \in 1 .. i - 1 : c.keys[n] \in Keys
    BY <1>1, <1>2
  <2> QED
    BY <1>1, <1>2, <2>1, SubSeqProperties
<1>5. /\ back \in Seq(Keys) /\ Len(back) = len - i
      /\ \A n \in 1 .. len - i : back[n] = c.keys[i + n]
  <2>1. \A n \in i + 1 .. len : c.keys[n] \in Keys
    BY <1>1, <1>2
  <2> QED
    BY <1>1, <1>2, <2>1, SubSeqProperties
<1> HIDE DEF front, back
<1>6. /\ Len(front \o back) = len - 1
      /\ \A n \in 1 .. len - 1 :
           (front \o back)[n] = IF n <= i - 1 THEN front[n] ELSE back[n - (i - 1)]
  <2> DEFINE all == front \o back
  <2>1. Len(all) = Len(front) + Len(back)
        /\ \A n \in 1 .. Len(front) + Len(back) :
             all[n] = IF n <= Len(front) THEN front[n] ELSE back[n - Len(front)]
    BY <1>4, <1>5, ConcatProperties
  <2> HIDE DEF all
  <2>2. i - 1 + (len - i) = len - 1
    BY <1>1, <1>2
  <2>3. Len(all) = len - 1
        /\ \A n \in 1 .. len - 1 : all[n] = IF n <= i - 1 THEN front[n] ELSE back[n - (i - 1)]
    BY <1>4, <1>5, <2>1, <2>2
  <2> QED
    BY <2>3 DEF all
<1>7. ASSUME NEW n \in 1 .. len - 1
      PROVE  (front \o back)[n] = IF n < i THEN c.keys[n] ELSE c.keys[n + 1]
  <2>1. CASE n < i
    BY <1>1, <1>2, <1>4, <1>6, <2>1
  <2>2. CASE ~(n < i)
    <3>1. n - (i - 1) \in 1 .. len - i /\ i + (n - (i - 1)) = n + 1 /\ ~(n <= i - 1)
      BY <1>1, <1>2, <2>2
    <3> QED
      BY <1>5, <1>6, <2>2, <3>1
  <2> QED
    BY <2>1, <2>2
<1> QED
  BY <1>2, <1>3, <1>6, <1>7 DEF len

\* A list with its keys moved, but none lost or there twice.
LEMMA MovedIs ==
  ASSUME NEW c \in CacheSet, NEW key \in Keys, NEW new, new = MoveToFront(c, key).keys
  PROVE  /\ new \in Seq(Keys) /\ Len(new) = Len(Without(c, key)) + 1
         /\ Len(Without(c, key)) \in Nat /\ Without(c, key) \in Seq(Keys)
         /\ \A n \in 1 .. Len(new) : new[n] = IF n <= 1 THEN key ELSE Without(c, key)[n - 1]
<1> DEFINE rest == Without(c, key)
<1>1. rest \in Seq(Keys)
  BY WithoutIsPart
<1>2. <<key>> \in Seq(Keys) /\ Len(<<key>>) = 1 /\ <<key>>[1] = key
  OBVIOUS
<1>3. new = <<key>> \o rest
  BY DEF MoveToFront, CacheSet
<1> HIDE DEF rest
<1>4. new \in Seq(Keys) /\ Len(new) = 1 + Len(rest) /\ Len(rest) \in Nat
      /\ \A i \in 1 .. Len(new) : new[i] = IF i <= 1 THEN key ELSE rest[i - 1]
  BY <1>1, <1>2, <1>3, ConcatProperties, LenProperties
<1> QED
  BY <1>1, <1>4 DEF rest

LEMMA GetExact ==
  ASSUME NEW c \in CacheSet, Exact(c), NEW key \in Keys
  PROVE  Exact(get(c, key))
<1>1. CASE key \notin KeysIn(c)
  BY <1>1 DEF get
<1>2. CASE key \in KeysIn(c)
  <2> DEFINE d    == get(c, key)
             rest == Without(c, key)
             mid  == [c EXCEPT !.keys = rest]
             len  == Len(c.keys)
  <2>1. d \in CacheSet /\ d = MoveToFront(c, key) /\ d.nbytes = c.nbytes
    BY <1>2, CacheMethods, BytesOfMethods DEF get
  <2>2. PICK i \in 1 .. len :
          /\ c.keys[i] = key /\ Len(rest) = len - 1
          /\ \A n \in 1 .. len - 1 : rest[n] = IF n < i THEN c.keys[n] ELSE c.keys[n + 1]
    BY <1>2, WithoutIs
  <2>3. /\ Len(d.keys) = Len(rest) + 1 /\ rest \in Seq(Keys)
        /\ \A n \in 1 .. Len(d.keys) : d.keys[n] = IF n <= 1 THEN key ELSE rest[n - 1]
    BY <2>1, MovedIs
  <2> HIDE DEF rest
  <2>4. mid \in CacheSet /\ mid.keys = rest
    BY <2>3 DEF CacheSet
  <2>5. c.keys \in Seq(Keys) /\ len \in Nat
    BY LenProperties DEF CacheSet
  <2> HIDE DEF d, mid
  <2>6. TotalBytes(mid) = TotalBytes(c) - Bytes[key]
    BY <2>2, <2>4, RemoveTotal
  <2>7. TotalBytes(d) = TotalBytes(mid) + Bytes[key]
    BY <2>1, <2>3, <2>4, PrependTotal
  <2>8. TotalBytes(c) \in Int /\ Bytes[key] \in Int
    <3>1. PICK f : AreTotals(f, c.keys)
      BY <2>5, TotalsExist
    <3>2. TotalBytes(c) \in Int
      BY <2>5, <3>1, TotalIs
    <3> QED
      BY <3>2, GroupAssumption
  <2>9. d.nbytes = TotalBytes(d)
    BY <2>1, <2>6, <2>7, <2>8 DEF Exact
  <2>10. \A m, n \in 1 .. len : c.keys[m] = c.keys[n] => m = n
    BY DEF Exact
  <2> HIDE DEF len
  <2>11. \A m, n \in 1 .. len - 1 : rest[n] # key /\ (rest[m] = rest[n] => m = n)
    BY <2>2, <2>5, <2>10
  <2>12. \A m, n \in 1 .. len : d.keys[m] = d.keys[n] => m = n
    <3>1. Len(d.keys) = len
      BY <2>2, <2>3, <2>5
    <3>2. ASSUME NEW m \in 1 .. len, NEW n \in 1 .. len, d.keys[m] = d.keys[n] PROVE m = n
      <4>1. d.keys[m] = IF m <= 1 THEN key ELSE rest[m - 1]
        BY <2>3, <3>1
      <4>2. d.keys[n] = IF n <= 1 THEN key ELSE rest[n - 1]
        BY <2>3, <3>1
      <4>3. (m > 1 => m - 1 \in 1 .. len - 1) /\ (n > 1 => n - 1 \in 1 .. len - 1)
        BY <2>5
      <4>4. m \in Int /\ n \in Int /\ m >= 1 /\ n >= 1
        BY <2>5
      <4>5. CASE m > 1 /\ n > 1
        <5>1. rest[m - 1] = rest[n - 1] /\ m - 1 \in 1 .. len - 1 /\ n - 1 \in 1 .. len - 1
          <6>1. ~(m <= 1) /\ ~(n <= 1)
            BY <4>4, <4>5
          <6>2. d.keys[m] = rest[m - 1] /\ d.keys[n] = rest[n - 1]
            BY <4>1, <4>2, <6>1
          <6> QED
            BY <3>2, <4>3, <4>5, <6>2
        <5>2. m - 1 = n - 1
          BY <2>11, <5>1
        <5> QED
          BY <4>4, <5>2
      <4>6. CASE m > 1 /\ ~(n > 1)
        <5>1. rest[m - 1] = key /\ m - 1 \in 1 .. len - 1
          <6>1. ~(m <= 1) /\ n <= 1
            BY <4>4, <4>6
          <6>2. d.keys[m] = rest[m - 1] /\ d.keys[n] = key
            BY <4>1, <4>2, <6>1
          <6> QED
            BY <3>2, <4>3, <4>6, <6>2
        <5> QED
          BY <2>11, <5>1
      <4>7. CASE ~(m > 1) /\ n > 1
        <5>1. rest[n - 1] = key /\ n - 1 \in 1 .. len - 1
          <6>1. ~(n <= 1) /\ m <= 1
            BY <4>4, <4>7
          <6>2. d.keys[n] = rest[n - 1] /\ d.keys[m] = key
            BY <4>1, <4>2, <6>1
          <6> QED
            BY <3>2, <4>3, <4>7, <6>2
        <5> QED
          BY <2>11, <5>1
      <4> QED
        BY <4>4, <4>5, <4>6, <4>7
    <3> QED
      BY <3>2
  <2>13. Len(d.keys) = len
    BY <2>2, <2>3, <2>5
  <2>14. Exact(d)
    BY <2>9, <2>12, <2>13 DEF Exact
  <2> QED
    BY <2>14 DEF d
<1> QED
  BY <1>1, <1>2

LEMMA AddExact ==
  ASSUME NEW c \in CacheSet, Exact(c), NEW key \in Keys, key \notin KeysIn(c)
  PROVE  Exact(add(c, key))
<1> DEFINE d   == add(c, key)
           len == Len(c.keys)
<1>1. d \in CacheSet /\ d.keys = MoveToFront(c, key).keys /\ d.nbytes = c.nbytes + Bytes[key]
  <2>1. MoveToFront(c, key) \in CacheSet /\ MoveToFront(c, key).nbytes = c.nbytes
    BY MovedToFront DEF MoveToFront, CacheSet
  <2> QED
    BY <2>1, CacheMethods DEF add, CacheSet
<1>2. Without(c, key) = c.keys
  BY DEF Without
<1>3. /\ Len(d.keys) = len + 1 /\ len \in Nat
      /\ \A n \in 1 .. Len(d.keys) : d.keys[n] = IF n <= 1 THEN key ELSE c.keys[n - 1]
  BY <1>1, <1>2, MovedIs
<1>4. TotalBytes(d) = TotalBytes(c) + Bytes[key]
  BY <1>1, <1>3, PrependTotal
<1>5. \A m, n \in 1 .. len : c.keys[n] # key /\ (c.keys[m] = c.keys[n] => m = n)
  <2>1. DOMAIN c.keys = 1 .. len
    BY LenProperties DEF CacheSet
  <2> QED
    BY <2>1 DEF Exact, KeysIn
<1> HIDE DEF d, len
<1>6. \A m, n \in 1 .. len + 1 : d.keys[m] = d.keys[n] => m = n
  BY <1>3, <1>5
<1>7. Exact(d)
  BY <1>1, <1>3, <1>4, <1>6 DEF Exact
<1> QED
  BY <1>7 DEF d

LEMMA OldestExact ==
  ASSUME NEW c \in CacheSet, Exact(c)
  PROVE  Exact(removeOldest(c))
<1>1. CASE c.keys = <<>>
  BY <1>1 DEF removeOldest
<1>2. CASE c.keys # <<>>
  <2> DEFINE d   == removeOldest(c)
             len == Len(c.keys)
  <2>1. c.keys \in Seq(Keys) /\ len \in Nat \ {0} /\ d \in CacheSet
        /\ \A n \in 1 .. len : c.keys[n] \in Keys
    <3>1. \E key : key \in Keys
      BY <1>2, EmptySeq, LenProperties, ElementOfSeq DEF CacheSet
    <3> QED
      BY <1>2, <3>1, EmptySeq, LenProperties, ElementOfSeq, CacheMethods DEF CacheSet
  <2>2. d.keys = SubSeq(c.keys, 1, len - 1) /\ d.nbytes = c.nbytes - Bytes[c.keys[len]]
    BY <1>2 DEF removeOldest, Seqs!Front, Seqs!Last
  <2> HIDE DEF d
  <2>3. Len(d.keys) = len - 1 /\ \A n \in 1 .. len - 1 : d.keys[n] = c.keys[n]
    <3> HIDE DEF len
    <3>1. \A n \in 1 .. len - 1 : c.keys[n] \in Keys
      BY <2>1
    <3>2. len - 1 \in Int /\ (1 <= len - 1 => len - 1 - 1 + 1 = len - 1)
            /\ (~(1 <= len - 1) => len - 1 = 0)
          /\ len - 1 - 1 + 1 = len - 1 /\ \A n \in 1 .. len - 1 : 1 + n - 1 = n
      BY <2>1
    <3> QED
      BY <2>2, <3>1, <3>2, SubSeqProperties
  <2>4. len \in 1 .. len /\ \A n \in 1 .. len - 1 : n < len
    BY <2>1
  <2>5. TotalBytes(d) = TotalBytes(c) - Bytes[c.keys[len]]
    BY <2>1, <2>3, <2>4, RemoveTotal
  <2>6. \A m, n \in 1 .. len - 1 : d.keys[m] = d.keys[n] => m = n
    BY <2>1, <2>3 DEF Exact
  <2>7. Exact(d)
    BY <2>2, <2>3, <2>5, <2>6 DEF Exact
  <2> QED
    BY <2>7 DEF d
<1> QED
  BY <1>1, <1>2

-----------------------------------------------------------------------------

AllExact == \A p \in Peers, which \in Whiches : Exact(cache[p][which])

\* One of the caches becomes another that is exact.
LEMMA OneExact ==
  ASSUME Inv, AllExact, NEW p \in Peers, NEW which \in Whiches, NEW c, Exact(c),
         cache' = [cache EXCEPT ![p][which] = c]
  PROVE  AllExact'
<1>1. cache \in [Peers -> [Whiches -> CacheSet]]
  BY DEF Inv, TypeOK
<1>2. \A q \in Peers, w \in Whiches : cache'[q][w] = IF q = p /\ w = which THEN c ELSE cache[q][w]
  BY <1>1
<1>3. \A q \in Peers, w \in Whiches : Exact(cache'[q][w])
  BY <1>2 DEF AllExact
<1> QED
  BY <1>3 DEF AllExact

\* The key that a load adds is in neither cache.
LEMMA AddedExact ==
  ASSUME Inv, AllExact, NEW call \in Calls, calls[call].pc \in {"remote", "local"},
         NEW which \in Whiches, Added(call, which)
  PROVE  AllExact'
<1>1. CASE UNCHANGED cache
  BY <1>1 DEF AllExact
<1>2. CASE cache' = [cache EXCEPT ![Peer(call)][which] = add(@, Key(call))]
  <2> DEFINE c == cache[Peer(call)][which]
  <2>1. /\ Peer(call) \in Peers /\ Key(call) \in Keys
        /\ ~In(call, "main") /\ ~In(call, "hot")
    <3>1. ~At(call, "idle")
      BY DEF At
    <3>2. Peer(call) \in Peers /\ Key(call) \in Keys
      BY <3>1, BusyCall DEF Inv
    <3> QED
      BY <3>2 DEF Inv, Caches, Absent
  <2>2. c \in CacheSet /\ Exact(c) /\ Key(call) \notin KeysIn(c)
    BY <2>1 DEF Inv, TypeOK, AllExact, In, Whiches
  <2>3. cache' = [cache EXCEPT ![Peer(call)][which] = add(c, Key(call))]
    BY <1>2
  <2> HIDE DEF c
  <2>4. Exact(add(c, Key(call)))
    BY <2>1, <2>2, AddExact
  <2> QED
    BY <2>1, <2>3, <2>4, OneExact
<1> QED
  BY <1>1, <1>2 DEF Added

LEMMA StepExact ==
  ASSUME Inv, AllExact, NEW call \in Calls, Step(call)
  PROVE  AllExact'
<1>1. CASE UNCHANGED cache
  BY <1>1 DEF AllExact
<1>2. ASSUME NEW which \in Whiches, lookupHit(call, which) PROVE AllExact'
  <2> DEFINE c == cache[Peer(call)][which]
  <2>1. ~At(call, "idle")
    BY <1>2 DEF lookupHit, At, Whiches
  <2>2. Peer(call) \in Peers /\ Key(call) \in Keys
    BY <2>1, BusyCall DEF Inv
  <2>3. c \in CacheSet /\ Exact(c)
    BY <2>2 DEF Inv, TypeOK, AllExact
  <2>4. cache' = [cache EXCEPT ![Peer(call)][which] = get(c, Key(call))]
    BY <1>2 DEF lookupHit
  <2> HIDE DEF c
  <2> QED
    BY <2>2, <2>3, <2>4, GetExact, OneExact
<1>3. ASSUME NEW which \in Whiches, Evict(call, which) PROVE AllExact'
  <2> DEFINE c == cache[Peer(call)][which]
  <2>1. ~At(call, "idle")
    <3>1. calls[call].pc = EvictPc[which] /\ which \in {"main", "hot"}
      BY <1>3 DEF Evict, At, Whiches
    <3>2. EvictPc["main"] = "evict main" /\ EvictPc["hot"] = "evict hot"
      BY DEF EvictPc
    <3> QED
      BY <3>1, <3>2 DEF At
  <2>2. Peer(call) \in Peers
    BY <2>1, BusyCall DEF Inv
  <2>3. c \in CacheSet /\ Exact(c)
    BY <2>2 DEF Inv, TypeOK, AllExact
  <2>4. cache' = [cache EXCEPT ![Peer(call)][which] = removeOldest(c)]
    BY <1>3 DEF Evict
  <2> HIDE DEF c
  <2> QED
    BY <2>2, <2>3, <2>4, OldestExact, OneExact
<1>4. CASE LocalOk(call)
  BY <1>4, AddedExact DEF LocalOk, At, Whiches
<1>5. CASE AnswerOk(call)
  <2>1. CASE Added(Client(call), "hot")
    <3>1. Client(call) \in Calls /\ calls[Client(call)].pc = "remote"
      <4>1. Asks(call) /\ call[2] > 0
        BY <1>5 DEF AnswerOk, Asks, At, Inv, Requests
      <4> QED
        BY <4>1, ClientAndServer DEF Inv, Requests, At
    <3> QED
      BY <2>1, <3>1, AddedExact DEF Whiches
  <2> QED
    BY <1>1, <1>5, <2>1 DEF AnswerOk
<1>6. CASE Lookup(call)
  BY <1>1, <1>2, <1>6 DEF Lookup, lookupMiss, Whiches
<1>7. CASE Do(call) \/ Pick(call)
  BY <1>1, <1>7 DEF Do, DoLead, DoWait, DoLate, Finish, Forget, Pick, PickSelf, PickRemote
<1>8. CASE getLocally(call)
  BY <1>1, <1>4, <1>8 DEF getLocally, LocalError
<1>9. CASE populateCache(call)
  BY <1>1, <1>3, <1>9 DEF populateCache, MainBytes, BothFit, ChooseVictim, Whiches
<1>10. CASE Answer(call)
  BY <1>1, <1>5, <1>10 DEF Answer, Unheard, AnswerError
<1> QED
  BY <1>6, <1>7, <1>8, <1>9, <1>10 DEF Step

\* A list has as many keys as elements.
LEMMA ExactCount ==
  ASSUME NEW c \in CacheSet, Exact(c)
  PROVE  Cardinality(KeysIn(c)) = Len(c.keys)
<1> DEFINE n == Len(c.keys)
<1>1. n \in Nat /\ DOMAIN c.keys = 1 .. n
  BY LenProperties DEF CacheSet
<1>2. c.keys \in Bijection(1 .. n, KeysIn(c))
  <2>1. c.keys \in [1 .. n -> KeysIn(c)]
    <3>1. c.keys \in [1 .. n -> Keys]
      BY LenProperties DEF CacheSet
    <3> QED
      BY <1>1, <3>1 DEF KeysIn
  <2>2. \A key \in KeysIn(c) : \E i \in 1 .. n : c.keys[i] = key
    BY <1>1 DEF KeysIn
  <2>3. \A i, j \in 1 .. n : c.keys[i] = c.keys[j] => i = j
    BY DEF Exact
  <2>4. c.keys \in Injection(1 .. n, KeysIn(c))
    BY <2>1, <2>3, Fun_IsInj
  <2>5. c.keys \in Surjection(1 .. n, KeysIn(c))
    BY <2>1, <2>2, Fun_IsSurj
  <2> QED
    BY <2>4, <2>5, Fun_IsBij
<1>3. ExistsBijection(1 .. n, KeysIn(c))
  BY <1>2 DEF ExistsBijection
<1> QED
  BY <1>1, <1>3, FS_CountingElements

\* A cache counts the bytes of its entries (groupcache.go:450), and has each of
\* them once: whatever lookups, loads and evictions of several calls do in
\* between, no load adds a key that is there.
THEOREM BytesCounted == Spec => []BytesAreExact
<1>1. Init => AllExact
  <2> SUFFICES ASSUME Init, NEW p \in Peers, NEW which \in Whiches
               PROVE  Exact(cache[p][which])
    BY DEF AllExact
  <2>1. cache[p][which] = EmptyCache
    BY DEF Init, Whiches
  <2>2. EmptyCache.keys = <<>> /\ EmptyCache.nbytes = 0 /\ Len(EmptyCache.keys) = 0
        /\ EmptyCache.keys \in Seq(Keys)
    BY DEF EmptyCache
  <2>3. PICK f : AreTotals(f, EmptyCache.keys)
    BY <2>2, TotalsExist
  <2>4. TotalBytes(EmptyCache) = 0
    BY <2>2, <2>3, TotalIs DEF AreTotals
  <2> QED
    BY <2>1, <2>2, <2>4 DEF Exact
<1>2. Inv /\ AllExact /\ [Next]_vars => AllExact'
  <2> SUFFICES ASSUME Inv, AllExact, [Next]_vars
               PROVE  AllExact'
    OBVIOUS
  <2>1. CASE UNCHANGED cache
    BY <2>1 DEF AllExact
  <2>2. CASE \E call \in Calls : Step(call)
    BY <2>2, StepExact
  <2> QED
    BY <2>1, <2>2 DEF Next, vars, SetPeers, Get, PickUnreachable, RequestFails
<1>3. Inv /\ AllExact => BytesAreExact
  <2> SUFFICES ASSUME Inv, AllExact, NEW p \in Peers, NEW which \in Whiches
               PROVE  LET c == cache[p][which]
                      IN  c.nbytes = TotalBytes(c) /\ Cardinality(KeysIn(c)) = Len(c.keys)
    BY DEF BytesAreExact, Whiches
  <2>1. cache[p][which] \in CacheSet /\ Exact(cache[p][which])
    BY DEF Inv, TypeOK, AllExact
  <2> QED
    BY <2>1, ExactCount DEF Exact
<1> QED
  BY <1>1, <1>2, <1>3, Invariance, PTL DEF Spec
=============================================================================
