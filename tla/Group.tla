------------------------------- MODULE Group -------------------------------
(***************************************************************************)
(* The processes that share a groupcache group (groupcache.go), with the   *)
(* single flight of their loads (singleflight.go), the ring by which they  *)
(* find each other (http.go, consistenthash.go) and their caches.          *)
(*                                                                         *)
(* A call <<c, 0>> is a Get by a caller of a process, and <<c, h + 1>> the *)
(* Get by which another process serves the request of <<c, h>>.  What is   *)
(* done under one lock is one step; everything else can happen in between. *)
(***************************************************************************)
EXTENDS ByteCache, ConsistentHash, FiniteSets

CONSTANTS
  Peers,        \* the processes
  PeerLists,    \* what Set may be called with
  CacheBytes,   \* the limit of a process, cacheBytes
  Callers,
  Home,         \* the process of a caller
  MaxHops,      \* bounds the requests that wait for one another
  MaxGets,      \* bounds the Gets of callers
  MaxErrors     \* bounds the failures of getters and requests

ASSUME GroupAssumption ==
  /\ CacheBytes \in Nat /\ MaxHops \in Nat /\ MaxGets \in Nat /\ MaxErrors \in Nat
  /\ Bytes \in [Keys -> Nat]
  /\ PeerLists \subseteq Seq(Peers) /\ Home \in [Callers -> Peers]
  /\ KeyHash \in [Keys -> Nat] /\ ReplicaHash \in [Peers -> SUBSET Nat]

VARIABLES
  ring,      \* HTTPPool.peers of each process
  cache,     \* its mainCache and its hotCache
  flight,    \* its loadGroup: for each key none, running, or the outcome
  stats,     \* its Stats
  calls,     \* where each call is, and its locals
  gets       \* the Gets so far

vars == <<ring, cache, flight, stats, calls, gets>>

Calls == Callers \X (0 .. MaxHops)

Idle == [pc |-> "idle"]

Counters == {"Gets", "CacheHits", "Loads", "LoadsDeduped", "PeerLoads",
             "PeerErrors", "LocalLoads", "LocalLoadErrs", "ServerRequests"}

Init ==
  /\ ring = [p \in Peers |-> EmptyRing]
  /\ cache = [p \in Peers |-> [which \in {"main", "hot"} |-> EmptyCache]]
  /\ flight = [p \in Peers |-> [key \in Keys |-> "none"]]
  /\ stats = [p \in Peers |-> [c \in Counters |-> 0]]
  /\ calls = [call \in Calls |-> Idle]
  /\ gets = 0

-----------------------------------------------------------------------------
(* What the steps are made of.                                             *)

At(call, pc) == calls[call].pc = pc
Peer(call)   == calls[call].peer
Key(call)    == calls[call].key

EvictPc == [main |-> "evict main", hot |-> "evict hot"]

\* A call goes on to another point.
Goto(call, pc) == calls' = [calls EXCEPT ![call].pc = pc]

\* A call with what comes of it: TRUE is the value, FALSE an error.  A Get with
\* nobody to answer but its caller returns.
WithOutcome(call, pc, ok) ==
  IF pc = "answer" /\ ~calls[call].asked THEN Idle
  ELSE [pc |-> pc, peer |-> Peer(call), key |-> Key(call),
        leads |-> calls[call].leads, asked |-> calls[call].asked, ok |-> ok]

Outcome(call, pc, ok) == calls' = [calls EXCEPT ![call] = WithOutcome(call, pc, ok)]

Counted(p, counters) ==
  stats' = [stats EXCEPT ![p] = [c \in Counters |-> IF c \in counters THEN @[c] + 1 ELSE @[c]]]

\* A call that has just entered Get.
NewCall(p, key, asked) ==
  [pc |-> "main", peer |-> p, key |-> key, leads |-> FALSE, asked |-> asked]

Found(call, which) ==
  CacheBytes > 0 /\ Key(call) \in KeysIn(cache[Peer(call)][which])

Errors ==
  Seqs!FoldLeft(LAMBDA n, p : n + stats[p].PeerErrors + stats[p].LocalLoadErrs, 0,
                Seqs!SetToSeq(Peers))
MayFail == Errors < MaxErrors

-----------------------------------------------------------------------------

\* Set, which every process calls for itself.
SetPeers(p, peers) ==
  /\ ring' = [ring EXCEPT ![p] = AddPeers(EmptyRing, peers)]
  /\ UNCHANGED <<cache, flight, stats, calls, gets>>

Get(c, key) ==
  /\ gets < MaxGets /\ At(<<c, 0>>, "idle")
  /\ gets' = gets + 1
  /\ calls' = [calls EXCEPT ![<<c, 0>>] = NewCall(Home[c], key, FALSE)]
  /\ Counted(Home[c], {"Gets"})
  /\ UNCHANGED <<ring, cache, flight>>

\* lookupCache finds the key, in Get or in load.
lookupHit(call, which) ==
  /\ At(call, which) /\ Found(call, which)
  /\ cache' = [cache EXCEPT ![Peer(call)][which] = get(@, Key(call))]
  /\ Outcome(call, IF calls[call].leads THEN "finish" ELSE "answer", TRUE)
  /\ Counted(Peer(call), {"CacheHits"})
  /\ UNCHANGED <<ring, flight, gets>>

\* Faulty: forgets the hot cache.
lookupMissMain(call, which) ==
  /\ At(call, which) /\ ~Found(call, which)
  /\ Goto(call, IF calls[call].leads THEN "pick" ELSE "load")
  /\ UNCHANGED <<ring, cache, flight, stats, gets>>

\* lookupCache tries the main cache, then the hot one.
lookupMiss(call, which) ==
  /\ At(call, which) /\ ~Found(call, which)
  /\ Goto(call, IF which = "main" THEN "hot"
                ELSE IF calls[call].leads THEN "pick" ELSE "load")
  /\ UNCHANGED <<ring, cache, flight, stats, gets>>

\* Faulty: load does not look the key up again.
DoLeadUnchecked(call) ==
  /\ At(call, "load") /\ flight[Peer(call)][Key(call)] = "none"
  /\ flight' = [flight EXCEPT ![Peer(call)][Key(call)] = "running"]
  /\ calls' = [calls EXCEPT ![call].pc = "pick", ![call].leads = TRUE]
  /\ Counted(Peer(call), {"Loads"})
  /\ UNCHANGED <<ring, cache, gets>>

\* Faulty: tries again when the load failed.
DoLeadAgain(call) ==
  /\ At(call, "load") /\ flight[Peer(call)][Key(call)] \in {"none", "failed"}
  /\ flight' = [flight EXCEPT ![Peer(call)][Key(call)] = "running"]
  /\ calls' = [calls EXCEPT ![call].pc = "main", ![call].leads = TRUE]
  /\ Counted(Peer(call), {"Loads"})
  /\ UNCHANGED <<ring, cache, gets>>

\* load calls Do: it leads, waits, or comes as the answer is there.
DoLead(call) ==
  /\ At(call, "load") /\ flight[Peer(call)][Key(call)] = "none"
  /\ flight' = [flight EXCEPT ![Peer(call)][Key(call)] = "running"]
  /\ calls' = [calls EXCEPT ![call].pc = "main", ![call].leads = TRUE]
  /\ Counted(Peer(call), {"Loads"})
  /\ UNCHANGED <<ring, cache, gets>>

DoWait(call) ==
  /\ At(call, "load") /\ flight[Peer(call)][Key(call)] = "running"
  /\ Goto(call, "wait")
  /\ Counted(Peer(call), {"Loads"})
  /\ UNCHANGED <<ring, cache, flight, gets>>

DoLate(call) ==
  /\ At(call, "load") /\ flight[Peer(call)][Key(call)] \in {"ok", "failed"}
  /\ Outcome(call, "answer", flight[Peer(call)][Key(call)] = "ok")
  /\ Counted(Peer(call), {"Loads"})
  /\ UNCHANGED <<ring, cache, flight, gets>>

IsRemote(call) ==
  ~IsEmpty(ring[Peer(call)]) /\ Owner(ring[Peer(call)], Key(call)) # Peer(call)

\* PickPeer: this process loads the key itself.
PickSelf(call) ==
  /\ At(call, "pick") /\ ~IsRemote(call)
  /\ Goto(call, "local")
  /\ Counted(Peer(call), {"LoadsDeduped"})
  /\ UNCHANGED <<ring, cache, flight, gets>>

Server(call) == <<call[1], call[2] + 1>>

\* getFromPeer sends a request, whose Get begins.
PickRemote(call) ==
  /\ At(call, "pick") /\ IsRemote(call)
  /\ call[2] < MaxHops /\ At(Server(call), "idle")
  /\ LET owner == Owner(ring[Peer(call)], Key(call))
     IN  /\ calls' = [calls EXCEPT ![call].pc = "remote",
                                   ![Server(call)] = NewCall(owner, Key(call), TRUE)]
         /\ stats' = [stats EXCEPT ![Peer(call)].LoadsDeduped = @ + 1,
                                   ![owner].ServerRequests = @ + 1,
                                   ![owner].Gets = @ + 1]
  /\ UNCHANGED <<ring, cache, flight, gets>>

\* The request does not arrive.
PickUnreachable(call) ==
  /\ MayFail /\ At(call, "pick") /\ IsRemote(call)
  /\ Goto(call, "local")
  /\ Counted(Peer(call), {"LoadsDeduped", "PeerErrors"})
  /\ UNCHANGED <<ring, cache, flight, gets>>

\* The request breaks off, and its Get goes on with nobody to answer.
RequestFails(call) ==
  /\ MayFail /\ At(call, "remote")
  /\ calls' = [calls EXCEPT ![call].pc = "local", ![Server(call)].asked = FALSE]
  /\ Counted(Peer(call), {"PeerErrors"})
  /\ UNCHANGED <<ring, cache, flight, gets>>

\* populateCache adds the key; it goes on to evict until both caches fit.
Added(call, which) ==
  IF CacheBytes > 0
  THEN cache' = [cache EXCEPT ![Peer(call)][which] = add(@, Key(call))]
  ELSE UNCHANGED cache
AfterAdd == IF CacheBytes > 0 THEN "main bytes" ELSE "finish"

\* getLocally calls the getter of the application.
LocalOk(call) ==
  /\ At(call, "local")
  /\ Added(call, "main")
  /\ Outcome(call, AfterAdd, TRUE)
  /\ Counted(Peer(call), {"LocalLoads"})
  /\ UNCHANGED <<ring, flight, gets>>

LocalError(call) ==
  /\ MayFail /\ At(call, "local")
  /\ Outcome(call, "finish", FALSE)
  /\ Counted(Peer(call), {"LocalLoadErrs"})
  /\ UNCHANGED <<ring, cache, flight, gets>>

MainBytes(call) ==
  /\ At(call, "main bytes")
  /\ calls' = [calls EXCEPT ![call] =
                 [pc |-> "hot bytes", peer |-> @.peer, key |-> @.key, leads |-> @.leads,
                  asked |-> @.asked, ok |-> @.ok, mainBytes |-> cache[@.peer]["main"].nbytes]]
  /\ UNCHANGED <<ring, cache, flight, stats, gets>>

Fits(call) == calls[call].mainBytes + cache[Peer(call)]["hot"].nbytes <= CacheBytes

BothFit(call) ==
  /\ At(call, "hot bytes") /\ Fits(call)
  /\ Outcome(call, "finish", TRUE)
  /\ UNCHANGED <<ring, cache, flight, stats, gets>>

Victim(call) ==
  IF cache[Peer(call)]["hot"].nbytes > calls[call].mainBytes \div 8 THEN "hot" ELSE "main"

ChooseVictim(call) ==
  /\ At(call, "hot bytes") /\ ~Fits(call)
  /\ Outcome(call, EvictPc[Victim(call)], TRUE)
  /\ UNCHANGED <<ring, cache, flight, stats, gets>>

\* Faulty: evicts one entry and no more.
EvictOnce(call, which) ==
  /\ At(call, EvictPc[which])
  /\ cache' = [cache EXCEPT ![Peer(call)][which] = removeOldest(@)]
  /\ Goto(call, "finish")
  /\ UNCHANGED <<ring, flight, stats, gets>>

Evict(call, which) ==
  /\ At(call, EvictPc[which])
  /\ cache' = [cache EXCEPT ![Peer(call)][which] = removeOldest(@)]
  /\ Goto(call, "main bytes")
  /\ UNCHANGED <<ring, flight, stats, gets>>

\* Do has the outcome, and all who wait get it.
Waiters(call) ==
  {w \in Calls : At(w, "wait") /\ Peer(w) = Peer(call) /\ Key(w) = Key(call)}

\* Faulty: tells those who wait of a value only.
FinishQuiet(call) ==
  LET ok == calls[call].ok
  IN  /\ At(call, "finish")
      /\ flight' = [flight EXCEPT ![Peer(call)][Key(call)] = IF ok THEN "ok" ELSE "failed"]
      /\ calls' = [w \in Calls |->
                     IF w \in Waiters(call) /\ ok THEN WithOutcome(w, "answer", ok)
                     ELSE IF w = call THEN WithOutcome(w, "forget", ok) ELSE calls[w]]
      /\ UNCHANGED <<ring, cache, stats, gets>>

Finish(call) ==
  LET ok == calls[call].ok
  IN  /\ At(call, "finish")
      /\ flight' = [flight EXCEPT ![Peer(call)][Key(call)] = IF ok THEN "ok" ELSE "failed"]
      /\ calls' = [w \in Calls |->
                     IF w \in Waiters(call) THEN WithOutcome(w, "answer", ok)
                     ELSE IF w = call THEN WithOutcome(w, "forget", ok) ELSE calls[w]]
      /\ UNCHANGED <<ring, cache, stats, gets>>

\* Do deletes the key from its map.
Forget(call) ==
  /\ At(call, "forget")
  /\ flight' = [flight EXCEPT ![Peer(call)][Key(call)] = "none"]
  /\ Outcome(call, "answer", calls[call].ok)
  /\ UNCHANGED <<ring, cache, stats, gets>>

\* A Get whose request broke off as it was about to answer.
Unheard(call) ==
  /\ At(call, "answer") /\ ~calls[call].asked
  /\ calls' = [calls EXCEPT ![call] = Idle]
  /\ UNCHANGED <<ring, cache, flight, stats, gets>>

Client(call) == <<call[1], call[2] - 1>>

\* It answers a request with a value, which the hot cache gets now and then.
AnswerOk(call) ==
  /\ At(call, "answer") /\ calls[call].asked /\ calls[call].ok
  /\ LET client == Client(call)
     IN  /\ \/ /\ Added(client, "hot")
               /\ calls' = [calls EXCEPT ![call] = Idle,
                                         ![client] = WithOutcome(client, AfterAdd, TRUE)]
            \/ /\ calls' = [calls EXCEPT ![call] = Idle,
                                         ![client] = WithOutcome(client, "finish", TRUE)]
               /\ UNCHANGED cache
         /\ Counted(Peer(client), {"PeerLoads"})
  /\ UNCHANGED <<ring, flight, gets>>

\* Faulty: counts the error as a load.
AnswerErrorLoaded(call) ==
  /\ At(call, "answer") /\ calls[call].asked /\ ~calls[call].ok
  /\ calls' = [calls EXCEPT ![call] = Idle, ![Client(call)].pc = "local"]
  /\ Counted(Peer(Client(call)), {"PeerLoads", "PeerErrors"})
  /\ UNCHANGED <<ring, cache, flight, gets>>

\* It answers a request with an error.
AnswerError(call) ==
  /\ At(call, "answer") /\ calls[call].asked /\ ~calls[call].ok
  /\ calls' = [calls EXCEPT ![call] = Idle, ![Client(call)].pc = "local"]
  /\ Counted(Peer(Client(call)), {"PeerErrors"})
  /\ UNCHANGED <<ring, cache, flight, gets>>

-----------------------------------------------------------------------------

Lookup(call) ==
  \E which \in {"main", "hot"} : lookupHit(call, which) \/ lookupMiss(call, which)

Do(call) == DoLead(call) \/ DoWait(call) \/ DoLate(call) \/ Finish(call) \/ Forget(call)

Pick(call) == PickSelf(call) \/ PickRemote(call)

getLocally(call) == LocalOk(call) \/ LocalError(call)

populateCache(call) ==
  \/ \E which \in {"main", "hot"} : Evict(call, which)
  \/ MainBytes(call) \/ BothFit(call) \/ ChooseVictim(call)

Answer(call) == Unheard(call) \/ AnswerOk(call) \/ AnswerError(call)

\* What a call does by itself.
Step(call) ==
  Lookup(call) \/ Do(call) \/ Pick(call) \/ getLocally(call) \/ populateCache(call)
    \/ Answer(call)

Next ==
  \/ \E p \in Peers, peers \in PeerLists : SetPeers(p, peers)
  \/ \E c \in Callers, key \in Keys : Get(c, key)
  \/ \E call \in Calls :
       Step(call) \/ PickUnreachable(call) \/ RequestFails(call)

Spec == Init /\ [][Next]_vars

\* Some goroutine runs on while one can, the getter returns, and a request that
\* has arrived is answered.  That is less than Go's scheduler grants.
Fairness == WF_vars(\E call \in Calls : Step(call))

FairSpec == Spec /\ Fairness

-----------------------------------------------------------------------------

\* A cache counts the bytes of its entries, which it has once each: no load
\* adds a key that is there, whatever calls do meanwhile (groupcache.go:256).
BytesAreExact ==
  \A p \in Peers, which \in {"main", "hot"} :
    LET c == cache[p][which]
    IN  /\ c.nbytes = TotalBytes(c)
        /\ Cardinality(KeysIn(c)) = Len(c.keys)

\* No process has a key in its main and in its hot cache (groupcache.go:167).
KeyInOneCache ==
  \A p \in Peers : KeysIn(cache[p]["main"]) \cap KeysIn(cache[p]["hot"]) = {}

\* The limit is for the sum of both caches (groupcache.go:158): they are over
\* it only while a call is evicting.
Evicting(call) == calls[call].pc \in {"main bytes", "hot bytes", "evict main", "evict hot"}

CachesFit ==
  \A p \in Peers :
    \/ cache[p]["main"].nbytes + cache[p]["hot"].nbytes <= CacheBytes
    \/ \E call \in Calls : Evicting(call) /\ Peer(call) = p

\* "Only one execution is in-flight for a given key at a time"
\* (singleflight.go:37): a key that is being loaded has one call that leads,
\* and nobody waits for a key that is not being loaded.
Leads(call, p, key) ==
  /\ calls[call].pc \notin {"idle", "forget", "answer"}
  /\ calls[call].leads /\ Peer(call) = p /\ Key(call) = key

FlightHasALeader ==
  \A p \in Peers, key \in Keys :
    LET leaders == {call \in Calls : Leads(call, p, key)}
    IN  /\ Cardinality(leaders) = IF flight[p][key] = "running" THEN 1 ELSE 0
        /\ leaders = {} =>
             \A call \in Calls : At(call, "wait") => ~(Peer(call) = p /\ Key(call) = key)

\* The statistics of a process at rest (groupcache.go:198): each load that was
\* not a duplicate ended in one way, each Get was a hit or a load, and a load
\* may have been a hit after all.
StatsAddUp ==
  \A p \in Peers :
    LET s == stats[p]
    IN  (\A call \in Calls : At(call, "idle") \/ Peer(call) # p) =>
          /\ s.LoadsDeduped = s.PeerLoads + s.LocalLoads + s.LocalLoadErrs
          /\ s.Gets - s.CacheHits <= s.Loads
          /\ s.LoadsDeduped + s.CacheHits <= s.Gets

\* Every Get returns to its caller: a leader comes to an end, whatever becomes
\* of its request and however often it has to evict, and so do those who wait.
CallsReturn == \A c \in Callers : ~At(<<c, 0>>, "idle") ~> At(<<c, 0>>, "idle")
=============================================================================
