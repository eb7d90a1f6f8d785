------------------------------ MODULE GoCache ------------------------------
(***************************************************************************)
(* go-cache (src/go-cache/cache.go): items that expire under an RWMutex,   *)
(* the callback for those that go, and the janitor.  What is done under    *)
(* the lock is one step; the clock may be read before it (Set,             *)
(* DeleteExpired), and callbacks run after it.                             *)
(***************************************************************************)
EXTENDS Integers, FiniteSets, Functions

CONSTANTS
  Workers,      \* goroutines of the application
  Janitor,
  Keys,
  WordSize,     \* 2^w for the w bits of an integer
  Writes,       \* what is stored: an object, and for how long (0 is
                \* DefaultExpiration, -1 is NoExpiration)
  Numbers,      \* what is added and subtracted
  DefaultExpiration,
  Callbacks,    \* the functions given to OnEvicted
  Nil,
  Dumps,        \* the items of a file given to Load
  MaxClock, MaxOps

Threads == Workers \cup {Janitor}

\* What an object may be: an integer of WordSize values, a float, or no number.
Types == {"signed", "unsigned", "float", "other"}

ASSUME GoCacheAssumption ==
  /\ WordSize \in Nat \ {0} /\ WordSize % 2 = 0
  /\ Writes \subseteq [type : Types, n : Int, d : Int]
  /\ Numbers \subseteq Int
  /\ \A dump \in Dumps :
       /\ DOMAIN dump \subseteq Keys
       /\ dump \in [DOMAIN dump -> [type : Types, n : Int, expiration : Int]]
  /\ DefaultExpiration \in (Nat \ {0}) \cup {-1}
  /\ Nil \notin Callbacks /\ Janitor \notin Workers
  /\ MaxClock \in Nat /\ MaxOps \in Nat

VARIABLES
  items,       \* the map: for each key its object and its Expiration
  onEvicted,
  now,
  threads,     \* where each goroutine is, and its locals
  stopping,    \* stopJanitor sends to the janitor
  ops,         \* the calls so far, which number the writes
  owed,        \* history: the items removed while there was a callback
  reported     \* history: how often the callback was called with each

vars == <<items, onEvicted, now, threads, stopping, ops, owed, reported>>

Idle == [pc |-> "idle"]

Init ==
  /\ items = [k \in {} |-> Nil]
  /\ onEvicted = Nil
  /\ now = 1
  /\ threads = [t \in Threads |-> Idle]
  /\ stopping = FALSE
  /\ ops = 0
  /\ owed = {}
  /\ reported = [id \in (1 .. MaxOps) \X Keys |-> 0]

-----------------------------------------------------------------------------
(* Objects.  exact is the number that an integer without a width would     *)
(* have, and id the write the item comes from: both are history.           *)

\* The numbers are small enough for a float to be exact.
Converted(type, n) ==
  LET m == n % WordSize
  IN  IF type = "float" THEN n
      ELSE IF type = "signed" /\ m >= WordSize \div 2 THEN m - WordSize ELSE m

Item(key, type, n, expiration) ==
  [type |-> type, n |-> Converted(type, n), exact |-> n, expiration |-> expiration,
   id |-> <<ops + 1, key>>]

\* Faulty: does not wrap.
AddedUnwrapped(item, n) == [item EXCEPT !.n = @ + n, !.exact = @ + n]

Added(item, n) == [item EXCEPT !.n = Converted(item.type, @ + n), !.exact = @ + n]

\* What the method Expired says, which the methods that add numbers and Load call.
Expired(item) == item.expiration # 0 /\ now > item.expiration

ExpirationOf(d) ==
  LET life == IF d = 0 THEN DefaultExpiration ELSE d
  IN  IF life > 0 THEN now + life ELSE 0

\* What get and Get say, which differ from it for an Expiration below 0.
Found(key) ==
  /\ key \in DOMAIN items
  /\ ~(items[key].expiration > 0 /\ now > items[key].expiration)

With(key, item) ==
  [k \in DOMAIN items \cup {key} |-> IF k = key THEN item ELSE items[k]]

Without(keys) == Restrict(items, DOMAIN items \ keys)

-----------------------------------------------------------------------------

\* A worker calls a method.  It has the wrapper, so the finalizer has not run.
Call(w) ==
  /\ threads[w].pc = "idle" /\ ~stopping
  /\ ops < MaxOps
  /\ ops' = ops + 1

\* Set reads the clock, then takes the lock.
SetStart(w, key, x) ==
  /\ Call(w)
  /\ threads' = [threads EXCEPT ![w] =
                   [pc |-> "set", key |-> key, item |-> Item(key, x.type, x.n, ExpirationOf(x.d))]]
  /\ UNCHANGED <<items, onEvicted, now, stopping, owed, reported>>

SetLock(w) ==
  /\ threads[w].pc = "set"
  /\ items' = With(threads[w].key, threads[w].item)
  /\ threads' = [threads EXCEPT ![w] = Idle]
  /\ UNCHANGED <<onEvicted, now, stopping, ops, owed, reported>>

\* Add is for keys that are not there, Replace for those that are.
AddOrReplace(w, key, x, found) ==
  /\ Call(w)
  /\ Found(key) = found
  /\ items' = With(key, Item(key, x.type, x.n, ExpirationOf(x.d)))
  /\ UNCHANGED <<onEvicted, now, threads, stopping, owed, reported>>

Add(w, key, x)     == AddOrReplace(w, key, x, FALSE)
Replace(w, key, x) == AddOrReplace(w, key, x, TRUE)

\* A number is added to what has one of the types; else the method fails, and
\* changes nothing.
Update(w, key, n, types) ==
  /\ Call(w)
  /\ key \in DOMAIN items /\ ~Expired(items[key]) /\ items[key].type \in types
  /\ items' = With(key, Added(items[key], n))
  /\ UNCHANGED <<onEvicted, now, threads, stopping, owed, reported>>

\* Increment and Decrement convert their int64 to the type of the object; the
\* methods of one type are given a number of that type.
Increment(w, key, n)          == Update(w, key, n, {"signed", "unsigned", "float"})
IncrementFloat(w, key, n)     == Update(w, key, n, {"float"})
IncrementInteger(w, key, n)   == Update(w, key, Converted("signed", n), {"signed"})
IncrementUnsigned(w, key, n)  == Update(w, key, Converted("unsigned", n), {"unsigned"})
IncrementFloating(w, key, n)  == Update(w, key, n, {"float"})

Decrement(w, key, n)          == Update(w, key, -n, {"signed", "unsigned", "float"})
DecrementFloat(w, key, n)     == Update(w, key, -n, {"float"})
DecrementInteger(w, key, n)   == Update(w, key, -Converted("signed", n), {"signed"})
DecrementUnsigned(w, key, n)  == Update(w, key, -Converted("unsigned", n), {"unsigned"})
DecrementFloating(w, key, n)  == Update(w, key, -n, {"float"})

\* A thread that has removed keys; it has yet to report them, if there was a
\* callback as it did.
Remove(t, keys) ==
  LET removed == {items[k].id : k \in keys}
  IN  IF onEvicted # Nil /\ removed # {}
      THEN /\ threads' = [threads EXCEPT ![t] =
                            [pc |-> "report", evicted |-> removed, disabled |-> FALSE]]
           /\ owed' = owed \cup removed
      ELSE /\ threads' = [threads EXCEPT ![t] = Idle]
           /\ UNCHANGED owed

\* Faulty: looks the item up and leaves it.
DeleteLooked(w, key) ==
  /\ Call(w)
  /\ Remove(w, {key} \cap DOMAIN items)
  /\ UNCHANGED <<items, onEvicted, now, stopping, reported>>

Delete(w, key) ==
  /\ Call(w)
  /\ Remove(w, {key} \cap DOMAIN items)
  /\ items' = Without({key})
  /\ UNCHANGED <<onEvicted, now, stopping, reported>>

\* DeleteExpired reads the clock, then takes the lock.
Expire(t) ==
  /\ threads' = [threads EXCEPT ![t] = [pc |-> "expire", at |-> now]]
  /\ UNCHANGED <<items, onEvicted, now, stopping, owed, reported>>

ExpireStart(w) == Call(w) /\ Expire(w)

\* The ticker wakes the janitor.
JanitorTick == threads[Janitor].pc = "idle" /\ Expire(Janitor) /\ UNCHANGED ops

\* Faulty: takes the last moment of an item for the first without it.
DeadTooSoon(t, key) == items[key].expiration > 0 /\ threads[t].at >= items[key].expiration

Dead(t, key) == items[key].expiration > 0 /\ threads[t].at > items[key].expiration

ExpireLock(t) ==
  /\ threads[t].pc = "expire"
  /\ LET dead == {k \in DOMAIN items : Dead(t, k)}
     IN  Remove(t, dead) /\ items' = Without(dead)
  /\ UNCHANGED <<onEvicted, now, stopping, ops, reported>>

\* Faulty: does not see that it was the last.
AfterLast(t, r) == [threads EXCEPT ![t].evicted = @ \ {r}]

\* Where the thread is when it has reported one more.
After(t, r) ==
  LET left == threads[t].evicted \ {r}
  IN  [threads EXCEPT ![t] = IF left = {} THEN Idle ELSE [threads[t] EXCEPT !.evicted = left]]

\* The callback is read again, outside the lock.
Report(t) ==
  /\ threads[t].pc = "report" /\ onEvicted # Nil
  /\ \E r \in threads[t].evicted :
       /\ reported' = [reported EXCEPT ![r] = @ + 1]
       /\ threads' = After(t, r)
  /\ UNCHANGED <<items, onEvicted, now, stopping, ops, owed>>

\* It may have been set to nil: the goroutine panics.
ReportPanics(t) ==
  /\ threads[t].pc = "report" /\ onEvicted = Nil
  /\ threads' = [threads EXCEPT ![t].pc = "panicked"]
  /\ UNCHANGED <<items, onEvicted, now, stopping, ops, owed, reported>>

OnEvicted(w, f) ==
  /\ Call(w)
  /\ onEvicted' = f
  /\ threads' = [t \in Threads |->
                   IF f = Nil /\ threads[t].pc = "report"
                   THEN [threads[t] EXCEPT !.disabled = TRUE] ELSE threads[t]]
  /\ UNCHANGED <<items, now, stopping, owed, reported>>

\* Load adds what a file has for keys that are not there, or expired.
Load(w, dump) ==
  /\ Call(w)
  /\ LET new == {k \in DOMAIN dump : k \in DOMAIN items => Expired(items[k])}
     IN  items' = [k \in DOMAIN items \cup new |->
                     IF k \in new THEN Item(k, dump[k].type, dump[k].n, dump[k].expiration)
                     ELSE items[k]]
  /\ UNCHANGED <<onEvicted, now, threads, stopping, owed, reported>>

\* Flush reports nothing.
Flush(w) ==
  /\ Call(w)
  /\ items' = Without(Keys)
  /\ UNCHANGED <<onEvicted, now, threads, stopping, owed, reported>>

Tick ==
  /\ now < MaxClock
  /\ now' = now + 1
  /\ UNCHANGED <<items, onEvicted, threads, stopping, ops, owed, reported>>

\* The garbage collector finds that nobody has the wrapper that New returned,
\* though a last method may be at work on the cache in it, and stopJanitor sends
\* to the janitor, which takes it when it is not at work.
Stop ==
  /\ ~stopping
  /\ stopping' = TRUE
  /\ UNCHANGED <<items, onEvicted, now, threads, ops, owed, reported>>

JanitorStops ==
  /\ stopping /\ threads[Janitor].pc = "idle"
  /\ threads' = [threads EXCEPT ![Janitor].pc = "ended"]
  /\ UNCHANGED <<items, onEvicted, now, stopping, ops, owed, reported>>

-----------------------------------------------------------------------------

Counter(w, key, n) ==
  \/ Increment(w, key, n)         \/ Decrement(w, key, n)
  \/ IncrementFloat(w, key, n)    \/ DecrementFloat(w, key, n)
  \/ IncrementInteger(w, key, n)  \/ DecrementInteger(w, key, n)
  \/ IncrementUnsigned(w, key, n) \/ DecrementUnsigned(w, key, n)
  \/ IncrementFloating(w, key, n) \/ DecrementFloating(w, key, n)

Method(w) ==
  \/ \E key \in Keys, x \in Writes : SetStart(w, key, x) \/ Add(w, key, x) \/ Replace(w, key, x)
  \/ \E key \in Keys, n \in Numbers : Counter(w, key, n)
  \/ \E key \in Keys : Delete(w, key)
  \/ \E f \in Callbacks \cup {Nil} : OnEvicted(w, f)
  \/ \E dump \in Dumps : Load(w, dump)
  \/ ExpireStart(w) \/ Flush(w)

GoOn(t) == ExpireLock(t) \/ Report(t) \/ ReportPanics(t)

Next ==
  \/ \E w \in Workers : Method(w) \/ SetLock(w)
  \/ \E t \in Threads : GoOn(t)
  \/ JanitorTick \/ JanitorStops \/ Stop \/ Tick

Spec == Init /\ [][Next]_vars

\* Goroutines run on, and callbacks return.  select takes one of the channels
\* that are ready at random, so the stop is not passed over for ever.
Fairness == WF_vars(GoOn(Janitor)) /\ SF_vars(JanitorStops)

FairSpec == Spec /\ Fairness

-----------------------------------------------------------------------------

Evicted(t) == IF threads[t].pc = "report" THEN threads[t].evicted ELSE {}

\* What a goroutine had yet to report as it panicked, for OnEvicted(nil) came
\* after it had removed the items (cache.go:922).
LostIn(t) ==
  IF threads[t].pc = "panicked" /\ threads[t].disabled THEN threads[t].evicted ELSE {}

\* onEvicted is called "when an item is evicted from the cache", deleted ones
\* included, "but not when it is overwritten" (cache.go:963): an item that was
\* removed is reported once, unless the callback is disabled meanwhile and the
\* goroutine panics; one that is in the cache, overwritten or flushed is not.
ItemsAreReportedOnce ==
  /\ \A t, u \in Threads : t # u => Evicted(t) \cap Evicted(u) = {}
  /\ \A id \in DOMAIN reported :
       LET pending == \E t \in Threads : id \in Evicted(t)
       IN  /\ id \in owed <=>
                pending \/ reported[id] > 0 \/ \E t \in Threads : id \in LostIn(t)
           /\ reported[id] + (IF pending THEN 1 ELSE 0) <= 1
  /\ \A key \in DOMAIN items : items[key].id \notin owed

\* Integers stay in the range of their type, and increments of them, by
\* whatever method, add up modulo its size (cache.go:205).
CountersWrap ==
  \A key \in DOMAIN items :
    LET item == items[key]
        low  == IF item.type = "signed" THEN -(WordSize \div 2) ELSE 0
    IN  /\ item.type \in {"signed", "unsigned"} =>
             /\ item.n \in low .. low + WordSize - 1
             /\ (item.exact - item.n) % WordSize = 0
        /\ item.type = "float" => item.n = item.exact

\* What DeleteExpired removes Get would not find either, though the clock was
\* read before the lock was taken (cache.go:954).
DeletesTheExpired ==
  \A t \in Threads :
    threads[t].pc = "expire" /\ threads'[t].pc # "expire" =>
      \A key \in DOMAIN items \ DOMAIN items' : ~Found(key)

OnlyTheExpiredGo == [][DeletesTheExpired]_vars

\* The finalizer that stops the janitor is not blocked for ever, unless the
\* janitor panicked (cache.go:1108).
StopReturns == stopping ~> threads[Janitor].pc \in {"ended", "panicked"}
=============================================================================
