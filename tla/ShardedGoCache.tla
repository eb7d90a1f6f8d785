--------------------------- MODULE ShardedGoCache ---------------------------
(***************************************************************************)
(* The sharded go-cache (src/go-cache/sharded.go): caches without a        *)
(* callback, one for each bucket, that are swept and flushed one after the *)
(* other, and a janitor of its own.  GoCache has what a bucket does; here  *)
(* an item is when it expires, and which write it comes from.              *)
(***************************************************************************)
EXTENDS Integers, Functions

CONSTANTS
  Users,        \* goroutines of the application
  Janitor,
  Keys,
  NumBuckets,   \* shards
  Bucket,       \* djb33(seed, k) % m of each key
  Lives,        \* for how long keys are set; 0 is for ever
  MaxTime, MaxSets

VARIABLES
  items,       \* of all the buckets: for each key its item
  time,
  users,       \* where each goroutine is in a method
  janitor,     \* "new" until its goroutine has made the stop channel, then
               \* "running", and "ended"
  finalizer,   \* stopShardedJanitor: "no", "sending", "blocked" or "returned"
  sets         \* the calls of Set so far

vars == <<items, time, users, janitor, finalizer, sets>>

Threads == Users \cup {Janitor}
Idle    == [pc |-> "idle"]

Init ==
  /\ items = [k \in {} |-> 0]
  /\ time = 1
  /\ users = [t \in Threads |-> Idle]
  /\ janitor = "new"
  /\ finalizer = "no"
  /\ sets = 0

-----------------------------------------------------------------------------

Goto(t, where) == users' = [users EXCEPT ![t] = where]

KeysOf(bucket) == {k \in DOMAIN items : Bucket[k] = bucket}
Without(keys)  == Restrict(items, DOMAIN items \ keys)
With(key, item) == [k \in DOMAIN items \cup {key} |-> IF k = key THEN item ELSE items[k]]

\* Items of a set of keys that have expired at some time.
DeadAt(keys, at) == {k \in keys : items[k].expiration > 0 /\ at > items[k].expiration}

Ids(keys) == {items[k].id : k \in keys}

\* A goroutine that has the wrapper, so that the finalizer has not run.
Call(t) == users[t].pc = "idle" /\ finalizer = "no"

\* Set reads the clock before it has the lock of the bucket.
SetStart(t, key, life) ==
  /\ Call(t) /\ sets < MaxSets
  /\ sets' = sets + 1
  /\ Goto(t, [pc |-> "set", key |-> key,
              item |-> [id |-> sets + 1,
                        expiration |-> IF life > 0 THEN time + life ELSE 0]])
  /\ UNCHANGED <<items, time, janitor, finalizer>>

SetLock(t) ==
  /\ users[t].pc = "set"
  /\ items' = With(users[t].key, users[t].item)
  /\ Goto(t, Idle)
  /\ UNCHANGED <<time, janitor, finalizer, sets>>

Delete(t, key) ==
  /\ Call(t) /\ key \in DOMAIN items
  /\ items' = Without({key})
  /\ UNCHANGED <<time, users, janitor, finalizer, sets>>

\* Flush and DeleteExpired go from bucket to bucket.  What they are to remove
\* is history.
FlushStart(t) ==
  /\ Call(t)
  /\ Goto(t, [pc |-> "flush", bucket |-> 0, doomed |-> Ids(DOMAIN items)])
  /\ UNCHANGED <<items, time, janitor, finalizer, sets>>

Sweep(t) ==
  /\ Goto(t, [pc |-> "clock", bucket |-> 0, doomed |-> Ids(DeadAt(DOMAIN items, time))])
  /\ UNCHANGED <<items, time, janitor, finalizer, sets>>

SweepStart(t) == t \in Users /\ Call(t) /\ Sweep(t)

JanitorTick == janitor = "running" /\ users[Janitor].pc = "idle" /\ Sweep(Janitor)

InBucket(t, pc) == users[t].pc = pc /\ users[t].bucket < NumBuckets

FlushBucket(t) ==
  /\ InBucket(t, "flush")
  /\ items' = Without(KeysOf(users[t].bucket))
  /\ Goto(t, [users[t] EXCEPT !.bucket = @ + 1])
  /\ UNCHANGED <<time, janitor, finalizer, sets>>

\* Each bucket reads the clock, and takes its lock then.
SweepClock(t) ==
  /\ InBucket(t, "clock")
  /\ Goto(t, [pc |-> "sweep", bucket |-> users[t].bucket, doomed |-> users[t].doomed,
              at |-> time])
  /\ UNCHANGED <<items, time, janitor, finalizer, sets>>

\* Faulty: stops at the first bucket that has nothing to delete.
SweepBucketStops(t) ==
  LET dead == DeadAt(KeysOf(users[t].bucket), users[t].at)
  IN  /\ users[t].pc = "sweep"
      /\ items' = Without(dead)
      /\ Goto(t, [pc |-> "clock", doomed |-> users[t].doomed,
                  bucket |-> IF dead = {} THEN NumBuckets ELSE users[t].bucket + 1])
      /\ UNCHANGED <<time, janitor, finalizer, sets>>

SweepBucket(t) ==
  /\ users[t].pc = "sweep"
  /\ items' = Without(DeadAt(KeysOf(users[t].bucket), users[t].at))
  /\ Goto(t, [pc |-> "clock", doomed |-> users[t].doomed, bucket |-> users[t].bucket + 1])
  /\ UNCHANGED <<time, janitor, finalizer, sets>>

Return(t) ==
  /\ users[t].pc \in {"flush", "clock"} /\ users[t].bucket = NumBuckets
  /\ Goto(t, Idle)
  /\ UNCHANGED <<items, time, janitor, finalizer, sets>>

Tick ==
  /\ time < MaxTime
  /\ time' = time + 1
  /\ UNCHANGED <<items, users, janitor, finalizer, sets>>

-----------------------------------------------------------------------------
(* The janitor.                                                            *)

\* Its goroutine starts, and makes the channel.
JanitorStart ==
  /\ janitor = "new"
  /\ janitor' = "running"
  /\ UNCHANGED <<items, time, users, finalizer, sets>>

\* Nobody has the wrapper any more, though a last method may be at work: the
\* finalizer reads the channel and sends, or blocks for ever as there is none yet.
Stop ==
  /\ finalizer = "no"
  /\ finalizer' = IF janitor = "new" THEN "blocked" ELSE "sending"
  /\ UNCHANGED <<items, time, users, janitor, sets>>

JanitorStops ==
  /\ finalizer = "sending" /\ janitor = "running" /\ users[Janitor].pc = "idle"
  /\ janitor' = "ended"
  /\ finalizer' = "returned"
  /\ UNCHANGED <<items, time, users, sets>>

-----------------------------------------------------------------------------

Method(t) ==
  \/ \E key \in Keys, life \in Lives : SetStart(t, key, life)
  \/ \E key \in Keys : Delete(t, key)
  \/ FlushStart(t) \/ SweepStart(t)

GoOn(t) == SetLock(t) \/ FlushBucket(t) \/ SweepClock(t) \/ SweepBucket(t) \/ Return(t)

Next ==
  \/ \E t \in Users : Method(t)
  \/ \E t \in Threads : GoOn(t)
  \/ JanitorStart \/ JanitorTick \/ JanitorStops \/ Stop \/ Tick

Spec == Init /\ [][Next]_vars

\* Goroutines run on, and select takes a channel that is ready at random.
Fairness == WF_vars(GoOn(Janitor)) /\ SF_vars(JanitorStops)

FairSpec == Spec /\ Fairness

-----------------------------------------------------------------------------

\* When DeleteExpired returns, all that had expired as it was called is gone,
\* from every bucket and whatever was set meanwhile; and when Flush returns, so
\* is all that was there (sharded.go:101, 120).  What others set meanwhile may
\* stay, in the buckets that were done.
SweptIsGone ==
  \A t \in Threads :
    users[t].pc \in {"flush", "clock"} /\ users'[t].pc = "idle" =>
      users[t].doomed \cap Ids(DOMAIN items) = {}

SweepsAreWhole == [][SweptIsGone]_vars

\* A finalizer that found a channel to send to is not blocked for ever
\* (sharded.go:144).  One that came before the janitor's goroutine is.
StopReturns == finalizer = "sending" ~> finalizer = "returned"
=============================================================================
