--------------------------- MODULE GoCacheProofs ---------------------------
(***************************************************************************)
(* The properties of GoCache for any number of goroutines, keys, writes    *)
(* and integers of any width, and the sweeps of ShardedGoCache for any     *)
(* number of buckets.                                                      *)
(***************************************************************************)
EXTENDS MCGoCache, TLAPS

Ids == (1 .. MaxOps) \X Keys

ItemSet == [type : Types, n : Int, exact : Int, expiration : Int, id : Ids]

Steps ==
  {Idle, [pc |-> "ended"]} \cup [pc : {"expire"}, at : Nat]
    \cup [pc : {"set"}, key : Keys, item : ItemSet]
    \cup [pc : {"report", "panicked"}, evicted : SUBSET Ids, disabled : BOOLEAN]

TypeOK ==
  /\ DOMAIN items \subseteq Keys /\ items \in [DOMAIN items -> ItemSet]
  /\ now \in Nat /\ ops \in 0 .. MaxOps
  /\ threads \in [Threads -> Steps]
  /\ owed \subseteq Ids
  /\ reported \in [Ids -> Nat]

\* An integer is in the range of its type, and modulo its size what it should be.
Wraps(item) ==
  LET low == IF item.type = "signed" THEN -(WordSize \div 2) ELSE 0
  IN  /\ item.type \in {"signed", "unsigned"} =>
           /\ item.n \in low .. low + WordSize - 1
           /\ (item.exact - item.n) % WordSize = 0
      /\ item.type = "float" => item.n = item.exact

AllWrap ==
  /\ \A key \in DOMAIN items : Wraps(items[key])
  /\ \A t \in Threads : threads[t].pc = "set" => Wraps(threads[t].item)

\* The clock only goes on.
ClocksArePast == \A t \in Threads : threads[t].pc = "expire" => threads[t].at <= now

\* An item that is stored, or about to be, comes from a write of its own, and was
\* not removed before.
IsNew(item, key) == item.id[2] = key /\ item.id[1] <= ops /\ item.id \notin owed

IdsAreNew ==
  /\ \A key \in DOMAIN items : IsNew(items[key], key)
  /\ \A t \in Threads : threads[t].pc = "set" =>
       /\ IsNew(threads[t].item, threads[t].key)
       /\ \A key \in DOMAIN items : items[key].id # threads[t].item.id
  /\ \A t, u \in Threads : t # u /\ threads[t].pc = "set" /\ threads[u].pc = "set" =>
       threads[t].item.id # threads[u].item.id
  /\ \A id \in owed : id[1] <= ops

\* A goroutine that cannot report has been told.
DisabledIsKnown ==
  \A t \in Threads :
    /\ threads[t].pc = "report" => onEvicted # Nil \/ threads[t].disabled
    /\ threads[t].pc = "panicked" => threads[t].disabled

Inv ==
  /\ TypeOK /\ AllWrap /\ ClocksArePast /\ IdsAreNew /\ DisabledIsKnown
  /\ ItemsAreReportedOnce

-----------------------------------------------------------------------------
(* Arithmetic.                                                             *)

LEMMA WordIsSized == WordSize \in Nat \ {0}
  BY GoCacheAssumption

LEMMA Multiple == ASSUME NEW k \in Int PROVE (WordSize * k) % WordSize = 0
  BY WordIsSized

LEMMA Quotient ==
  ASSUME NEW a \in Int
  PROVE  /\ a % WordSize \in 0 .. WordSize - 1
         /\ a \div WordSize \in Int
         /\ a = WordSize * (a \div WordSize) + (a % WordSize)
  BY WordIsSized

LEMMA Distributes ==
  ASSUME NEW k \in Int, NEW l \in Int
  PROVE  WordSize * k + WordSize * l = WordSize * (k + l) /\ WordSize * k \in Int
  BY WordIsSized

LEMMA Divisible ==
  ASSUME NEW a \in Int, NEW b \in Int, a % WordSize = 0, b % WordSize = 0
  PROVE  (a + b) % WordSize = 0
<1> DEFINE p == a \div WordSize
           q == b \div WordSize
<1>1. p \in Int /\ q \in Int /\ a = WordSize * p /\ b = WordSize * q
  <2>1. WordSize \in Int
    BY WordIsSized
  <2> QED
    BY <2>1, Quotient
<1> HIDE DEF p, q
<1>2. a + b = WordSize * (p + q) /\ p + q \in Int
  BY <1>1, Distributes
<1> QED
  BY <1>2, Multiple

\* What is cut off is a multiple of WordSize.
LEMMA Remainder ==
  ASSUME NEW a \in Int
  PROVE  /\ (a - (a % WordSize)) % WordSize = 0
         /\ (a - ((a % WordSize) - WordSize)) % WordSize = 0
<1> DEFINE p == a \div WordSize
           r == a % WordSize
<1>1. p \in Int /\ r \in Int /\ a = WordSize * p + r /\ WordSize \in Int
  BY Quotient, WordIsSized
<1> HIDE DEF p, r
<1>2. WordSize * p \in Int /\ WordSize * p + WordSize = WordSize * (p + 1) /\ p + 1 \in Int
  BY <1>1, WordIsSized
<1>3. a - r = WordSize * p /\ a - (r - WordSize) = WordSize * (p + 1)
  BY <1>1, <1>2
<1> QED
  BY <1>1, <1>2, <1>3, Multiple DEF r

LEMMA ConvertedWraps ==
  ASSUME NEW type \in Types, NEW n \in Int
  PROVE  /\ Converted(type, n) \in Int
         /\ (n - Converted(type, n)) % WordSize = 0
         /\ type = "unsigned" => Converted(type, n) \in 0 .. WordSize - 1
         /\ type = "signed" =>
              Converted(type, n) \in -(WordSize \div 2) .. -(WordSize \div 2) + WordSize - 1
         /\ type = "float" => Converted(type, n) = n
<1> DEFINE m == n % WordSize
           half == WordSize \div 2
<1>1. WordSize \in Nat \ {0} /\ half \in Nat /\ WordSize = 2 * half
  BY GoCacheAssumption
<1>2. m \in 0 .. WordSize - 1
  BY Quotient
<1>3. (n - m) % WordSize = 0 /\ (n - (m - WordSize)) % WordSize = 0 /\ (n - n) % WordSize = 0
  <2>1. n - n = WordSize * 0
    BY <1>1
  <2> QED
    BY <2>1, Remainder, Multiple
<1>4. Converted(type, n) = IF type = "float" THEN n
                           ELSE IF type = "signed" /\ m >= half THEN m - WordSize ELSE m
  BY DEF Converted
<1> HIDE DEF m, half
<1>5. Converted(type, n) \in {n, m, m - WordSize}
  BY <1>4
<1>6. Converted(type, n) \in Int /\ (n - Converted(type, n)) % WordSize = 0
  BY <1>1, <1>2, <1>3, <1>5
<1>7. type = "unsigned" => Converted(type, n) \in 0 .. WordSize - 1
  BY <1>2, <1>4
<1>8. type = "signed" => Converted(type, n) \in -half .. -half + WordSize - 1
  BY <1>1, <1>2, <1>4
<1> QED
  BY <1>4, <1>6, <1>7, <1>8 DEF half

\* What is stored wraps, and so does what is added to it.
LEMMA ItemWraps ==
  ASSUME TypeOK, ops < MaxOps, NEW key \in Keys, NEW type \in Types, NEW n \in Int,
         NEW expiration \in Int
  PROVE  LET item == Item(key, type, n, expiration)
         IN  item \in ItemSet /\ Wraps(item) /\ item.id = <<ops + 1, key>>
<1> DEFINE item == Item(key, type, n, expiration)
<1>1. item = [type |-> type, n |-> Converted(type, n), exact |-> n,
              expiration |-> expiration, id |-> <<ops + 1, key>>]
  BY DEF Item
<1>2. /\ item.type = type /\ item.n = Converted(type, n) /\ item.exact = n
      /\ item.id = <<ops + 1, key>>
  BY <1>1
<1>3. <<ops + 1, key>> \in Ids
  BY GoCacheAssumption DEF TypeOK, Ids
<1>4. item \in ItemSet
  BY <1>1, <1>3, ConvertedWraps DEF ItemSet
<1>5. Wraps(item)
  <2>1. 0 + WordSize - 1 = WordSize - 1
    BY WordIsSized
  <2>2. /\ (item.exact - item.n) % WordSize = 0
        /\ item.type = "unsigned" => item.n \in 0 .. WordSize - 1
        /\ item.type = "signed" =>
             item.n \in -(WordSize \div 2) .. -(WordSize \div 2) + WordSize - 1
        /\ item.type = "float" => item.n = item.exact
    BY <1>2, ConvertedWraps
  <2> HIDE DEF item
  <2> QED
    BY <2>1, <2>2 DEF Wraps
<1> QED
  BY <1>2, <1>4, <1>5

LEMMA AddedWraps ==
  ASSUME NEW item \in ItemSet, Wraps(item), NEW n \in Int
  PROVE  Added(item, n) \in ItemSet /\ Wraps(Added(item, n)) /\ Added(item, n).id = item.id
<1> DEFINE new == Added(item, n)
           m   == Converted(item.type, item.n + n)
<1>1. item.type \in Types /\ item.n \in Int /\ item.exact \in Int /\ item.n + n \in Int
  BY DEF ItemSet
<1>2. /\ new \in ItemSet /\ new.type = item.type /\ new.n = m
      /\ new.exact = item.exact + n /\ new.id = item.id
  <2>1. m \in Int /\ item.exact + n \in Int
    BY <1>1, ConvertedWraps
  <2>2. new = [item EXCEPT !.n = m, !.exact = item.exact + n]
    BY DEF Added
  <2> HIDE DEF m, new
  <2> QED
    BY <2>1, <2>2 DEF ItemSet
<1>3. m \in Int /\ (item.n + n - m) % WordSize = 0
  BY <1>1, ConvertedWraps
<1>4. item.type \in {"signed", "unsigned"} => (new.exact - m) % WordSize = 0
  <2> HAVE item.type \in {"signed", "unsigned"}
  <2>1. (item.exact - item.n) % WordSize = 0
    BY DEF Wraps
  <2>2. (item.exact - item.n) + (item.n + n - m) = new.exact - m
    BY <1>1, <1>2, <1>3
  <2>3. item.exact - item.n \in Int /\ item.n + n - m \in Int
    BY <1>1, <1>3
  <2> HIDE DEF m, new
  <2> QED
    BY <1>3, <2>1, <2>2, <2>3, Divisible
<1>5. item.type = "float" => m = item.exact + n
  BY <1>1, ConvertedWraps DEF Wraps
<1>6. /\ item.type = "unsigned" => m \in 0 .. WordSize - 1
      /\ item.type = "signed" => m \in -(WordSize \div 2) .. -(WordSize \div 2) + WordSize - 1
  BY <1>1, ConvertedWraps
<1>7. Wraps(new)
  <2> HIDE DEF m, new
  <2>1. 0 + WordSize - 1 = WordSize - 1
    BY WordIsSized
  <2> QED
    BY <1>2, <1>4, <1>5, <1>6, <2>1 DEF Wraps
<1> QED
  BY <1>2, <1>7

-----------------------------------------------------------------------------

LEMMA InitInv == Init => Inv
<1> SUFFICES ASSUME Init
             PROVE  Inv
  OBVIOUS
<1>1. TypeOK
  <2>1. threads \in [Threads -> Steps]
    BY DEF Init, Steps
  <2>2. reported \in [Ids -> Nat]
    BY DEF Init, Ids
  <2>3. DOMAIN items = {} /\ items \in [DOMAIN items -> ItemSet]
    BY DEF Init
  <2> QED
    BY <2>1, <2>2, <2>3, GoCacheAssumption DEF Init, TypeOK
<1>2. \A t \in Threads : threads[t].pc = "idle"
  BY DEF Init, Idle
<1>3. DOMAIN items = {} /\ owed = {} /\ \A id \in DOMAIN reported : reported[id] = 0
  BY DEF Init
<1>4. AllWrap /\ ClocksArePast /\ IdsAreNew /\ DisabledIsKnown
  BY <1>2, <1>3 DEF AllWrap, ClocksArePast, IdsAreNew, DisabledIsKnown
<1>5. ItemsAreReportedOnce
  BY <1>2, <1>3 DEF ItemsAreReportedOnce, Evicted, LostIn
<1> QED
  BY <1>1, <1>4, <1>5 DEF Inv

\* Items come from the call that runs, or stay those of their key.
LEMMA ItemsStep ==
  ASSUME Inv, ops < MaxOps, ops' = ops + 1,
         DOMAIN items' \subseteq Keys, items' \in [DOMAIN items' -> ItemSet],
         \A key \in DOMAIN items' :
           /\ Wraps(items'[key])
           /\ \/ items'[key].id = <<ops + 1, key>>
              \/ key \in DOMAIN items /\ items'[key].id = items[key].id,
         UNCHANGED <<onEvicted, now, threads, owed, reported>>
  PROVE  Inv'
<1> USE DEF Inv
<1>1. TypeOK'
  BY GoCacheAssumption DEF TypeOK
<1>2. AllWrap' /\ ClocksArePast' /\ DisabledIsKnown'
  BY DEF AllWrap, ClocksArePast, DisabledIsKnown, Wraps
<1>3. ops \in Int /\ \A id \in owed : id[1] <= ops
  BY DEF TypeOK, IdsAreNew
<1>4. ASSUME NEW key \in DOMAIN items' PROVE IsNew(items[key], key)'
  <2>1. CASE items'[key].id = <<ops + 1, key>>
    BY <1>3, <2>1 DEF IsNew
  <2>2. CASE key \in DOMAIN items /\ items'[key].id = items[key].id
    BY <1>3, <2>2 DEF IsNew, IdsAreNew, TypeOK, ItemSet, Ids
  <2> QED
    BY <2>1, <2>2
<1>5. ASSUME NEW t \in Threads, threads[t].pc = "set"
      PROVE  /\ IsNew(threads[t].item, threads[t].key)'
             /\ \A key \in DOMAIN items' : items'[key].id # threads[t].item.id
  <2>1. threads[t].item.id[1] \in Int /\ threads[t].item.id[1] <= ops
    BY <1>5 DEF IdsAreNew, IsNew, TypeOK, Steps, ItemSet, Ids, Idle
  <2>2. IsNew(threads[t].item, threads[t].key)'
    BY <1>3, <1>5, <2>1 DEF IsNew, IdsAreNew
  <2>3. ASSUME NEW key \in DOMAIN items' PROVE items'[key].id # threads[t].item.id
    <3>1. CASE items'[key].id = <<ops + 1, key>>
      BY <1>3, <2>1, <3>1
    <3>2. CASE key \in DOMAIN items /\ items'[key].id = items[key].id
      BY <1>5, <3>2 DEF IdsAreNew
    <3> QED
      BY <3>1, <3>2
  <2> QED
    BY <2>2, <2>3
<1>6. \A id \in owed : id[1] <= ops + 1
  BY <1>3 DEF TypeOK, Ids
<1>7. IdsAreNew'
  BY <1>4, <1>5, <1>6 DEF IdsAreNew
<1>8. ItemsAreReportedOnce'
  <2>1. \A key \in DOMAIN items' : items'[key].id \notin owed'
    BY <1>4 DEF IsNew
  <2> QED
    BY <2>1 DEF ItemsAreReportedOnce, Evicted, LostIn
<1> QED
  BY <1>1, <1>2, <1>7, <1>8

\* One item is stored.
LEMMA StoreStep ==
  ASSUME Inv, ops < MaxOps, ops' = ops + 1, NEW key \in Keys, NEW item \in ItemSet,
         Wraps(item),
         item.id = <<ops + 1, key>> \/ (key \in DOMAIN items /\ item.id = items[key].id),
         items' = With(key, item), UNCHANGED <<onEvicted, now, threads, owed, reported>>
  PROVE  Inv'
<1>1. items' = [k \in DOMAIN items \cup {key} |-> IF k = key THEN item ELSE items[k]]
  BY DEF With
<1>2. DOMAIN items' \subseteq Keys /\ items' \in [DOMAIN items' -> ItemSet]
  BY <1>1 DEF Inv, TypeOK
<1>3. \A k \in DOMAIN items : Wraps(items[k])
  BY DEF Inv, AllWrap
<1>4. \A k \in DOMAIN items' :
        /\ Wraps(items'[k])
        /\ \/ items'[k].id = <<ops + 1, k>>
           \/ k \in DOMAIN items /\ items'[k].id = items[k].id
  BY <1>1, <1>3
<1> QED
  BY <1>2, <1>4, ItemsStep

LEMMA AddOrReplaceStep ==
  ASSUME Inv, NEW w \in Workers, NEW key \in Keys, NEW x \in Writes, NEW found \in BOOLEAN,
         AddOrReplace(w, key, x, found)
  PROVE  Inv'
<1>1. x.type \in Types /\ x.n \in Int /\ x.d \in Int
  BY GoCacheAssumption
<1>2. ExpirationOf(x.d) \in Int
  BY <1>1, GoCacheAssumption DEF ExpirationOf, Inv, TypeOK
<1>3. ops < MaxOps /\ ops' = ops + 1
  BY DEF AddOrReplace, Call
<1> DEFINE item == Item(key, x.type, x.n, ExpirationOf(x.d))
<1>4. item \in ItemSet /\ Wraps(item) /\ item.id = <<ops + 1, key>>
  BY <1>1, <1>2, <1>3, ItemWraps DEF Inv
<1>5. items' = With(key, item) /\ UNCHANGED <<onEvicted, now, threads, owed, reported>>
  BY DEF AddOrReplace
<1> HIDE DEF item
<1> QED
  BY <1>3, <1>4, <1>5, StoreStep

LEMMA UpdateStep ==
  ASSUME Inv, NEW w \in Workers, NEW key \in Keys, NEW n \in Int, NEW types,
         Update(w, key, n, types)
  PROVE  Inv'
<1>1. key \in DOMAIN items /\ items[key] \in ItemSet /\ Wraps(items[key])
  BY DEF Update, Inv, TypeOK, AllWrap
<1> DEFINE item == Added(items[key], n)
<1>2. item \in ItemSet /\ Wraps(item) /\ item.id = items[key].id
  BY <1>1, AddedWraps
<1>3. /\ ops < MaxOps /\ ops' = ops + 1
      /\ items' = With(key, item) /\ UNCHANGED <<onEvicted, now, threads, owed, reported>>
  BY DEF Update, Call
<1> HIDE DEF item
<1> QED
  BY <1>1, <1>2, <1>3, StoreStep

LEMMA CounterStep ==
  ASSUME Inv, NEW w \in Workers, NEW key \in Keys, NEW n \in Numbers, Counter(w, key, n)
  PROVE  Inv'
<1>1. n \in Int /\ -n \in Int
  BY GoCacheAssumption
<1>2. "signed" \in Types /\ "unsigned" \in Types
  BY DEF Types
<1>3. \A type \in {"signed", "unsigned"} :
        Converted(type, n) \in Int /\ -Converted(type, n) \in Int
  BY <1>1, <1>2, ConvertedWraps
<1>4. PICK m \in Int, types \in SUBSET Types : Update(w, key, m, types)
  BY <1>1, <1>3 DEF Counter, Increment, IncrementFloat, IncrementInteger, IncrementUnsigned,
     IncrementFloating, Decrement, DecrementFloat, DecrementInteger, DecrementUnsigned,
     DecrementFloating, Types
<1> QED
  BY <1>4, UpdateStep

LEMMA LoadStep == ASSUME Inv, NEW w \in Workers, NEW dump \in Dumps, Load(w, dump) PROVE Inv'
<1> DEFINE new == {k \in DOMAIN dump : k \in DOMAIN items => Expired(items[k])}
           item(k) == Item(k, dump[k].type, dump[k].n, dump[k].expiration)
<1>1. /\ ops < MaxOps /\ ops' = ops + 1
      /\ items' = [k \in DOMAIN items \cup new |-> IF k \in new THEN item(k) ELSE items[k]]
      /\ UNCHANGED <<onEvicted, now, threads, owed, reported>>
  BY DEF Load, Call
<1>2. ASSUME NEW k \in new
      PROVE  k \in Keys /\ item(k) \in ItemSet /\ Wraps(item(k)) /\ item(k).id = <<ops + 1, k>>
  <2>1. /\ k \in Keys /\ dump[k].type \in Types /\ dump[k].n \in Int
        /\ dump[k].expiration \in Int
    BY GoCacheAssumption
  <2> QED
    BY <1>1, <2>1, ItemWraps DEF Inv
<1>3. \A k \in DOMAIN items : k \in Keys /\ items[k] \in ItemSet /\ Wraps(items[k])
  BY DEF Inv, TypeOK, AllWrap
<1> HIDE DEF new, item
<1>4. DOMAIN items' \subseteq Keys /\ items' \in [DOMAIN items' -> ItemSet]
  BY <1>1, <1>2, <1>3
<1>5. \A k \in DOMAIN items' :
        /\ Wraps(items'[k])
        /\ \/ items'[k].id = <<ops + 1, k>>
           \/ k \in DOMAIN items /\ items'[k].id = items[k].id
  BY <1>1, <1>2, <1>3
<1> QED
  BY <1>1, <1>4, <1>5, ItemsStep

LEMMA FlushStep == ASSUME Inv, NEW w \in Workers, Flush(w) PROVE Inv'
<1>1. /\ ops < MaxOps /\ ops' = ops + 1
      /\ items' = [k \in {} |-> items[k]]
      /\ UNCHANGED <<onEvicted, now, threads, owed, reported>>
  <2>1. DOMAIN items \ Keys = {}
    BY DEF Inv, TypeOK
  <2> QED
    BY <2>1 DEF Flush, Call, Without, Restrict
<1>2. DOMAIN items' = {}
  BY <1>1
<1> QED
  BY <1>1, <1>2, ItemsStep

-----------------------------------------------------------------------------
(* Steps of one goroutine.                                                 *)

\* A goroutine that was idle is about to store an item, or to take the lock for
\* DeleteExpired, or has ended.
LEMMA ThreadStep ==
  ASSUME Inv, NEW t \in Threads, threads[t] = Idle, NEW step \in Steps,
         threads' = [threads EXCEPT ![t] = step], ops' \in ops .. MaxOps,
         UNCHANGED <<items, onEvicted, now, owed, reported>>,
         \/ step.pc = "ended"
         \/ step.pc = "expire" /\ step.at = now
         \/ /\ step.pc = "set" /\ ops' = ops + 1
            /\ Wraps(step.item) /\ step.item.id = <<ops + 1, step.key>>
  PROVE  Inv'
<1> USE DEF Inv
<1>1. \A u \in Threads : threads'[u] = IF u = t THEN step ELSE threads[u]
  BY DEF TypeOK
<1>2. ops \in Nat /\ MaxOps \in Nat /\ ops' \in Nat /\ ops <= ops'
  BY GoCacheAssumption DEF TypeOK
<1>3. TypeOK'
  BY <1>2 DEF TypeOK
<1>4. now <= now
  BY DEF TypeOK
<1>5. AllWrap' /\ ClocksArePast' /\ DisabledIsKnown'
  BY <1>1, <1>4 DEF AllWrap, ClocksArePast, DisabledIsKnown, Wraps
<1>6. \A key \in DOMAIN items : items[key].id[1] \in Nat /\ items[key].id[1] <= ops
  BY DEF TypeOK, ItemSet, Ids, IdsAreNew, IsNew
<1>7. \A u \in Threads : threads[u].pc = "set" =>
        threads[u].item.id[1] \in Nat /\ threads[u].item.id[1] <= ops
  BY DEF TypeOK, Steps, ItemSet, Ids, IdsAreNew, IsNew, Idle
<1>8. \A id \in owed : id[1] \in Nat /\ id[1] <= ops
  BY DEF TypeOK, Ids, IdsAreNew
<1>9. ASSUME NEW u \in Threads, threads'[u].pc = "set"
      PROVE  /\ IsNew(threads[u].item, threads[u].key)'
             /\ \A key \in DOMAIN items : items[key].id # threads'[u].item.id
  <2>1. CASE u = t
    BY <1>1, <1>2, <1>6, <1>8, <1>9, <2>1 DEF IsNew
  <2>2. CASE u # t
    BY <1>1, <1>2, <1>7, <1>9, <2>2 DEF IsNew, IdsAreNew
  <2> QED
    BY <2>1, <2>2
<1>10. ASSUME NEW u \in Threads, NEW v \in Threads, u # v,
              threads'[u].pc = "set", threads'[v].pc = "set"
       PROVE  threads'[u].item.id # threads'[v].item.id
  <2>1. CASE u = t
    BY <1>1, <1>2, <1>7, <1>10, <2>1
  <2>2. CASE v = t
    BY <1>1, <1>2, <1>7, <1>10, <2>2
  <2> QED
    BY <1>1, <1>10, <2>1, <2>2 DEF IdsAreNew
<1>11. /\ \A key \in DOMAIN items : IsNew(items[key], key)'
       /\ \A id \in owed : id[1] <= ops'
  BY <1>2, <1>6, <1>8 DEF IsNew, IdsAreNew
<1>12. IdsAreNew'
  BY <1>9, <1>10, <1>11 DEF IdsAreNew
<1>13. \A u \in Threads : Evicted(u)' = Evicted(u) /\ LostIn(u)' = LostIn(u)
  BY <1>1 DEF Evicted, LostIn, Idle
<1>14. ItemsAreReportedOnce'
  BY <1>13 DEF ItemsAreReportedOnce
<1> QED
  BY <1>3, <1>5, <1>12, <1>14

LEMMA IdleStep == ASSUME TypeOK, NEW t \in Threads, threads[t].pc = "idle" PROVE threads[t] = Idle
  BY DEF TypeOK, Steps, Idle

LEMMA SetStartStep ==
  ASSUME Inv, NEW w \in Workers, NEW key \in Keys, NEW x \in Writes, SetStart(w, key, x)
  PROVE  Inv'
<1> DEFINE item == Item(key, x.type, x.n, ExpirationOf(x.d))
           step == [pc |-> "set", key |-> key, item |-> item]
<1>1. x.type \in Types /\ x.n \in Int /\ x.d \in Int
  BY GoCacheAssumption
<1>2. ExpirationOf(x.d) \in Int
  BY <1>1, GoCacheAssumption DEF ExpirationOf, Inv, TypeOK
<1>3. ops < MaxOps /\ ops' = ops + 1 /\ ops' \in ops .. MaxOps
  BY GoCacheAssumption DEF SetStart, Call, Inv, TypeOK
<1>4. item \in ItemSet /\ Wraps(item) /\ item.id = <<ops + 1, key>>
  BY <1>1, <1>2, <1>3, ItemWraps DEF Inv
<1>5. w \in Threads /\ threads[w] = Idle
  BY IdleStep DEF SetStart, Call, Threads, Inv
<1>6. threads' = [threads EXCEPT ![w] = step] /\ UNCHANGED <<items, onEvicted, now, owed, reported>>
  BY DEF SetStart
<1> HIDE DEF item
<1>7. step \in Steps /\ step.pc = "set" /\ step.item = item /\ step.key = key
  BY <1>4 DEF Steps
<1> HIDE DEF step
<1> QED
  BY <1>3, <1>4, <1>5, <1>6, <1>7, ThreadStep

LEMMA ExpireStep ==
  ASSUME Inv, NEW t \in Threads, threads[t].pc = "idle", Expire(t), ops' \in ops .. MaxOps
  PROVE  Inv'
<1> DEFINE step == [pc |-> "expire", at |-> now]
<1>1. step \in Steps /\ step.pc = "expire" /\ step.at = now
  BY DEF Steps, Inv, TypeOK
<1>2. threads[t] = Idle
  BY IdleStep DEF Inv
<1>3. threads' = [threads EXCEPT ![t] = step] /\ UNCHANGED <<items, onEvicted, now, owed, reported>>
  BY DEF Expire
<1> HIDE DEF step
<1> QED
  BY <1>1, <1>2, <1>3, ThreadStep

LEMMA JanitorStopsStep == ASSUME Inv, JanitorStops PROVE Inv'
<1> DEFINE step == [pc |-> "ended"]
<1>1. step \in Steps /\ step.pc = "ended" /\ Janitor \in Threads
  BY DEF Steps, Threads
<1>2. threads[Janitor] = Idle
  BY <1>1, IdleStep DEF Inv, JanitorStops
<1>3. [threads[Janitor] EXCEPT !.pc = "ended"] = step
  BY <1>2 DEF Idle
<1>4. threads' = [threads EXCEPT ![Janitor] = step]
  <2>1. threads' = [threads EXCEPT ![Janitor] = [threads[Janitor] EXCEPT !.pc = "ended"]]
    BY DEF JanitorStops
  <2> QED
    BY <1>3, <2>1
<1>5. ops' \in ops .. MaxOps /\ UNCHANGED <<items, onEvicted, now, owed, reported>>
  BY GoCacheAssumption DEF JanitorStops, Inv, TypeOK
<1> HIDE DEF step
<1> QED
  BY <1>1, <1>2, <1>4, <1>5, ThreadStep

\* Set stores its item.
LEMMA SetLockStep == ASSUME Inv, NEW w \in Workers, SetLock(w) PROVE Inv'
<1> USE DEF Inv
<1> DEFINE key  == threads[w].key
           item == threads[w].item
<1>1. w \in Threads /\ threads[w].pc = "set"
  BY DEF SetLock, Threads
<1>2. key \in Keys /\ item \in ItemSet
  BY <1>1 DEF TypeOK, Steps, Idle
<1>3. items' = [k \in DOMAIN items \cup {key} |-> IF k = key THEN item ELSE items[k]]
  BY DEF SetLock, With
<1>4. \A t \in Threads : threads'[t] = IF t = w THEN Idle ELSE threads[t]
  BY DEF SetLock, TypeOK
<1>5. UNCHANGED <<onEvicted, now, ops, owed, reported>>
  BY DEF SetLock
<1>6. Wraps(item) /\ IsNew(item, key)
  BY <1>1 DEF AllWrap, IdsAreNew
<1>7. \A t \in Threads \ {w} : threads[t].pc = "set" => threads[t].item.id # item.id
  BY <1>1 DEF IdsAreNew
<1> HIDE DEF key, item
<1>8. TypeOK'
  <2>1. threads' \in [Threads -> Steps]
    BY DEF SetLock, TypeOK, Steps
  <2>2. DOMAIN items' \subseteq Keys /\ items' \in [DOMAIN items' -> ItemSet]
    BY <1>2, <1>3 DEF TypeOK
  <2> QED
    BY <1>5, <2>1, <2>2 DEF TypeOK
<1>9. AllWrap' /\ ClocksArePast' /\ DisabledIsKnown'
  BY <1>3, <1>4, <1>5, <1>6 DEF AllWrap, ClocksArePast, DisabledIsKnown, Idle, Wraps
<1>10. \A k \in DOMAIN items' : IsNew(items[k], k)'
  BY <1>3, <1>5, <1>6 DEF IdsAreNew, IsNew
<1>11. IdsAreNew'
  <2>1. ASSUME NEW t \in Threads, threads'[t].pc = "set"
        PROVE  t # w /\ threads[t].pc = "set" /\ threads'[t] = threads[t]
    BY <1>4, <2>1 DEF Idle
  <2>2. ASSUME NEW t \in Threads, threads'[t].pc = "set"
        PROVE  IsNew(threads[t].item, threads[t].key)'
    BY <1>5, <2>1, <2>2 DEF IdsAreNew, IsNew
  <2>3. ASSUME NEW t \in Threads, threads'[t].pc = "set", NEW k \in DOMAIN items'
        PROVE  items'[k].id # threads'[t].item.id
    <3>1. CASE k = key
      BY <1>3, <1>7, <2>1, <2>3, <3>1
    <3>2. CASE k # key
      BY <1>3, <2>1, <2>3, <3>2 DEF IdsAreNew
    <3> QED
      BY <3>1, <3>2
  <2>4. \A t, u \in Threads : t # u /\ threads'[t].pc = "set" /\ threads'[u].pc = "set" =>
          threads'[t].item.id # threads'[u].item.id
    BY <2>1 DEF IdsAreNew
  <2>5. \A id \in owed' : id[1] <= ops'
    BY <1>5 DEF IdsAreNew
  <2> QED
    BY <1>10, <2>2, <2>3, <2>4, <2>5 DEF IdsAreNew
<1>12. \A t \in Threads : Evicted(t)' = Evicted(t) /\ LostIn(t)' = LostIn(t)
  BY <1>1, <1>4 DEF Evicted, LostIn, Idle
<1>13. ItemsAreReportedOnce'
  BY <1>5, <1>10, <1>12 DEF ItemsAreReportedOnce, IsNew
<1> QED
  BY <1>8, <1>9, <1>11, <1>13

\* What has yet to be reported is owed, and was not reported yet.
LEMMA PendingIsOwed ==
  ASSUME Inv, NEW t \in Threads, NEW id \in Evicted(t)
  PROVE  id \in Ids /\ id \in owed /\ reported[id] = 0
<1>1. id \in Ids
  BY DEF Inv, TypeOK, Steps, Evicted, Idle
<1>2. id \in DOMAIN reported /\ reported[id] \in Nat
  BY <1>1 DEF Inv, TypeOK
<1> QED
  BY <1>1, <1>2 DEF Inv, ItemsAreReportedOnce

\* Items go, and are to be reported if there is a callback.
LEMMA RemoveStep ==
  ASSUME Inv, NEW t \in Threads, threads[t].pc \in {"idle", "expire"},
         NEW keys \in SUBSET (DOMAIN items), Remove(t, keys),
         items' = [k \in DOMAIN items \ keys |-> items[k]], ops' \in ops .. MaxOps,
         UNCHANGED <<onEvicted, now, reported>>
  PROVE  Inv'
<1> USE DEF Inv
<1> DEFINE removed == {items[k].id : k \in keys}
           reports == onEvicted # Nil /\ removed # {}
           step    == IF reports THEN [pc |-> "report", evicted |-> removed, disabled |-> FALSE]
                      ELSE Idle
<1>1. threads' = [threads EXCEPT ![t] = step] /\ owed' = IF reports THEN owed \cup removed ELSE owed
  BY DEF Remove
<1>2. removed \subseteq Ids /\ removed \cap owed = {} /\ \A id \in removed : id[1] <= ops
  BY DEF TypeOK, ItemSet, IdsAreNew, IsNew
<1>3. \A k \in DOMAIN items' : items'[k] = items[k] /\ items[k].id \notin removed
  BY DEF IdsAreNew, IsNew
<1>4. \A u \in Threads : threads[u].pc = "set" => threads[u].item.id \notin removed
  BY DEF IdsAreNew
<1>5. step \in Steps
  <2>1. removed \in SUBSET Ids
    BY <1>2
  <2> HIDE DEF removed
  <2> QED
    BY <2>1 DEF Steps
<1>6. step.pc \in {"idle", "report"} /\ (step.pc = "report" <=> reports)
      /\ (reports => step.evicted = removed)
  <2> HIDE DEF removed
  <2> QED
    BY DEF Idle
<1> HIDE DEF removed, reports, step
<1>7. \A u \in Threads : threads'[u] = IF u = t THEN step ELSE threads[u]
  BY <1>1 DEF TypeOK
<1>8. ops \in Nat /\ ops' \in Nat /\ ops <= ops' /\ ops' \in 0 .. MaxOps
  BY GoCacheAssumption DEF TypeOK
<1>9. TypeOK'
  <2>1. threads' \in [Threads -> Steps]
    BY <1>1, <1>5 DEF TypeOK
  <2>2. DOMAIN items' \subseteq Keys /\ items' \in [DOMAIN items' -> ItemSet]
    BY DEF TypeOK
  <2> QED
    BY <1>1, <1>2, <1>8, <2>1, <2>2 DEF TypeOK
<1>10. AllWrap' /\ ClocksArePast'
  BY <1>3, <1>6, <1>7 DEF AllWrap, ClocksArePast, Wraps
<1>11. DisabledIsKnown'
  BY <1>6, <1>7 DEF DisabledIsKnown, reports
<1>12. IdsAreNew'
  <2>1. \A id \in owed' : id \in Ids /\ id[1] <= ops
    BY <1>1, <1>2 DEF IdsAreNew, TypeOK
  <2>2. \A id \in owed' : id[1] <= ops'
    BY <1>8, <2>1 DEF Ids
  <2>3. ASSUME NEW id \in Ids, id[1] <= ops PROVE id[1] <= ops'
    BY <1>8, <2>3 DEF Ids
  <2>4. \A k \in DOMAIN items' : IsNew(items[k], k)'
    BY <1>1, <1>3, <2>3 DEF IdsAreNew, IsNew, TypeOK, ItemSet
  <2>5. ASSUME NEW u \in Threads, threads'[u].pc = "set"
        PROVE  u # t /\ threads[u].pc = "set" /\ threads'[u] = threads[u]
    BY <1>6, <1>7, <2>5
  <2>6. ASSUME NEW u \in Threads, threads[u].pc = "set"
        PROVE  threads[u].item.id \in Ids
    BY <2>6 DEF TypeOK, Steps, ItemSet, Idle
  <2>7. ASSUME NEW u \in Threads, threads'[u].pc = "set"
        PROVE  /\ IsNew(threads[u].item, threads[u].key)'
               /\ \A k \in DOMAIN items' : items'[k].id # threads'[u].item.id
    BY <1>1, <1>3, <1>4, <2>3, <2>5, <2>6, <2>7 DEF IdsAreNew, IsNew
  <2> QED
    BY <2>2, <2>4, <2>5, <2>7 DEF IdsAreNew
<1>13. /\ Evicted(t) = {} /\ LostIn(t) = {} /\ LostIn(t)' = {}
       /\ Evicted(t)' = IF reports THEN removed ELSE {}
       /\ \A u \in Threads \ {t} : Evicted(u)' = Evicted(u) /\ LostIn(u)' = LostIn(u)
  BY <1>6, <1>7 DEF Evicted, LostIn
<1>14. ItemsAreReportedOnce'
  <2>1. \A u \in Threads \ {t} : Evicted(u) \cap removed = {}
    BY <1>2, PendingIsOwed
  <2>2. \A u, v \in Threads : u # v => Evicted(u)' \cap Evicted(v)' = {}
    BY <1>13, <2>1 DEF ItemsAreReportedOnce
  <2>3. ASSUME NEW id \in DOMAIN reported
        PROVE  LET pending == \E u \in Threads : id \in Evicted(u)'
               IN  /\ id \in owed' <=>
                        pending \/ reported[id] > 0 \/ \E u \in Threads : id \in LostIn(u)'
                   /\ reported[id] + (IF pending THEN 1 ELSE 0) <= 1
    <3>1. /\ id \in owed <=> \/ \E u \in Threads : id \in Evicted(u)
                             \/ reported[id] > 0 \/ \E u \in Threads : id \in LostIn(u)
          /\ reported[id] + (IF \E u \in Threads : id \in Evicted(u) THEN 1 ELSE 0) <= 1
          /\ reported[id] \in Nat
      BY DEF ItemsAreReportedOnce, TypeOK
    <3>2. (\E u \in Threads : id \in LostIn(u)') <=> \E u \in Threads : id \in LostIn(u)
      BY <1>13
    <3>3. CASE reports /\ id \in removed
      BY <1>1, <1>2, <1>13, <3>1, <3>3
    <3>4. CASE ~(reports /\ id \in removed)
      <4>1. (\E u \in Threads : id \in Evicted(u)') <=> \E u \in Threads : id \in Evicted(u)
        BY <1>13, <3>4
      <4> QED
        BY <1>1, <3>1, <3>2, <3>4, <4>1
    <3> QED
      BY <3>3, <3>4
  <2>4. \A k \in DOMAIN items' : items'[k].id \notin owed'
    BY <1>12 DEF IdsAreNew, IsNew
  <2> QED
    BY <2>2, <2>3, <2>4 DEF ItemsAreReportedOnce
<1> QED
  BY <1>9, <1>10, <1>11, <1>12, <1>14

LEMMA DeleteStep == ASSUME Inv, NEW w \in Workers, NEW key \in Keys, Delete(w, key) PROVE Inv'
<1> DEFINE keys == {key} \cap DOMAIN items
<1>1. w \in Threads /\ threads[w].pc = "idle" /\ ops' \in ops .. MaxOps
  BY GoCacheAssumption DEF Delete, Call, Threads, Inv, TypeOK
<1>2. items' = [k \in DOMAIN items \ keys |-> items[k]]
  <2>1. DOMAIN items \ {key} = DOMAIN items \ keys
    OBVIOUS
  <2> QED
    BY <2>1 DEF Delete, Without, Restrict
<1>3. Remove(w, keys) /\ UNCHANGED <<onEvicted, now, reported>> /\ keys \in SUBSET (DOMAIN items)
  BY DEF Delete
<1> HIDE DEF keys
<1> QED
  BY <1>1, <1>2, <1>3, RemoveStep

LEMMA ExpireLockStep == ASSUME Inv, NEW t \in Threads, ExpireLock(t) PROVE Inv'
<1> DEFINE dead == {k \in DOMAIN items : Dead(t, k)}
<1>1. threads[t].pc \in {"idle", "expire"} /\ ops' \in ops .. MaxOps
  BY GoCacheAssumption DEF ExpireLock, Inv, TypeOK
<1>2. /\ Remove(t, dead) /\ UNCHANGED <<onEvicted, now, reported>>
      /\ items' = [k \in DOMAIN items \ dead |-> items[k]] /\ dead \in SUBSET (DOMAIN items)
  BY DEF ExpireLock, Without, Restrict
<1> HIDE DEF dead
<1> QED
  BY <1>1, <1>2, RemoveStep

\* Steps that leave the items, and what is owed, alone.
LEMMA ReportingStep ==
  ASSUME Inv, threads' \in [Threads -> Steps],
         \A t \in Threads :
           \/ threads'[t] = threads[t]
           \/ {threads[t].pc, threads'[t].pc} \subseteq {"idle", "report", "panicked"},
         UNCHANGED <<items, now, owed>>, ops' \in ops .. MaxOps, reported' \in [Ids -> Nat],
         DisabledIsKnown', ItemsAreReportedOnce'
  PROVE  Inv'
<1> USE DEF Inv
<1>1. ops \in Nat /\ ops' \in Nat /\ ops <= ops' /\ ops' \in 0 .. MaxOps
  BY GoCacheAssumption DEF TypeOK
<1>2. TypeOK'
  BY <1>1 DEF TypeOK
<1>3. AllWrap' /\ ClocksArePast'
  BY DEF AllWrap, ClocksArePast, Wraps
<1>4. ASSUME NEW id \in Ids, id[1] <= ops PROVE id[1] <= ops'
  BY <1>1, <1>4 DEF Ids
<1>5. \A k \in DOMAIN items : IsNew(items[k], k)'
  BY <1>4 DEF IdsAreNew, IsNew, TypeOK, ItemSet
<1>6. ASSUME NEW t \in Threads, threads'[t].pc = "set"
      PROVE  threads[t].pc = "set" /\ threads'[t] = threads[t] /\ threads[t].item.id \in Ids
  BY <1>6 DEF TypeOK, Steps, ItemSet, Idle
<1>7. ASSUME NEW t \in Threads, threads'[t].pc = "set"
      PROVE  IsNew(threads[t].item, threads[t].key)'
  BY <1>4, <1>6, <1>7 DEF IdsAreNew, IsNew
<1>8. \A id \in owed : id[1] <= ops'
  BY <1>4 DEF IdsAreNew, TypeOK
<1>9. IdsAreNew'
  BY <1>5, <1>6, <1>7, <1>8 DEF IdsAreNew
<1> QED
  BY <1>2, <1>3, <1>9

LEMMA ReportStep == ASSUME Inv, NEW t \in Threads, Report(t) PROVE Inv'
<1> USE DEF Inv
<1>1. PICK r \in threads[t].evicted :
        reported' = [reported EXCEPT ![r] = @ + 1] /\ threads' = After(t, r)
  BY DEF Report
<1>2. /\ threads[t].pc = "report" /\ onEvicted # Nil
      /\ UNCHANGED <<items, onEvicted, now, ops, owed>>
  BY DEF Report
<1>3. r \in Evicted(t) /\ Evicted(t) = threads[t].evicted
  BY <1>2 DEF Evicted
<1>4. r \in Ids /\ r \in owed /\ reported[r] = 0
  BY <1>3, PendingIsOwed
<1> DEFINE left == threads[t].evicted \ {r}
           step == IF left = {} THEN Idle ELSE [threads[t] EXCEPT !.evicted = left]
<1>5. threads' = [threads EXCEPT ![t] = step]
  BY <1>1 DEF After
<1>6. step \in Steps /\ step.pc \in {"idle", "report"}
      /\ (step.pc = "report" => step.evicted = left)
      /\ (step.pc = "idle" => left = {})
  <2>1. threads[t] \in [pc : {"report", "panicked"}, evicted : SUBSET Ids, disabled : BOOLEAN]
    BY <1>2 DEF TypeOK, Steps, Idle
  <2>2. left \in SUBSET Ids
    BY <2>1
  <2> HIDE DEF left
  <2>3. CASE left = {}
    BY <2>3 DEF Steps, Idle
  <2>4. CASE left # {}
    <3>1. step = [threads[t] EXCEPT !.evicted = left]
      BY <2>4
    <3> HIDE DEF step
    <3>2. /\ step \in [pc : {"report", "panicked"}, evicted : SUBSET Ids, disabled : BOOLEAN]
          /\ step.pc = "report" /\ step.evicted = left
      BY <1>2, <2>1, <2>2, <3>1
    <3> QED
      BY <3>2 DEF Steps
  <2> QED
    BY <2>3, <2>4
<1> HIDE DEF step
<1>7. \A u \in Threads : threads'[u] = IF u = t THEN step ELSE threads[u]
  BY <1>5 DEF TypeOK
<1>8. threads' \in [Threads -> Steps] /\ reported' \in [Ids -> Nat]
  BY <1>1, <1>4, <1>5, <1>6 DEF TypeOK
<1>9. DisabledIsKnown'
  BY <1>2, <1>6, <1>7 DEF DisabledIsKnown
<1>10. \A u \in Threads :
         Evicted(u)' = (IF u = t THEN Evicted(t) \ {r} ELSE Evicted(u)) /\ LostIn(u)' = LostIn(u)
  BY <1>2, <1>3, <1>6, <1>7 DEF Evicted, LostIn
<1>11. \A u \in Threads : r \notin Evicted(u)'
  BY <1>3, <1>10 DEF ItemsAreReportedOnce
<1>12. reported'[r] = 1 /\ \A id \in Ids \ {r} : reported'[id] = reported[id]
  BY <1>1, <1>4 DEF TypeOK
<1>13. ItemsAreReportedOnce'
  <2>1. \A u, v \in Threads : u # v => Evicted(u)' \cap Evicted(v)' = {}
    BY <1>10 DEF ItemsAreReportedOnce
  <2>2. DOMAIN reported' = Ids /\ DOMAIN reported = Ids
    BY <1>8 DEF TypeOK
  <2>3. ASSUME NEW id \in Ids
        PROVE  LET pending == \E u \in Threads : id \in Evicted(u)'
               IN  /\ id \in owed' <=>
                        pending \/ reported'[id] > 0 \/ \E u \in Threads : id \in LostIn(u)'
                   /\ reported'[id] + (IF pending THEN 1 ELSE 0) <= 1
    <3>1. CASE id = r
      BY <1>2, <1>4, <1>11, <1>12, <3>1
    <3>2. CASE id # r
      <4>1. (\E u \in Threads : id \in Evicted(u)') <=> \E u \in Threads : id \in Evicted(u)
        BY <1>10, <3>2
      <4>2. (\E u \in Threads : id \in LostIn(u)') <=> \E u \in Threads : id \in LostIn(u)
        BY <1>10
      <4> QED
        BY <1>2, <1>12, <2>2, <3>2, <4>1, <4>2 DEF ItemsAreReportedOnce
    <3> QED
      BY <3>1, <3>2
  <2> QED
    BY <1>2, <2>1, <2>2, <2>3 DEF ItemsAreReportedOnce
<1>14. \A u \in Threads :
         \/ threads'[u] = threads[u]
         \/ {threads[u].pc, threads'[u].pc} \subseteq {"idle", "report", "panicked"}
  BY <1>2, <1>6, <1>7
<1>15. ops' \in ops .. MaxOps
  BY <1>2, GoCacheAssumption DEF TypeOK
<1> QED
  BY <1>2, <1>8, <1>9, <1>13, <1>14, <1>15, ReportingStep

LEMMA ReportPanicsStep == ASSUME Inv, NEW t \in Threads, ReportPanics(t) PROVE Inv'
<1> USE DEF Inv
<1> DEFINE step == [threads[t] EXCEPT !.pc = "panicked"]
<1>1. /\ threads[t].pc = "report" /\ onEvicted = Nil /\ threads[t].disabled
      /\ UNCHANGED <<items, onEvicted, now, ops, owed, reported>>
  BY DEF ReportPanics, DisabledIsKnown
<1>2. threads[t] \in [pc : {"report", "panicked"}, evicted : SUBSET Ids, disabled : BOOLEAN]
  BY <1>1 DEF TypeOK, Steps, Idle
<1>3. step \in Steps /\ step.pc = "panicked" /\ step.evicted = threads[t].evicted /\ step.disabled
  BY <1>1, <1>2 DEF Steps
<1>4. threads' = [threads EXCEPT ![t] = step]
  BY DEF ReportPanics
<1> HIDE DEF step
<1>5. \A u \in Threads : threads'[u] = IF u = t THEN step ELSE threads[u]
  BY <1>4 DEF TypeOK
<1>6. threads' \in [Threads -> Steps]
  BY <1>3, <1>4 DEF TypeOK
<1>7. DisabledIsKnown'
  BY <1>1, <1>3, <1>5 DEF DisabledIsKnown
<1>8. /\ LostIn(t) = {} /\ Evicted(t)' = {} /\ LostIn(t)' = Evicted(t)
      /\ \A u \in Threads \ {t} : Evicted(u)' = Evicted(u) /\ LostIn(u)' = LostIn(u)
  BY <1>1, <1>3, <1>5 DEF Evicted, LostIn
<1>9. ItemsAreReportedOnce'
  <2>1. \A u, v \in Threads : u # v => Evicted(u)' \cap Evicted(v)' = {}
    BY <1>8 DEF ItemsAreReportedOnce
  <2>2. ASSUME NEW id \in DOMAIN reported
        PROVE  LET pending == \E u \in Threads : id \in Evicted(u)'
               IN  /\ id \in owed <=>
                        pending \/ reported[id] > 0 \/ \E u \in Threads : id \in LostIn(u)'
                   /\ reported[id] + (IF pending THEN 1 ELSE 0) <= 1
    <3> DEFINE pending == \E u \in Threads : id \in Evicted(u)
               lost    == \E u \in Threads : id \in LostIn(u)
    <3>1. /\ id \in owed <=> pending \/ reported[id] > 0 \/ lost
          /\ reported[id] + (IF pending THEN 1 ELSE 0) <= 1
          /\ reported[id] \in Nat
      BY DEF ItemsAreReportedOnce, TypeOK
    <3>2. (\E u \in Threads : id \in Evicted(u)') => pending
      BY <1>8
    <3>3. pending \/ lost <=>
            \/ \E u \in Threads : id \in Evicted(u)'
            \/ \E u \in Threads : id \in LostIn(u)'
      BY <1>8
    <3> HIDE DEF pending, lost
    <3> QED
      BY <3>1, <3>2, <3>3
  <2> QED
    BY <1>1, <2>1, <2>2 DEF ItemsAreReportedOnce
<1>10. \A u \in Threads :
         \/ threads'[u] = threads[u]
         \/ {threads[u].pc, threads'[u].pc} \subseteq {"idle", "report", "panicked"}
  BY <1>1, <1>3, <1>5
<1>11. ops' \in ops .. MaxOps /\ reported' \in [Ids -> Nat]
  BY <1>1, GoCacheAssumption DEF TypeOK
<1> QED
  BY <1>1, <1>6, <1>7, <1>9, <1>10, <1>11, ReportingStep

LEMMA OnEvictedStep ==
  ASSUME Inv, NEW w \in Workers, NEW f \in Callbacks \cup {Nil}, OnEvicted(w, f)
  PROVE  Inv'
<1> USE DEF Inv
<1> DEFINE told(t) == f = Nil /\ threads[t].pc = "report"
<1>1. /\ onEvicted' = f /\ ops < MaxOps /\ ops' = ops + 1
      /\ UNCHANGED <<items, now, owed, reported>>
      /\ threads' = [t \in Threads |-> IF told(t) THEN [threads[t] EXCEPT !.disabled = TRUE]
                                      ELSE threads[t]]
  BY DEF OnEvicted, Call
<1>2. ASSUME NEW t \in Threads, told(t)
      PROVE  /\ threads'[t] \in Steps /\ threads[t].pc = "report" /\ threads'[t].pc = "report"
             /\ threads'[t].evicted = threads[t].evicted /\ threads'[t].disabled
  <2>1. threads[t] \in [pc : {"report", "panicked"}, evicted : SUBSET Ids, disabled : BOOLEAN]
    BY <1>2 DEF TypeOK, Steps, Idle
  <2>2. threads'[t] = [threads[t] EXCEPT !.disabled = TRUE]
    BY <1>1, <1>2
  <2> QED
    BY <1>2, <2>1, <2>2 DEF Steps
<1>3. \A t \in Threads : ~told(t) => threads'[t] = threads[t]
  BY <1>1
<1>4. threads' \in [Threads -> Steps]
  <2>1. \A t \in Threads : threads'[t] \in Steps
    BY <1>2, <1>3 DEF TypeOK
  <2> HIDE DEF told
  <2>2. threads' = [t \in Threads |-> threads'[t]]
    BY <1>1
  <2> QED
    BY <2>1, <2>2
<1>5. DisabledIsKnown'
  BY <1>1, <1>2, <1>3 DEF DisabledIsKnown
<1>6. \A t \in Threads : Evicted(t)' = Evicted(t) /\ LostIn(t)' = LostIn(t)
  BY <1>2, <1>3 DEF Evicted, LostIn
<1>7. ItemsAreReportedOnce'
  BY <1>1, <1>6 DEF ItemsAreReportedOnce
<1>8. \A t \in Threads :
        \/ threads'[t] = threads[t]
        \/ {threads[t].pc, threads'[t].pc} \subseteq {"idle", "report", "panicked"}
  BY <1>2, <1>3
<1>9. ops' \in ops .. MaxOps /\ reported' \in [Ids -> Nat]
  BY <1>1, GoCacheAssumption DEF TypeOK
<1> QED
  BY <1>1, <1>4, <1>5, <1>7, <1>8, <1>9, ReportingStep

LEMMA TickStep == ASSUME Inv, Tick PROVE Inv'
<1>1. now' = now + 1 /\ now \in Nat /\ UNCHANGED <<items, onEvicted, threads, ops, owed, reported>>
  BY DEF Tick, Inv, TypeOK
<1>2. TypeOK'
  BY <1>1 DEF Inv, TypeOK
<1>3. ClocksArePast'
  <2>1. \A t \in Threads : threads[t].pc = "expire" => threads[t].at \in Nat
    BY DEF Inv, TypeOK, Steps, Idle
  <2> QED
    BY <1>1, <2>1 DEF Inv, ClocksArePast
<1>4. /\ AllWrap' /\ IdsAreNew' /\ DisabledIsKnown' /\ ItemsAreReportedOnce'
  BY <1>1 DEF Inv, AllWrap, Wraps, IdsAreNew, IsNew, DisabledIsKnown, ItemsAreReportedOnce,
     Evicted, LostIn
<1> QED
  BY <1>2, <1>3, <1>4 DEF Inv

LEMMA SameStep ==
  ASSUME Inv, UNCHANGED <<items, onEvicted, now, threads, ops, owed, reported>>
  PROVE  Inv'
<1>1. TypeOK'
  BY DEF Inv, TypeOK
<1>2. AllWrap' /\ ClocksArePast' /\ IdsAreNew' /\ DisabledIsKnown' /\ ItemsAreReportedOnce'
  BY DEF Inv, AllWrap, Wraps, ClocksArePast, IdsAreNew, IsNew, DisabledIsKnown,
     ItemsAreReportedOnce, Evicted, LostIn
<1> QED
  BY <1>1, <1>2 DEF Inv

-----------------------------------------------------------------------------

LEMMA MethodStep == ASSUME Inv, NEW w \in Workers, Method(w) PROVE Inv'
<1>1. ASSUME NEW key \in Keys, NEW x \in Writes,
             SetStart(w, key, x) \/ Add(w, key, x) \/ Replace(w, key, x)
      PROVE  Inv'
  BY <1>1, SetStartStep, AddOrReplaceStep DEF Add, Replace
<1>2. ASSUME ExpireStart(w) PROVE Inv'
  <2>1. /\ w \in Threads /\ threads[w].pc = "idle" /\ Expire(w) /\ ops' \in ops .. MaxOps
    BY <1>2, GoCacheAssumption DEF ExpireStart, Call, Threads, Inv, TypeOK
  <2> QED
    BY <2>1, ExpireStep
<1> QED
  BY <1>1, <1>2, CounterStep, DeleteStep, OnEvictedStep, LoadStep, FlushStep DEF Method

LEMMA NextInv == Inv /\ [Next]_vars => Inv'
<1> SUFFICES ASSUME Inv, [Next]_vars
             PROVE  Inv'
  OBVIOUS
<1>1. ASSUME NEW w \in Workers, Method(w) \/ SetLock(w) PROVE Inv'
  BY <1>1, MethodStep, SetLockStep
<1>2. ASSUME NEW t \in Threads, GoOn(t) PROVE Inv'
  BY <1>2, ExpireLockStep, ReportStep, ReportPanicsStep DEF GoOn
<1>3. CASE JanitorTick
  <2>1. /\ Janitor \in Threads /\ threads[Janitor].pc = "idle" /\ Expire(Janitor)
        /\ ops' \in ops .. MaxOps
    BY <1>3, GoCacheAssumption DEF JanitorTick, Threads, Inv, TypeOK
  <2> QED
    BY <2>1, ExpireStep
<1>4. CASE Stop
  BY <1>4, SameStep DEF Stop
<1>5. CASE UNCHANGED vars
  BY <1>5, SameStep DEF vars
<1> QED
  BY <1>1, <1>2, <1>3, <1>4, <1>5, JanitorStopsStep, TickStep DEF Next

\* The types, the clocks and the ids of items are what the module relies on.
THEOREM Invariance == Spec => []Inv
  BY InitInv, NextInv, PTL DEF Spec

\* Counters never leave the range of their type, and add up modulo its size,
\* whatever methods run in whatever order (cache.go:205).
THEOREM IntegersWrap == Spec => []CountersWrap
<1>1. Inv => CountersWrap
  BY DEF Inv, AllWrap, Wraps, CountersWrap
<1> QED
  BY <1>1, Invariance, PTL

\* onEvicted is called once with each item that goes, unless it is disabled
\* meanwhile, and with no other (cache.go:914).
THEOREM ReportedOnce == Spec => []ItemsAreReportedOnce
<1>1. Inv => ItemsAreReportedOnce
  BY DEF Inv
<1> QED
  BY <1>1, Invariance, PTL

\* A goroutine that waits for the lock in DeleteExpired goes on by taking it.
LEMMA ExpireEnds ==
  ASSUME Inv, Next, NEW t \in Threads, threads[t].pc = "expire", threads'[t].pc # "expire"
  PROVE  ExpireLock(t)
<1> SUFFICES ASSUME ~ExpireLock(t)
             PROVE  threads'[t] = threads[t]
  OBVIOUS
<1>1. ASSUME NEW u \in Threads, u # t, NEW step, threads' = [threads EXCEPT ![u] = step]
      PROVE  threads'[t] = threads[t]
  BY <1>1 DEF Inv, TypeOK
<1>2. ASSUME NEW u \in Threads, u # t, NEW keys, Remove(u, keys)
      PROVE  threads'[t] = threads[t]
  BY <1>1, <1>2 DEF Remove
<1>3. ASSUME NEW w \in Workers, Method(w) PROVE threads'[t] = threads[t]
  <2>1. w \in Threads /\ threads[w].pc = "idle" /\ w # t
    BY <1>3 DEF Method, SetStart, Add, Replace, AddOrReplace, Counter, Update, Increment,
       Decrement, IncrementFloat, DecrementFloat, IncrementInteger, DecrementInteger,
       IncrementUnsigned, DecrementUnsigned, IncrementFloating, DecrementFloating, Delete,
       OnEvicted, Load, ExpireStart, Flush, Call, Threads
  <2>2. ASSUME NEW key \in Keys, NEW x \in Writes, SetStart(w, key, x)
        PROVE  threads'[t] = threads[t]
    BY <1>1, <2>1, <2>2 DEF SetStart
  <2>3. ASSUME NEW key \in Keys, Delete(w, key) PROVE threads'[t] = threads[t]
    BY <1>2, <2>1, <2>3 DEF Delete
  <2>4. ASSUME NEW f \in Callbacks \cup {Nil}, OnEvicted(w, f) PROVE threads'[t] = threads[t]
    BY <2>4 DEF OnEvicted
  <2>5. CASE ExpireStart(w)
    BY <1>1, <2>1, <2>5 DEF ExpireStart, Expire
  <2>6. ASSUME NEW key \in Keys, NEW n \in Numbers, Counter(w, key, n) PROVE UNCHANGED threads
    BY <2>6 DEF Counter, Update, Increment, Decrement, IncrementFloat, DecrementFloat,
       IncrementInteger, DecrementInteger, IncrementUnsigned, DecrementUnsigned,
       IncrementFloating, DecrementFloating
  <2> QED
    BY <1>3, <2>2, <2>3, <2>4, <2>5, <2>6 DEF Method, Add, Replace, AddOrReplace, Load, Flush
<1>4. ASSUME NEW w \in Workers, SetLock(w) PROVE threads'[t] = threads[t]
  BY <1>1, <1>4 DEF SetLock, Threads
<1>5. ASSUME NEW u \in Threads, GoOn(u) PROVE threads'[t] = threads[t]
  <2>1. u # t
    BY <1>5 DEF GoOn, Report, ReportPanics
  <2> QED
    BY <1>1, <1>2, <1>5, <2>1 DEF GoOn, ExpireLock, Report, ReportPanics, After
<1>6. CASE JanitorTick \/ JanitorStops
  BY <1>1, <1>6 DEF JanitorTick, Expire, JanitorStops, Threads
<1> QED
  BY <1>3, <1>4, <1>5, <1>6 DEF Next, Stop, Tick

\* The clock that DeleteExpired reads before it locks is never ahead of the one
\* that Get reads, so nothing goes too soon (cache.go:954).
THEOREM OnlyExpiredGo == Spec => OnlyTheExpiredGo
<1>1. ASSUME Inv, [Next]_vars PROVE DeletesTheExpired
  <2> SUFFICES ASSUME NEW t \in Threads, threads[t].pc = "expire", threads'[t].pc # "expire",
                      NEW key \in DOMAIN items \ DOMAIN items'
               PROVE  ~Found(key)
    BY DEF DeletesTheExpired
  <2>1. ExpireLock(t)
    BY <1>1, ExpireEnds DEF vars
  <2>2. Dead(t, key)
    BY <2>1 DEF ExpireLock, Without, Restrict
  <2>3. threads[t].at \in Nat /\ threads[t].at <= now /\ items[key].expiration \in Int
        /\ now \in Nat
    BY <1>1 DEF Inv, TypeOK, Steps, Idle, ItemSet, ClocksArePast
  <2> QED
    BY <2>2, <2>3 DEF Dead, Found
<1> QED
  BY <1>1, Invariance, PTL DEF Spec, OnlyTheExpiredGo

-----------------------------------------------------------------------------
(* The sharded cache.                                                      *)

Stored == [id : Nat, expiration : Nat]

Setting  == [pc : {"set"}, key : Keys, item : Stored]
Flushing == [pc : {"flush"}, bucket : 0 .. NumBuckets, doomed : SUBSET Nat]
Clocking == [pc : {"clock"}, bucket : 0 .. NumBuckets, doomed : SUBSET Nat]
Sweeping == [pc : {"sweep"}, bucket : 0 .. NumBuckets - 1, doomed : SUBSET Nat, at : Nat]

Visiting == Flushing \cup Clocking \cup Sweeping

ShardedTypes(its, at, us, n) ==
  /\ n \in Nat /\ at \in Nat
  /\ DOMAIN its \subseteq Keys /\ \A k \in DOMAIN its : its[k] \in Stored
  /\ us \in [Sharded!Threads -> {Sharded!Idle} \cup Setting \cup Visiting]

\* An item that is about to be stored is of a write of its own, which nobody
\* looks for.
WritesAreNew(its, us, n) ==
  /\ \A k \in DOMAIN its : its[k].id <= n
  /\ \A j, k \in DOMAIN its : its[j].id = its[k].id => j = k
  /\ \A t \in Sharded!Threads : us[t].pc = "set" =>
       /\ us[t].item.id <= n
       /\ \A k \in DOMAIN its : its[k].id # us[t].item.id
       /\ \A u \in Sharded!Threads \ {t} : us[u].pc = "set" => us[u].item.id # us[t].item.id
  /\ \A u \in Sharded!Threads : us[u] \in Visiting =>
       /\ \A id \in us[u].doomed : id <= n
       /\ \A t \in Sharded!Threads : us[t].pc = "set" => us[t].item.id \notin us[u].doomed

\* What is left to remove is in a bucket to come, and had expired when the
\* bucket's clock is read.
DoomedAreAhead(its, at, us) ==
  \A t \in Sharded!Threads, k \in DOMAIN its :
    us[t] \in Visiting /\ its[k].id \in us[t].doomed =>
      /\ us[t].bucket <= Bucket[k]
      /\ us[t].pc # "flush" => its[k].expiration > 0 /\ at > its[k].expiration
      /\ us[t].pc = "sweep" => us[t].at > its[k].expiration

ShardedHolds(its, at, us, n) ==
  /\ ShardedTypes(its, at, us, n)
  /\ WritesAreNew(its, us, n) /\ DoomedAreAhead(its, at, us)

ShardedInv == ShardedHolds(shardItems, time, users, sets)

LEMMA ShardedStart == Sharded!Init => ShardedInv
BY DEF Sharded!Init, ShardedInv, ShardedHolds, ShardedTypes, WritesAreNew, DoomedAreAhead,
   Sharded!Idle, Visiting, Flushing, Clocking, Sweeping

\* Removing items, and going on to the next bucket when there is nothing to
\* remove in this one.
LEMMA RemovingHolds ==
  ASSUME NEW its, NEW at, NEW us, NEW n, ShardedHolds(its, at, us, n),
         NEW fewer, DOMAIN fewer \subseteq DOMAIN its,
         \A k \in DOMAIN fewer : fewer[k] = its[k]
  PROVE  ShardedHolds(fewer, at, us, n)
BY DEF ShardedHolds, ShardedTypes, WritesAreNew, DoomedAreAhead

\* A thread that does something else, but sets no item.
LEMMA MovingHolds ==
  ASSUME NEW its, NEW at, NEW us, NEW n, ShardedHolds(its, at, us, n),
         NEW t \in Sharded!Threads, NEW step \in {Sharded!Idle} \cup Visiting,
         step \in Visiting =>
           /\ \A id \in step.doomed :
                /\ id <= n
                /\ \A u \in Sharded!Threads : us[u].pc = "set" => us[u].item.id # id
           /\ \A k \in DOMAIN its : its[k].id \in step.doomed =>
                /\ step.bucket <= Bucket[k]
                /\ step.pc # "flush" => its[k].expiration > 0 /\ at > its[k].expiration
                /\ step.pc = "sweep" => step.at > its[k].expiration,
         NEW vs, vs = [us EXCEPT ![t] = step]
  PROVE  ShardedHolds(its, at, vs, n)
<1>1. us \in [Sharded!Threads -> {Sharded!Idle} \cup Setting \cup Visiting]
  BY DEF ShardedHolds, ShardedTypes
<1>2. /\ vs \in [Sharded!Threads -> {Sharded!Idle} \cup Setting \cup Visiting]
      /\ vs[t] = step /\ \A u \in Sharded!Threads \ {t} : vs[u] = us[u]
  BY <1>1
<1>3. step.pc # "set"
  BY DEF Sharded!Idle, Visiting, Flushing, Clocking, Sweeping
<1>4. ShardedTypes(its, at, vs, n)
  BY <1>2 DEF ShardedHolds, ShardedTypes
<1>5. WritesAreNew(its, vs, n)
  <2>1. WritesAreNew(its, us, n)
    BY DEF ShardedHolds
  <2>2. \A u \in Sharded!Threads : vs[u].pc = "set" => u # t /\ vs[u] = us[u]
    BY <1>2, <1>3
  <2>3. \A u \in Sharded!Threads : vs[u] \in Visiting =>
          (u = t /\ vs[u] = step) \/ vs[u] = us[u]
    BY <1>2
  <2> QED
    BY <2>1, <2>2, <2>3 DEF WritesAreNew
<1>6. DoomedAreAhead(its, at, vs)
  <2>1. DoomedAreAhead(its, at, us)
    BY DEF ShardedHolds
  <2> QED
    BY <1>2, <2>1 DEF DoomedAreAhead
<1> QED
  BY <1>4, <1>5, <1>6 DEF ShardedHolds

\* Steps of a goroutine that store and remove nothing.
LEMMA ShardedQuiet ==
  ASSUME ShardedInv, NEW t \in Sharded!Threads,
         \/ Sharded!FlushStart(t) \/ Sharded!Sweep(t) \/ Sharded!SweepClock(t) \/ Sharded!Return(t)
  PROVE  ShardedInv'
<1>1. /\ ShardedHolds(shardItems, time, users, sets) /\ WritesAreNew(shardItems, users, sets)
      /\ time \in Nat /\ DOMAIN shardItems \subseteq Keys
      /\ \A k \in DOMAIN shardItems : shardItems[k] \in Stored
      /\ users[t] \in {Sharded!Idle} \cup Setting \cup Visiting
      /\ DoomedAreAhead(shardItems, time, users)
  BY DEF ShardedInv, ShardedHolds, ShardedTypes
<1>2. /\ \A k \in DOMAIN shardItems : Bucket[k] \in 0 .. NumBuckets - 1
      /\ NumBuckets \in Nat
  BY <1>1, ShardedAssumption
<1>3. \A keys \in SUBSET DOMAIN shardItems : \A id \in Sharded!Ids(keys) :
        /\ id \in Nat /\ id <= sets
        /\ \A u \in Sharded!Threads : users[u].pc = "set" => users[u].item.id # id
  BY <1>1 DEF Sharded!Ids, WritesAreNew, Stored
<1>4. ASSUME NEW step \in {Sharded!Idle} \cup Visiting, Sharded!Goto(t, step),
             UNCHANGED <<shardItems, time, sets>>,
             ShardedHolds(shardItems, time, [users EXCEPT ![t] = step], sets)
      PROVE  ShardedInv'
  BY <1>4 DEF Sharded!Goto, ShardedInv
<1>5. CASE Sharded!FlushStart(t)
  <2> DEFINE step == [pc |-> "flush", bucket |-> 0, doomed |-> Sharded!Ids(DOMAIN shardItems)]
  <2>1. step \in Flushing
    BY <1>2, <1>3 DEF Flushing
  <2>2. /\ \A id \in step.doomed :
             /\ id <= sets
             /\ \A u \in Sharded!Threads : users[u].pc = "set" => users[u].item.id # id
        /\ step.bucket = 0 /\ step.pc = "flush"
    BY <1>3
  <2>3. Sharded!Goto(t, step) /\ UNCHANGED <<shardItems, time, sets>>
    BY <1>5 DEF Sharded!FlushStart
  <2> HIDE DEF step
  <2>4. step \in Visiting
    BY <2>1 DEF Visiting
  <2>5. ShardedHolds(shardItems, time, [users EXCEPT ![t] = step], sets)
    BY <1>1, <1>2, <2>2, <2>4, MovingHolds
  <2> QED
    BY <1>4, <2>3, <2>4, <2>5
<1>6. CASE Sharded!Sweep(t)
  <2> DEFINE dead == Sharded!DeadAt(DOMAIN shardItems, time)
             step == [pc |-> "clock", bucket |-> 0, doomed |-> Sharded!Ids(dead)]
  <2>1. dead \subseteq DOMAIN shardItems
        /\ \A k \in dead : shardItems[k].expiration > 0 /\ time > shardItems[k].expiration
    BY DEF Sharded!DeadAt
  <2>2. Sharded!Goto(t, step) /\ UNCHANGED <<shardItems, time, sets>>
    BY <1>6 DEF Sharded!Sweep
  <2>3. step \in Clocking
    BY <1>2, <1>3, <2>1 DEF Clocking
  <2>4. \A k \in DOMAIN shardItems : shardItems[k].id \in Sharded!Ids(dead) => k \in dead
    BY <1>1, <2>1 DEF Sharded!Ids, WritesAreNew
  <2>5. \A id \in Sharded!Ids(dead) :
           /\ id <= sets
           /\ \A u \in Sharded!Threads : users[u].pc = "set" => users[u].item.id # id
    BY <1>3, <2>1
  <2>6. step.bucket = 0 /\ step.pc = "clock" /\ step.doomed = Sharded!Ids(dead)
    OBVIOUS
  <2> HIDE DEF step, dead
  <2>7. step \in Visiting
    BY <2>3 DEF Visiting
  <2>8. ShardedHolds(shardItems, time, [users EXCEPT ![t] = step], sets)
    BY <1>1, <1>2, <2>1, <2>4, <2>5, <2>6, <2>7, MovingHolds
  <2> QED
    BY <1>4, <2>2, <2>7, <2>8
<1>7. CASE Sharded!SweepClock(t)
  <2> DEFINE step == [pc |-> "sweep", bucket |-> users[t].bucket, doomed |-> users[t].doomed,
                      at |-> time]
  <2>1. users[t] \in Clocking /\ users[t].bucket < NumBuckets /\ users[t] \in Visiting
    BY <1>1, <1>7 DEF Sharded!SweepClock, Sharded!InBucket, Sharded!Idle, Setting, Visiting,
                      Flushing, Clocking, Sweeping
  <2>2. step \in Sweeping
    BY <1>1, <1>2, <2>1 DEF Clocking, Sweeping
  <2>3. Sharded!Goto(t, step) /\ UNCHANGED <<shardItems, time, sets>>
    BY <1>7 DEF Sharded!SweepClock
  <2>4. /\ step.bucket = users[t].bucket /\ step.doomed = users[t].doomed /\ step.at = time
        /\ users[t].pc # "flush"
    BY <2>1 DEF Clocking
  <2> HIDE DEF step
  <2>5. step \in Visiting
    BY <2>2 DEF Visiting
  <2>6. /\ \A id \in step.doomed :
             /\ id <= sets
             /\ \A u \in Sharded!Threads : users[u].pc = "set" => users[u].item.id # id
        /\ \A k \in DOMAIN shardItems : shardItems[k].id \in step.doomed =>
             /\ step.bucket <= Bucket[k]
             /\ shardItems[k].expiration > 0 /\ time > shardItems[k].expiration
             /\ step.at > shardItems[k].expiration
    BY <1>1, <2>1, <2>4 DEF WritesAreNew, DoomedAreAhead
  <2>7. ShardedHolds(shardItems, time, [users EXCEPT ![t] = step], sets)
    BY <1>1, <2>5, <2>6, MovingHolds
  <2> QED
    BY <1>4, <2>3, <2>5, <2>7
<1>8. CASE Sharded!Return(t)
  <2>1. Sharded!Goto(t, Sharded!Idle) /\ UNCHANGED <<shardItems, time, sets>>
    BY <1>8 DEF Sharded!Return
  <2>2. Sharded!Idle \notin Visiting
    BY DEF Sharded!Idle, Visiting, Flushing, Clocking, Sweeping
  <2>3. ShardedHolds(shardItems, time, [users EXCEPT ![t] = Sharded!Idle], sets)
    BY <1>1, <2>2, MovingHolds
  <2> QED
    BY <1>4, <2>1, <2>3
<1> QED
  BY <1>5, <1>6, <1>7, <1>8

\* A bucket that is done has nothing that is to be removed.
LEMMA BucketDone ==
  ASSUME ShardedInv, NEW t \in Sharded!Threads, users[t].pc \in {"flush", "sweep"},
         NEW gone \in SUBSET DOMAIN shardItems, shardItems' = Sharded!Without(gone),
         \A k \in DOMAIN shardItems :
           Bucket[k] = users[t].bucket /\ shardItems[k].id \in users[t].doomed => k \in gone,
         NEW step \in Flushing \cup Clocking, Sharded!Goto(t, step), UNCHANGED <<time, sets>>,
         users[t].bucket < NumBuckets, users[t].pc = "flush" <=> step.pc = "flush",
         step.bucket = users[t].bucket + 1, step.doomed = users[t].doomed
  PROVE  ShardedInv'
<1> DEFINE its == shardItems'
<1>1. /\ ShardedHolds(shardItems, time, users, sets) /\ WritesAreNew(shardItems, users, sets)
      /\ users[t] \in {Sharded!Idle} \cup Setting \cup Visiting
      /\ DoomedAreAhead(shardItems, time, users)
      /\ \A k \in DOMAIN shardItems : Bucket[k] \in Nat
  BY ShardedAssumption DEF ShardedInv, ShardedHolds, ShardedTypes
<1>2. DOMAIN its \subseteq DOMAIN shardItems \ gone /\ \A k \in DOMAIN its : its[k] = shardItems[k]
  BY DEF Sharded!Without, Sharded!Restrict
<1> HIDE DEF its
<1>3. users[t] \in Visiting /\ users[t].bucket \in Nat
  BY <1>1, ShardedAssumption DEF Sharded!Idle, Setting, Visiting, Flushing, Clocking, Sweeping
<1>4. ShardedHolds(its, time, users, sets)
  BY <1>1, <1>2, RemovingHolds
<1>5. step \in Visiting /\ step.pc # "sweep"
  BY DEF Visiting, Flushing, Clocking
<1>6. \A id \in step.doomed :
        /\ id <= sets
        /\ \A u \in Sharded!Threads : users[u].pc = "set" => users[u].item.id # id
  BY <1>1, <1>3 DEF WritesAreNew
<1>7. \A k \in DOMAIN its : its[k].id \in step.doomed =>
        /\ step.bucket <= Bucket[k]
        /\ step.pc # "flush" => its[k].expiration > 0 /\ time > its[k].expiration
  <2> SUFFICES ASSUME NEW k \in DOMAIN its, its[k].id \in step.doomed
               PROVE  /\ step.bucket <= Bucket[k]
                      /\ step.pc # "flush" => its[k].expiration > 0 /\ time > its[k].expiration
    OBVIOUS
  <2>1. /\ k \in DOMAIN shardItems /\ k \notin gone /\ its[k] = shardItems[k]
        /\ shardItems[k].id \in users[t].doomed
    BY <1>2
  <2>2. /\ users[t].bucket <= Bucket[k]
        /\ users[t].pc # "flush" =>
             shardItems[k].expiration > 0 /\ time > shardItems[k].expiration
    BY <1>1, <1>3, <2>1 DEF DoomedAreAhead
  <2>3. Bucket[k] # users[t].bucket /\ Bucket[k] \in Nat
    BY <1>1, <2>1
  <2> QED
    BY <1>3, <2>1, <2>2, <2>3
<1>8. ShardedHolds(its, time, [users EXCEPT ![t] = step], sets)
  BY <1>4, <1>5, <1>6, <1>7, MovingHolds
<1> QED
  BY <1>8 DEF Sharded!Goto, ShardedInv, its

LEMMA ShardedRemoves ==
  ASSUME ShardedInv, NEW t \in Sharded!Threads, Sharded!FlushBucket(t) \/ Sharded!SweepBucket(t)
  PROVE  ShardedInv'
<1>1. /\ users[t] \in {Sharded!Idle} \cup Setting \cup Visiting
      /\ DoomedAreAhead(shardItems, time, users) /\ NumBuckets \in Nat
  BY ShardedAssumption DEF ShardedInv, ShardedHolds, ShardedTypes
<1>2. CASE Sharded!FlushBucket(t)
  <2> DEFINE step == [users[t] EXCEPT !.bucket = @ + 1]
             gone == Sharded!KeysOf(users[t].bucket)
  <2>1. users[t] \in Flushing /\ users[t].bucket < NumBuckets
    BY <1>1, <1>2 DEF Sharded!FlushBucket, Sharded!InBucket, Sharded!Idle, Setting, Visiting,
                      Flushing, Clocking, Sweeping
  <2>2. /\ step \in Flushing /\ step.bucket = users[t].bucket + 1 /\ step.pc = "flush"
        /\ step.doomed = users[t].doomed /\ users[t].pc = "flush"
    BY <1>1, <2>1 DEF Flushing
  <2>3. shardItems' = Sharded!Without(gone) /\ Sharded!Goto(t, step) /\ UNCHANGED <<time, sets>>
    BY <1>2 DEF Sharded!FlushBucket
  <2>4. gone \subseteq DOMAIN shardItems /\
        \A k \in DOMAIN shardItems : Bucket[k] = users[t].bucket => k \in gone
    BY DEF Sharded!KeysOf
  <2> HIDE DEF step, gone
  <2> QED
    BY <2>1, <2>2, <2>3, <2>4, BucketDone
<1>3. CASE Sharded!SweepBucket(t)
  <2> DEFINE step == [pc |-> "clock", doomed |-> users[t].doomed, bucket |-> users[t].bucket + 1]
             gone == Sharded!DeadAt(Sharded!KeysOf(users[t].bucket), users[t].at)
  <2>1. users[t] \in Sweeping /\ users[t] \in Visiting
    BY <1>1, <1>3 DEF Sharded!SweepBucket, Sharded!Idle, Setting, Visiting,
                      Flushing, Clocking, Sweeping
  <2>2. /\ step \in Clocking /\ step.bucket = users[t].bucket + 1 /\ step.pc = "clock"
        /\ step.doomed = users[t].doomed /\ users[t].pc = "sweep" /\ users[t].bucket < NumBuckets
    BY <1>1, <2>1 DEF Clocking, Sweeping
  <2>3. shardItems' = Sharded!Without(gone) /\ Sharded!Goto(t, step) /\ UNCHANGED <<time, sets>>
    BY <1>3 DEF Sharded!SweepBucket
  <2>4. gone \subseteq DOMAIN shardItems
    BY DEF Sharded!KeysOf, Sharded!DeadAt
  <2>5. \A k \in DOMAIN shardItems :
          Bucket[k] = users[t].bucket /\ shardItems[k].id \in users[t].doomed => k \in gone
    BY <1>1, <2>1, <2>2 DEF Sharded!KeysOf, Sharded!DeadAt, DoomedAreAhead
  <2> HIDE DEF step, gone
  <2> QED
    BY <2>2, <2>3, <2>4, <2>5, BucketDone
<1> QED
  BY <1>2, <1>3

LEMMA ShardedSetStart ==
  ASSUME ShardedInv, NEW t \in Sharded!Threads, NEW key \in Keys, NEW life \in Lives,
         Sharded!SetStart(t, key, life)
  PROVE  ShardedInv'
<1> DEFINE item == [id |-> sets + 1, expiration |-> IF life > 0 THEN time + life ELSE 0]
           step == [pc |-> "set", key |-> key, item |-> item]
<1>1. /\ ShardedTypes(shardItems, time, users, sets) /\ WritesAreNew(shardItems, users, sets)
      /\ DoomedAreAhead(shardItems, time, users) /\ time \in Nat /\ sets \in Nat
      /\ users \in [Sharded!Threads -> {Sharded!Idle} \cup Setting \cup Visiting]
      /\ \A k \in DOMAIN shardItems : shardItems[k].id \in Nat
  BY DEF ShardedInv, ShardedHolds, ShardedTypes, Stored
<1>2. step \in Setting /\ step.pc = "set" /\ step.item.id = sets + 1
  BY <1>1, ShardedAssumption DEF Setting, Stored
<1>3. Sharded!Goto(t, step) /\ sets' = sets + 1 /\ UNCHANGED <<shardItems, time>>
  BY DEF Sharded!SetStart
<1> HIDE DEF item, step
<1>4. /\ users' \in [Sharded!Threads -> {Sharded!Idle} \cup Setting \cup Visiting]
      /\ users'[t] = step /\ \A u \in Sharded!Threads \ {t} : users'[u] = users[u]
  BY <1>1, <1>2, <1>3 DEF Sharded!Goto
<1>5. step \notin Visiting
  BY <1>2 DEF Visiting, Flushing, Clocking, Sweeping
<1>6. \A u \in Sharded!Threads : users[u] \in Visiting => \A id \in users[u].doomed : id \in Nat
  BY DEF Visiting, Flushing, Clocking, Sweeping
<1>7. \A u \in Sharded!Threads : users[u].pc = "set" => users[u].item.id \in Nat
  BY <1>1 DEF Sharded!Idle, Setting, Stored, Visiting, Flushing, Clocking, Sweeping
<1>8. ShardedTypes(shardItems, time, users', sets')
  BY <1>1, <1>3, <1>4 DEF ShardedTypes
<1>9. WritesAreNew(shardItems, users', sets')
  BY <1>1, <1>2, <1>3, <1>4, <1>5, <1>6, <1>7 DEF WritesAreNew
<1>10. DoomedAreAhead(shardItems, time, users')
  BY <1>1, <1>4, <1>5 DEF DoomedAreAhead
<1> QED
  BY <1>3, <1>8, <1>9, <1>10 DEF ShardedInv, ShardedHolds

LEMMA ShardedSetLock ==
  ASSUME ShardedInv, NEW t \in Sharded!Threads, Sharded!SetLock(t)
  PROVE  ShardedInv'
<1> DEFINE key  == users[t].key
           item == users[t].item
           its  == shardItems'
           us   == users'
<1>1. /\ ShardedTypes(shardItems, time, users, sets) /\ WritesAreNew(shardItems, users, sets)
      /\ DoomedAreAhead(shardItems, time, users)
      /\ users \in [Sharded!Threads -> {Sharded!Idle} \cup Setting \cup Visiting]
      /\ users[t].pc = "set"
  BY DEF ShardedInv, ShardedHolds, ShardedTypes, Sharded!SetLock
<1>2. key \in Keys /\ item \in Stored
  BY <1>1 DEF Sharded!Idle, Setting, Visiting, Flushing, Clocking, Sweeping
<1>3. /\ DOMAIN its = DOMAIN shardItems \cup {key}
      /\ \A k \in DOMAIN its : its[k] = IF k = key THEN item ELSE shardItems[k]
      /\ Sharded!Goto(t, Sharded!Idle) /\ UNCHANGED <<time, sets>>
  BY DEF Sharded!SetLock, Sharded!With
<1>4. /\ us \in [Sharded!Threads -> {Sharded!Idle} \cup Setting \cup Visiting]
      /\ us[t] = Sharded!Idle /\ \A u \in Sharded!Threads \ {t} : us[u] = users[u]
  BY <1>1, <1>3 DEF Sharded!Goto
<1>5. Sharded!Idle \notin Visiting /\ Sharded!Idle.pc # "set"
  BY DEF Sharded!Idle, Visiting, Flushing, Clocking, Sweeping
<1> HIDE DEF key, its, us
<1>6. ShardedTypes(its, time, us, sets)
  BY <1>1, <1>2, <1>3, <1>4 DEF ShardedTypes
<1>7. \A u \in Sharded!Threads : us[u].pc = "set" => u # t /\ us[u] = users[u]
  BY <1>4, <1>5
<1>8. \A u \in Sharded!Threads : us[u] \in Visiting => u # t /\ us[u] = users[u]
  BY <1>4, <1>5
<1>9. WritesAreNew(its, us, sets)
  BY <1>1, <1>3, <1>7, <1>8 DEF WritesAreNew
<1>10. DoomedAreAhead(its, time, us)
  <2> SUFFICES ASSUME NEW u \in Sharded!Threads, NEW k \in DOMAIN its,
                      us[u] \in Visiting, its[k].id \in us[u].doomed
               PROVE  /\ us[u].bucket <= Bucket[k]
                      /\ us[u].pc # "flush" => its[k].expiration > 0 /\ time > its[k].expiration
                      /\ us[u].pc = "sweep" => us[u].at > its[k].expiration
    BY DEF DoomedAreAhead
  <2>1. us[u] = users[u] /\ item.id \notin users[u].doomed
    BY <1>1, <1>8 DEF WritesAreNew
  <2>2. k \in DOMAIN shardItems /\ its[k] = shardItems[k]
    BY <1>3, <2>1
  <2> QED
    BY <1>1, <2>1, <2>2 DEF DoomedAreAhead
<1> QED
  BY <1>3, <1>6, <1>9, <1>10 DEF ShardedInv, ShardedHolds, its, us

LEMMA ShardedStep == ShardedInv /\ [Sharded!Next]_Sharded!vars => ShardedInv'
<1> SUFFICES ASSUME ShardedInv, [Sharded!Next]_Sharded!vars PROVE ShardedInv'
  OBVIOUS
<1>1. ASSUME NEW t \in Sharded!Threads, NEW key \in Keys, Sharded!Delete(t, key)
      PROVE  ShardedInv'
  <2> DEFINE its == shardItems'
  <2>1. DOMAIN its \subseteq DOMAIN shardItems /\ \A k \in DOMAIN its : its[k] = shardItems[k]
    BY <1>1 DEF Sharded!Delete, Sharded!Without, Sharded!Restrict
  <2> HIDE DEF its
  <2>2. ShardedHolds(its, time, users, sets)
    BY <2>1, RemovingHolds DEF ShardedInv
  <2> QED
    BY <1>1, <2>2 DEF Sharded!Delete, ShardedInv, its
<1>2. ASSUME Sharded!Tick PROVE ShardedInv'
  <2>1. ShardedHolds(shardItems, time, users, sets) /\ time \in Nat
    BY DEF ShardedInv, ShardedHolds, ShardedTypes
  <2>2. \A k \in DOMAIN shardItems : shardItems[k].expiration \in Nat
    BY <2>1 DEF ShardedHolds, ShardedTypes, Stored
  <2>3. ShardedHolds(shardItems, time + 1, users, sets)
    BY <2>1, <2>2 DEF ShardedHolds, ShardedTypes, WritesAreNew, DoomedAreAhead
  <2> QED
    BY <1>2, <2>3 DEF Sharded!Tick, ShardedInv
<1>3. ASSUME NEW t \in Users, Sharded!Method(t) PROVE ShardedInv'
  BY <1>1, <1>3, ShardedSetStart, ShardedQuiet
  DEF Sharded!Method, Sharded!Threads, Sharded!SweepStart
<1>4. ASSUME NEW t \in Sharded!Threads, Sharded!GoOn(t) PROVE ShardedInv'
  BY <1>4, ShardedSetLock, ShardedRemoves, ShardedQuiet DEF Sharded!GoOn
<1>5. ASSUME Sharded!JanitorTick PROVE ShardedInv'
  BY <1>5, ShardedQuiet DEF Sharded!JanitorTick, Sharded!Threads
<1>6. ASSUME \/ Sharded!JanitorStart \/ Sharded!JanitorStops \/ Sharded!Stop
             \/ UNCHANGED Sharded!vars
      PROVE  ShardedInv'
  BY <1>6 DEF Sharded!JanitorStart, Sharded!JanitorStops, Sharded!Stop, Sharded!vars, ShardedInv
<1> QED
  BY <1>2, <1>3, <1>4, <1>5, <1>6 DEF Sharded!Next

\* DeleteExpired and Flush miss no bucket (sharded.go:101, 120): what had expired
\* when a sweep began is gone when it returns, for any number of buckets and
\* of goroutines that set, delete and sweep meanwhile.
THEOREM NothingIsMissed == Sharded!Spec => SweepsAreWhole
<1>1. ShardedInv /\ [Sharded!Next]_Sharded!vars => [Sharded!SweptIsGone]_Sharded!vars
  <2> SUFFICES ASSUME ShardedInv, Sharded!Next PROVE Sharded!SweptIsGone
    OBVIOUS
  <2> SUFFICES ASSUME NEW t \in Sharded!Threads, users[t].pc \in {"flush", "clock"},
                      users'[t].pc = "idle"
               PROVE  users[t].doomed \cap Sharded!Ids(DOMAIN shardItems) = {}
    BY DEF Sharded!SweptIsGone
  <2>1. users[t] \in Flushing \cup Clocking /\ users[t] \in Visiting
    BY DEF ShardedInv, ShardedHolds, ShardedTypes, Sharded!Idle, Setting, Visiting,
           Flushing, Clocking, Sweeping
  <2>2. users[t].bucket = NumBuckets
    <3>1. /\ users \in [Sharded!Threads -> {Sharded!Idle} \cup Setting \cup Visiting]
          /\ users'[t] # users[t] /\ users[t].pc \notin {"idle", "set", "sweep"}
      BY DEF ShardedInv, ShardedHolds, ShardedTypes
    <3>2. \A u \in Sharded!Threads : \A step : Sharded!Goto(u, step) => u = t /\ step.pc = "idle"
      BY <3>1 DEF Sharded!Goto
    <3>3. ASSUME NEW u \in Users, Sharded!Method(u) PROVE FALSE
      BY <3>1, <3>2, <3>3 DEF Sharded!Method, Sharded!SetStart, Sharded!Delete, Sharded!FlushStart,
         Sharded!SweepStart, Sharded!Sweep, Sharded!Call, Sharded!Threads
    <3>4. ASSUME NEW u \in Sharded!Threads, Sharded!GoOn(u) PROVE Sharded!Return(t)
      <4>1. ~Sharded!SetLock(u)
        BY <3>1, <3>2 DEF Sharded!SetLock
      <4>2. ~Sharded!FlushBucket(u)
        <5>1. ASSUME Sharded!FlushBucket(u) PROVE FALSE
          <6>1. u = t /\ [users[t] EXCEPT !.bucket = @ + 1].pc = "idle"
            BY <3>2, <5>1 DEF Sharded!FlushBucket
          <6> QED
            BY <2>1, <3>1, <6>1 DEF Flushing, Clocking
        <5> QED
          BY <5>1
      <4>3. ~Sharded!SweepClock(u) /\ ~Sharded!SweepBucket(u)
        BY <3>1, <3>2 DEF Sharded!SweepClock, Sharded!SweepBucket
      <4>4. Sharded!Return(u) => u = t
        BY <3>2 DEF Sharded!Return
      <4> QED
        BY <3>4, <4>1, <4>2, <4>3, <4>4 DEF Sharded!GoOn
    <3>5. ~Sharded!JanitorTick
      BY <3>1, <3>2 DEF Sharded!JanitorTick, Sharded!Sweep, Sharded!Threads
    <3>6. ~Sharded!JanitorStart /\ ~Sharded!JanitorStops /\ ~Sharded!Stop /\ ~Sharded!Tick
      BY <3>1 DEF Sharded!JanitorStart, Sharded!JanitorStops, Sharded!Stop, Sharded!Tick
    <3>7. Sharded!Return(t)
      BY <3>3, <3>4, <3>5, <3>6 DEF Sharded!Next
    <3> QED
      BY <3>7 DEF Sharded!Return
  <2>3. \A k \in DOMAIN shardItems : Bucket[k] \in 0 .. NumBuckets - 1 /\ NumBuckets \in Nat
    BY ShardedAssumption DEF ShardedInv, ShardedHolds, ShardedTypes
  <2> QED
    BY <2>1, <2>2, <2>3 DEF ShardedInv, ShardedHolds, DoomedAreAhead, Sharded!Ids
<1> QED
  BY <1>1, ShardedStart, ShardedStep, PTL DEF Sharded!Spec, SweepsAreWhole, Sharded!SweepsAreWhole
=============================================================================
