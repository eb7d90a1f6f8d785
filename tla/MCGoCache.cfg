SPECIFICATION MCFairSpec
CONSTANTS
  k1 = k1
  k2 = k2
  Workers = {w1, w2}
  Janitor = janitor
  Keys = {k1, k2}
  WordSize = 4
  Numbers = {1}
  Writes <- Objects
  DefaultExpiration = 1
  Callbacks = {f}
  Nil = nil
  Dumps <- Files
  MaxClock = 3
  MaxOps = 4
  Users = {u1}
  NumBuckets = 3
  Bucket <- Buckets
  Lives = {0, 1}
  MaxTime = 3
  MaxSets = 2
CHECK_DEADLOCK FALSE
INVARIANTS
  ItemsAreReportedOnce
  CountersWrap
PROPERTIES
  OnlyTheExpiredGo
  SweepsAreWhole
  StopsReturn
