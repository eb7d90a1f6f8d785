SPECIFICATION Spec
CONSTANTS
  Keys = {k1, k2, k3, k4, k5}
  Values = {u, v}
  Nil = nil
  InitSize = 2
  Sizes = {1, 3}
  Size = 2
  RecentSizes = {0, 1, 2}
  GhostSize = 2
SYMMETRY KeySymmetry
INVARIANTS
  KeysAreInOneList
  LRUOrderIsRecency
  TwoQueueFrequentIsEarned
  ARCTargetInRange
PROPERTIES
  LRUEvictionsAreReported
  TwoQueueBurstsAreHarmless
  KeepsPromise
