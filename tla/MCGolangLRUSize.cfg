SPECIFICATION Spec
CONSTANTS
  Keys = {k1, k2}
  Values = {u, v}
  Nil = nil
  InitSize = 2
  Sizes = {1, 3}
  Size = 1
  RecentSizes = {0}
  GhostSize = 2
INVARIANTS
  ARCHoldsItsSize
