CONSTANTS
  Keys = {k1, k2, k3, k4, k5, k6, k7, k8, k9}
  NoKey = NoKey
  Clients = {a, b}
  MaxSize = 4
SPECIFICATION Spec
VIEW Shape
CHECK_DEADLOCK FALSE
INVARIANT FullCacheHasGhosts
