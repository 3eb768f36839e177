SPECIFICATION Spec
CONSTANTS
  Conns = {c1, c2, c3}
  NoConn = NoConn
  Fds = {5, 6}
  NThreads = 2
CHECK_DEADLOCK FALSE
INVARIANTS OneHome WatchedIffPolling NoLostWakeup DescriptorsOwned NoStaleWork Balanced
PROPERTIES LifecycleKept HandoffCompletes EventServed ActiveStepped
