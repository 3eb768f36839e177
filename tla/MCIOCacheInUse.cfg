CONSTANTS
  Keys = {f, k1, k2, k3, k4}
  NoKey = NoKey
  File = f
  Clients = {a, b}
  MaxSize = 4
  Sizes = {0, 1}
  MinFileSize = 1
  MaxFileSize = 1
SPECIFICATION IOSpec
SYMMETRY Interchangeable
CHECK_DEADLOCK FALSE
INVARIANT MapInUseKept
