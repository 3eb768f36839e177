CONSTANTS
  Keys = {1, 2, 3, 4, 5, 6, 7}
  KeyLen <- KeyLengths
  Values = {u, v}
  None = None
  ListHead = ListHead
  Nil = Nil
  NewList = NewList
  Threads = {t1, t2}
  Names = {n1, n2}
  MaxCalls = 2
  Len4 = 2
  Len6 = 6
  ByteLen = 2
  Mapped = {3, 4}
  Entries <- AccessEntries
  MaxEntries = 2
  Vectors <- MCVectors
  Modules = {"a", "b", "c"}
  Disks <- ModuleFiles
  MaxLoads = 3
  MaxDepth = 6
  Alphabets <- Scanned
  MaxText = 6
  MaxHeader = 5
  Chars = {"a", " "}
  Texts <- Strings
  Given <- FirstTexts
  Extra = 1
  MaxLen = 9
  MaxEdits = 2
SPECIFICATION LibrarySpec
VIEW Shape
CHECK_DEADLOCK FALSE
INVARIANT SkippedWasSent
