SPECIFICATION Spec
CONSTANTS
  Scripts <- KnownScripts
  Segments = {"pipelined"}
CHECK_DEADLOCK FALSE
INVARIANT NothingSkipped
