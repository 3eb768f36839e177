SPECIFICATION Spec
CONSTANTS
  Scripts <- KnownScripts
  Segments = {"split"}
CHECK_DEADLOCK FALSE
PROPERTY SplitLoopEnds
