SPECIFICATION Spec
CONSTANTS
  Scripts <- AllScripts
  Segments = {"frames", "split", "pipelined", "any"}
CHECK_DEADLOCK FALSE
INVARIANTS HandledInOrder NoStreamAfterGoaway CompleteFrames
PROPERTIES LoopEnds EveryFrameHandled
