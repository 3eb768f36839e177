SPECIFICATION ReadingClientSpec
CONSTANTS
  TLSModes = {FALSE}
  Streams = {1, 3}
  FrameTypes = {"SYN_STREAM", "GOAWAY", "RST_STREAM"}
  MaxFrames = 3
  Room = 1
CHECK_DEADLOCK FALSE
PROPERTY OutputDrains
