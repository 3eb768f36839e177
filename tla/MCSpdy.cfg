SPECIFICATION ReadingClientSpec
CONSTANTS
  TLSModes = {TRUE, FALSE}
  Streams = {1, 3, 5}
  FrameTypes = {"SYN_STREAM", "GOAWAY", "RST_STREAM", "MALFORMED"}
  MaxFrames = 3
  Room = 3
CHECK_DEADLOCK FALSE
INVARIANTS WireFifo SendsSomething ReplyNamesItsStream AnsweredOnce
PROPERTIES SslRetryStable PeerGoneFreed SynAnswered
