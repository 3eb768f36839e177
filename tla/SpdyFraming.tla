----------------------------- MODULE SpdyFraming -----------------------------
(***************************************************************************)
(* How connection-spdy.c cuts the bytes it reads into SPDY frames:          *)
(* spdy_process_buffer, spdy_process_frame, the frame handlers and          *)
(* http2d_buffer_move_to_begin, down to the position arithmetic and to what *)
(* lies in the buffer's memory behind its length.                           *)
(*                                                                         *)
(* The unit is a word of four bytes: a frame header is two words, the test  *)
(* "len < 12" is three.  A memory cell holds the index of the stream word   *)
(* that was last copied into it.  The terminating zero that move_to_begin   *)
(* copies hits the top byte of a stale word only, which every reader masks. *)
(***************************************************************************)
EXTENDS Integers, Sequences

CONSTANTS
  Scripts,   \* the frame sequences a peer may send
  Segments   \* how a peer's bytes may be cut into reads

\* Words of a frame, header included.
Words(type) == IF type = "SYN_STREAM" THEN 6 ELSE IF type = "PING" THEN 3 ELSE 4

HeadWords == 2

\* A frame and the word of the peer's stream at which it starts.
Frames == [type : {"SYN_STREAM", "RST_STREAM", "GOAWAY", "PING"}, start : Nat]

\* The frames of a stream follow each other from its first word on, with
\* nothing between them.
ASSUME ScriptsAssumption ==
  \A s \in Scripts :
    /\ s \in Seq(Frames) /\ Len(s) >= 1 /\ s[1].start = 1
    /\ \A i \in 1..(Len(s) - 1) : s[i + 1].start = s[i].start + Words(s[i].type)
ASSUME SegmentsAssumption == Segments \subseteq {"frames", "split", "pipelined", "any"}

VARIABLES
  script,      \* the frames this peer sends
  segments,    \* how its bytes are cut into reads
  arrived,     \* number of stream words read so far
  mem,         \* memory of conn->buffer_read: stream word in each cell
  len,         \* buffer_read.len
  pos,         \* local pos of spdy_process_buffer
  pc,          \* where the worker is with this connection
  going_away,  \* conn->going_away
  in_sync,     \* zst_inflate was fed nothing but header blocks
  handled,     \* history: frames dispatched to their handler, in order
  whole        \* history: each of them lay within the buffer's length

vars == <<script, segments, arrived, mem, len, pos, pc, going_away,
          in_sync, handled, whole>>

\* The stream word behind frame k; the number of words of the stream.
EndOf(k) == script[k].start + Words(script[k].type)
Total    == EndOf(Len(script)) - 1

\* Cells are numbered from 0; a cell never written holds 0.
Cell(i) == IF i \in DOMAIN mem THEN mem[i] ELSE 0

\* The frames whose header http2d_spdy_read_ctrl finds at position p.
HeaderAt(p) == {k \in DOMAIN script : /\ Cell(p)     = script[k].start
                                      /\ Cell(p + 1) = script[k].start + 1}

\* buf->len and the frame length are compared as unsigned integers: 2^32 bytes
\* are 2^30 words.
Unsigned(n) == n % 1073741824

-----------------------------------------------------------------------------
(* http2d_socket_read_buf: n more words behind the ones already there. *)

BodyLeft == {EndOf(k) - 1 - arrived : k \in DOMAIN script}

\* A read ends at the end of a frame, or within the first two words of one, or,
\* of a split stream, anywhere; it may hold several frames of a pipelined one.
Deliverable(n) ==
  /\ n \in 1..(Total - arrived)
  /\ segments \in {"split", "any"} \/ n \in BodyLeft \/ (len = 0 /\ n < 3)
  /\ segments \in {"pipelined", "any"} \/ ~\E m \in BodyLeft : m \in 1..(n - 1)

Read(n) ==
  /\ pc = "read" /\ ~going_away
  /\ Deliverable(n)
  /\ arrived' = arrived + n
  /\ len' = len + n
  /\ mem' = [i \in 0..(len + n - 1) \cup DOMAIN mem |->
               IF i \in len..(len + n - 1) THEN arrived + 1 + i - len
               ELSE mem[i]]
  /\ pos' = 0
  /\ pc' = IF len' < 3 THEN "read" ELSE "frame"
  /\ UNCHANGED <<script, segments, going_away, in_sync, handled, whole>>

-----------------------------------------------------------------------------
(* One turn of the loop of spdy_process_buffer. *)

\* http2d_buffer_move_to_begin (buf, p); the loop goes on while len > 8 bytes,
\* with pos as the frame left it.
MoveToBegin(p) ==
  /\ IF p >= len
     THEN len' = 0 /\ UNCHANGED mem
     ELSE /\ len' = len - p
          /\ mem' = [i \in DOMAIN mem |->
                       IF i < len - p THEN mem[i + p] ELSE mem[i]]
  /\ pc' = IF len' > HeadWords THEN "frame" ELSE "read"

\* Mutant: ctrl.length is taken to include the frame header.
IncompleteByHead(k) == Words(script[k].type) > Unsigned(len - (pos + HeadWords))

\* Mutant: the test for a complete frame is missing.
IncompleteNever(k) == FALSE

\* "Is the frame complete?"
Incomplete(k) ==
  Words(script[k].type) - HeadWords > Unsigned(len - (pos + HeadWords))

\* spdy_process_frame returns ret_ok and pos as it was.
FrameIncomplete ==
  /\ pc = "frame"
  /\ \E k \in HeaderAt(pos) : Incomplete(k)
  /\ MoveToBegin(pos)
  /\ UNCHANGED <<script, segments, arrived, pos, going_away, in_sync, handled, whole>>

Dispatched(k, type) ==
  /\ pc = "frame"
  /\ k \in HeaderAt(pos) /\ ~Incomplete(k) /\ script[k].type = type

\* Mutant: the handler does not add ctrl->length to pos.
HandledNotSkipped(k) ==
  /\ handled' = Append(handled, k)
  /\ whole'   = (whole /\ pos + Words(script[k].type) <= len)
  /\ MoveToBegin(pos)
  /\ UNCHANGED pos

\* A handler that took its frame and returned ret_ok.
Handled(k) ==
  /\ handled' = Append(handled, k)
  /\ whole'   = (whole /\ pos + Words(script[k].type) <= len)
  /\ pos'     = pos + Words(script[k].type)
  /\ MoveToBegin(pos')

handle_SPDY_RST_STREAM(k) ==
  /\ Dispatched(k, "RST_STREAM")
  /\ Handled(k)
  /\ UNCHANGED <<script, segments, arrived, going_away, in_sync>>

\* The connection goes to its shutdown phase, which reads no more frames; the
\* loop over the buffer goes on.
handle_SPDY_GOAWAY(k) ==
  /\ Dispatched(k, "GOAWAY")
  /\ Handled(k)
  /\ going_away' = TRUE
  /\ UNCHANGED <<script, segments, arrived, in_sync>>

\* "GO_AWAY received? Ignore it.": the body is not skipped.
SynIgnored(k) ==
  /\ Dispatched(k, "SYN_STREAM") /\ going_away
  /\ pos' = pos + HeadWords
  /\ MoveToBegin(pos')
  /\ UNCHANGED <<script, segments, arrived, going_away, in_sync, handled, whole>>

\* Mutant: the header of the frame is not counted.
BehindByHead(k) == Unsigned(len - (pos + Words(script[k].type) - HeadWords))

\* Words behind the SYN_STREAM in the buffer.  read_name_value inflates them
\* together with the frame's own header block.
Behind(k) == Unsigned(len - (pos + Words(script[k].type)))

\* Mutant: going_away is not looked at.
SynAfterGoaway(k) ==
  /\ Dispatched(k, "SYN_STREAM")
  /\ in_sync /\ Behind(k) < 2
  /\ in_sync' = (Behind(k) = 0)
  /\ Handled(k)
  /\ UNCHANGED <<script, segments, arrived, going_away>>

\* Fewer than five bytes of a frame header are taken as the start of a stored
\* block; with more, or after that, zlib finds the block's lengths wrong.
handle_SPDY_SYN_STREAM(k) ==
  /\ Dispatched(k, "SYN_STREAM") /\ ~going_away
  /\ in_sync /\ Behind(k) < 2
  /\ in_sync' = (Behind(k) = 0)
  /\ Handled(k)
  /\ UNCHANGED <<script, segments, arrived, going_away>>

Fails(how) ==
  /\ pc' = how
  /\ UNCHANGED <<script, segments, arrived, mem, len, pos, going_away, in_sync, handled,
                 whole>>

\* ret_error: do_io recycles the connection.
SynFails(k) ==
  /\ Dispatched(k, "SYN_STREAM") /\ ~going_away
  /\ ~in_sync \/ Behind(k) >= 2
  /\ Fails("recycled")

\* Bytes from the middle of a frame, or from behind the buffer, read as a
\* header: a wrong version, or by chance version 3 and an unknown type.  That they
\* happen to be the header of a known type is not a case here: the words inside a
\* frame are taken to be none.
NotAHeader ==
  /\ pc = "frame" /\ HeaderAt(pos) = {}
  /\ \E how \in {"recycled", "exit"} : Fails(how)

\* default: exit (1)
UnknownFrame(k) ==
  /\ Dispatched(k, "PING")
  /\ Fails("exit")

-----------------------------------------------------------------------------
Init ==
  /\ script \in Scripts /\ segments \in Segments
  /\ arrived = 0
  /\ mem = <<>> /\ len = 0 /\ pos = 0
  /\ pc = "read"
  /\ going_away = FALSE /\ in_sync = TRUE
  /\ handled = <<>> /\ whole = TRUE

spdy_process_buffer ==
  \/ FrameIncomplete
  \/ NotAHeader
  \/ \E k \in DOMAIN script :
       \/ handle_SPDY_RST_STREAM(k) \/ handle_SPDY_GOAWAY(k)
       \/ handle_SPDY_SYN_STREAM(k) \/ SynIgnored(k) \/ SynFails(k)
       \/ UnknownFrame(k)

Next ==
  \/ \E n \in 1..Total : Read(n)
  \/ spdy_process_buffer

SafetySpec == Init /\ [][Next]_vars

\* The worker does not stop inside the loop; the peer delivers what it sends.
Spec ==
  /\ SafetySpec
  /\ WF_vars(spdy_process_buffer)
  /\ WF_vars(\E n \in 1..Total : Read(n))

-----------------------------------------------------------------------------
(* Properties. *)

\* The types of the buffer's fields; its length never passes what was read
\* (http2d_buffer_move_to_begin never leaves a negative length).
TypeOK ==
  /\ script \in Scripts /\ segments \in Segments
  /\ arrived \in 0..Total
  /\ DOMAIN mem \subseteq 0..(Total - 1)
  /\ \A i \in DOMAIN mem : mem[i] \in 0..Total
  /\ len \in 0..arrived
  /\ pos \in Nat
  /\ pc \in {"read", "frame", "recycled", "exit"}
  /\ going_away \in BOOLEAN /\ in_sync \in BOOLEAN /\ whole \in BOOLEAN
  /\ handled \in Seq(DOMAIN script)

\* No frame is handled twice or out of order, whatever the segmentation and
\* whatever stale memory behind the buffer's length is read as a frame.
HandledInOrder ==
  /\ TypeOK
  /\ \A i, j \in DOMAIN handled : i < j => handled[i] < handled[j]

\* After a GOAWAY no SYN_STREAM opens a stream any more.
NoStreamAfterGoaway ==
  \A i, j \in DOMAIN handled :
    i < j /\ script[handled[i]].type = "GOAWAY" => script[handled[j]].type # "SYN_STREAM"

\* "Is the frame complete?" (spdy_process_frame): a handler only ever sees a
\* frame that lies within the buffer's length, as long as no read holds more
\* than one frame.
CompleteFrames == segments \in {"frames", "split"} => whole

\* The loop over the buffer comes to an end when reads end with frames.
LoopEnds == segments = "frames" /\ pc = "frame" ~> pc # "frame"

\* A peer that sends frame by frame has every frame handled up to its GOAWAY.
EveryFrameHandled ==
  segments = "frames" /\ (\A k \in DOMAIN script : script[k].type # "PING") =>
    <>(\/ Len(handled) = Len(script)
       \/ \E i \in DOMAIN handled : script[handled[i]].type = "GOAWAY")

\* "Is the frame complete?": spdy_process_frame answers no with ret_ok, for the
\* rest of the frame to be read; the loop over the buffer has to end then.
SplitLoopEnds == pc = "frame" ~> pc # "frame"

\* "Process what's in the buffer" (do_io): no frame is skipped.
NothingSkipped == \A i \in DOMAIN handled : handled[i] = i
=============================================================================
