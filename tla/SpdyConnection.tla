--------------------------- MODULE SpdyConnection ---------------------------
(***************************************************************************)
(* One SPDY connection in its worker: conn_spdy_step and do_io of          *)
(* connection-spdy.c, the read, write, shutdown and linger helpers of      *)
(* connection.c, the request machine of request-spdy.c, and the return     *)
(* codes of socket.c and socket-ssl.c.                                     *)
(*                                                                         *)
(* conn_spdy_step runs in the worker thread without a lock; what            *)
(* interleaves with it is the peer and the kernel, so every system call of *)
(* the step is an action of its own and conn_pc says which one is next.    *)
(* A reply is two units, the SYN_REPLY frame and the DATA frame.  The peer *)
(* sends a frame when the previous one has been read, so that a read       *)
(* delivers one whole frame: what process_buffer does with partial or      *)
(* several frames is the subject of SpdyFraming.                           *)
(***************************************************************************)
EXTENDS Integers, Sequences, SequencesExt

CONSTANTS
  TLSModes,    \* the values bind->socket.is_tls = TLS takes over the binds
  Streams,     \* stream ids the peer may open, each once
  FrameTypes,  \* frame types the peer sends
  MaxFrames,   \* bound: frames the peer sends in a run
  Room         \* units the kernel's send buffer holds

ASSUME ConnectionAssumption ==
  /\ TLSModes \subseteq BOOLEAN
  /\ Streams \subseteq Nat \ {0}
  /\ FrameTypes \subseteq {"SYN_STREAM", "GOAWAY", "RST_STREAM", "MALFORMED"}
  /\ MaxFrames \in Nat
  /\ Room \in Nat \ {0}

VARIABLES
  place,      \* list of the worker the connection is in, or "freed"
  IO,         \* event its watcher is started for, or "stopped"
  conn_pc,    \* next system call of the running step, "idle" between steps,
              \* "killed" when the call raised SIGPIPE
  phase,      \* conn->phase
  tls,        \* conn->bind->socket.is_tls
  is_tls,     \* conn->socket.is_tls
  closed,     \* conn->socket.closed
  fin,        \* shutdown (SHUT_WR) was done
  ID,         \* conn->ID
  requests,   \* conn->requests, first entry first
  cur,        \* do_io's i: the request that its loop has come to
  rbuf,       \* conn->buffer_read
  wbuf,       \* conn->buffer_write
  wssl,       \* conn->buffer_write_ssl
  rx,         \* frame in the kernel's receive buffer
  tx,         \* units in the kernel's send buffer
  peer,       \* state of the TCP or TLS connection in the kernel
  opened,     \* stream ids the peer has used
  nframes,    \* number of frames the peer has sent
  queued,     \* history: units ever appended to buffer_write
  sent        \* history: units ever accepted by the kernel

sockVars == <<tls, is_tls, closed, fin>>
reqVars  == <<ID, requests, cur>>
outVars  == <<wbuf, wssl, tx, queued, sent>>
peerVars == <<peer, opened, nframes>>
vars == <<place, IO, conn_pc, phase, sockVars, reqVars, rbuf, rx, outVars,
          peerVars>>

NoFrame == [type |-> "NONE", id |-> 0]
Syn(id) == [type |-> "SYN_STREAM", id |-> id]
Sendable == {Syn(id) : id \in Streams}
            \cup [type : FrameTypes \ {"SYN_STREAM"}, id : {0}]
Frame    == Sendable \cup {NoFrame}
Unit    == [kind : {"SYN_REPLY", "DATA"}, req : Streams, id : Streams]
Request == [id : Streams, phase : {"nothing", "stepping"}]
EvModes == {"EV_READ", "EV_WRITE"}

\* How a connection ends from outside: a FIN, a RST, output that is never
\* acknowledged (ETIMEDOUT, EHOSTUNREACH), a TLS record that does not decrypt.
Endings == {"closed", "reset", "lost", "garbled"}

\* The kernel holds an error for the next recv or send.
ErrorPending == peer \in {"reset", "lost"}

-----------------------------------------------------------------------------
(* Returning from the step. *)

\* The step returns and thread_main leaves the connection active.
StaysActive == conn_pc' = "idle" /\ UNCHANGED <<place, IO>>

\* http2d_connection_move_to_polling, then ret_ok.
ToPolling(mode) == conn_pc' = "idle" /\ place' = "polling" /\ IO' = mode

\* http2d_thread_recycle_conn by the step or, on ret_eof, by thread_main.
Recycled == conn_pc' = "idle" /\ place' = "freed" /\ IO' = "stopped"

\* The step goes on with its next call.
Continue(to) == conn_pc' = to /\ UNCHANGED <<place, IO>>

\* A write on a connection that is gone raises SIGPIPE: send is called without
\* MSG_NOSIGNAL, OpenSSL calls write, and nothing in the program handles or
\* ignores the signal.  It ends the process, with every connection it serves.
Killed == conn_pc' = "killed" /\ UNCHANGED <<place, IO>>

SigPipe == peer \in {"closed", "dead"}

-----------------------------------------------------------------------------
(* The worker: io_cb and the entry of conn_spdy_step. *)

\* While the TLS handshake lasts, its records may come and go at any time.
IoReady ==
  \/ phase = "handshake" /\ is_tls
  \/ IO = "EV_READ" /\ (rx # NoFrame \/ peer # "open")
  \/ IO = "EV_WRITE" /\ (Len(tx) < Room \/ peer \in {"reset", "lost", "dead"})

IoCb ==
  /\ place = "polling" /\ IoReady
  /\ place' = "active" /\ IO' = "stopped"
  /\ UNCHANGED <<conn_pc, phase, sockVars, reqVars, rbuf, rx, outVars, peerVars>>

FirstCall ==
  CASE phase = "handshake" -> IF is_tls THEN "handshake" ELSE "read"
    [] phase = "io"        -> "read"
    [] phase = "shutdown"  -> "shutdown"

conn_spdy_step ==
  /\ place = "active" /\ conn_pc = "idle"
  /\ Continue(FirstCall)
  /\ phase' = IF FirstCall = "read" THEN "io" ELSE phase
  /\ UNCHANGED <<sockVars, reqVars, rbuf, rx, outVars, peerVars>>

-----------------------------------------------------------------------------
(* phase_conn_spdy_handshake: _http2d_socket_ssl_init *)

HandshakeOk ==
  /\ conn_pc = "handshake" /\ peer = "open"
  /\ phase' = "io" /\ Continue("read")
  /\ UNCHANGED <<sockVars, reqVars, rbuf, rx, outVars, peerVars>>

\* SSL_ERROR_WANT_* name the event to wait for; SSL_ERROR_SYSCALL with EAGAIN
\* leaves wanted_io at 0 and the connection active.
HandshakeAgain ==
  /\ conn_pc = "handshake" /\ peer = "open"
  /\ \/ \E mode \in EvModes : ToPolling(mode)
     \/ StaysActive
  /\ UNCHANGED <<phase, sockVars, reqVars, rbuf, rx, outVars, peerVars>>

HandshakeEof ==
  /\ conn_pc = "handshake" /\ peer \in {"closed", "dead"}
  /\ Recycled
  /\ UNCHANGED <<phase, sockVars, reqVars, rbuf, rx, outVars, peerVars>>

\* ret_error (a failed handshake) or ret_not_found (no SSL context):
\* conn_spdy_step returns ret_error and thread_main ignores it.
HandshakeError ==
  /\ conn_pc = "handshake"
  /\ peer' \in {peer} \cup (IF ErrorPending THEN {"dead"} ELSE {})
  /\ StaysActive
  /\ UNCHANGED <<phase, sockVars, reqVars, rbuf, rx, outVars, opened, nframes>>

\* The handshake writes records of its own.
HandshakeKilled ==
  /\ conn_pc = "handshake" /\ SigPipe
  /\ Killed
  /\ UNCHANGED <<phase, sockVars, reqVars, rbuf, rx, outVars, peerVars>>

-----------------------------------------------------------------------------
(* do_io: read *)

ReadOk ==
  /\ conn_pc = "read" /\ ~closed /\ rx # NoFrame
  /\ rbuf' = rx /\ rx' = NoFrame
  /\ Continue("process")
  /\ UNCHANGED <<phase, sockVars, reqVars, outVars, peerVars>>

\* Mutant: ret_eof of the read is taken for ret_eagain.
ReadEofIgnored ==
  /\ conn_pc = "read" /\ (closed \/ (rx = NoFrame /\ peer = "closed"))
  /\ closed' = TRUE
  /\ StaysActive
  /\ UNCHANGED <<phase, tls, is_tls, fin, reqVars, rbuf, rx, outVars, peerVars>>

ReadEof ==
  /\ conn_pc = "read"
  /\ \/ closed
     \/ rx = NoFrame /\ peer \in {"closed", "dead"}
     \/ rx = NoFrame /\ peer = "reset" /\ is_tls
  /\ closed' = TRUE
  /\ Recycled
  /\ UNCHANGED <<phase, tls, is_tls, fin, reqVars, rbuf, rx, outVars, peerVars>>

\* do_io returns here: it does not come to its write part.  SSL_read may want
\* to write; when it fails with EAGAIN itself wanted_io is left at 0.
ReadAgain ==
  /\ conn_pc = "read" /\ ~closed /\ rx = NoFrame /\ peer = "open"
  /\ \/ ToPolling("EV_READ")
     \/ is_tls /\ (ToPolling("EV_WRITE") \/ StaysActive)
  /\ UNCHANGED <<phase, sockVars, reqVars, rbuf, rx, outVars, peerVars>>

\* ECONNRESET on a plain socket closes it; ETIMEDOUT, EHOSTUNREACH and an
\* SSL_ERROR_SSL do not.  recv takes the error from the kernel.  do_read turns
\* ret_error into ret_ok and do_io goes on with nothing read.
ReadError ==
  /\ conn_pc = "read" /\ ~closed /\ rx = NoFrame
  /\ \/ peer = "reset" /\ ~is_tls /\ closed' = TRUE /\ peer' = "dead"
     \/ peer = "lost" /\ UNCHANGED closed /\ peer' = "dead"
     \/ peer = "garbled" /\ UNCHANGED <<closed, peer>>
  /\ Continue("requests")
  /\ UNCHANGED <<phase, tls, is_tls, fin, reqVars, rbuf, rx, outVars, opened,
                 nframes>>

-----------------------------------------------------------------------------
(* do_io: spdy_process_buffer on one whole frame *)

\* Mutant: the stream id is not stored in conn->ID.
SynStreamKeepsID ==
  /\ conn_pc = "process" /\ rbuf.type = "SYN_STREAM"
  /\ requests' = <<[id |-> rbuf.id, phase |-> "nothing"]>> \o requests
  /\ rbuf' = NoFrame
  /\ Continue("requests")
  /\ UNCHANGED <<phase, sockVars, ID, cur, rx, outVars, peerVars>>

\* Mutant: the new request is not linked into conn->requests.
SynStreamNotLinked ==
  /\ conn_pc = "process" /\ rbuf.type = "SYN_STREAM"
  /\ ID' = rbuf.id
  /\ rbuf' = NoFrame
  /\ Continue("requests")
  /\ UNCHANGED <<phase, sockVars, requests, cur, rx, outVars, peerVars>>

handle_SPDY_SYN_STREAM ==
  /\ conn_pc = "process" /\ rbuf.type = "SYN_STREAM"
  /\ requests' = <<[id |-> rbuf.id, phase |-> "nothing"]>> \o requests
  /\ ID' = rbuf.id
  /\ rbuf' = NoFrame
  /\ Continue("requests")
  /\ UNCHANGED <<phase, sockVars, cur, rx, outVars, peerVars>>

handle_SPDY_GOAWAY ==
  /\ conn_pc = "process" /\ rbuf.type = "GOAWAY"
  /\ phase' = "shutdown"
  /\ rbuf' = NoFrame
  /\ Continue("requests")
  /\ UNCHANGED <<sockVars, reqVars, rx, outVars, peerVars>>

\* Only skipped: the stream it names keeps its request.
handle_SPDY_RST_STREAM ==
  /\ conn_pc = "process" /\ rbuf.type = "RST_STREAM"
  /\ rbuf' = NoFrame
  /\ Continue("requests")
  /\ UNCHANGED <<phase, sockVars, reqVars, rx, outVars, peerVars>>

\* ret_error: do_io recycles the connection and then falls out of the switch
\* into its request loop, on freed memory.  The model stops there.
ProcessError ==
  /\ conn_pc = "process" /\ rbuf.type = "MALFORMED"
  /\ conn_pc' = "freed_in_use" /\ place' = "freed" /\ IO' = "stopped"
  /\ UNCHANGED <<phase, sockVars, reqVars, rbuf, rx, outVars, peerVars>>

-----------------------------------------------------------------------------
(* do_io: http2d_request_step of every request in turn; cur is the entry    *)
(* that list_for_each_safe has come to.  The first step of a request        *)
(* renders its reply, with the connection's ID; the second ends it.         *)

Reply(req) == <<[kind |-> "SYN_REPLY", req |-> req.id, id |-> ID],
                [kind |-> "DATA",      req |-> req.id, id |-> ID]>>

Fresh(req) == req.phase = "nothing"

\* Mutant: req_spdy_step returns before it sets phase_spdy_stepping.
RequestRepliesSamePhase ==
  /\ conn_pc = "requests" /\ cur <= Len(requests) /\ Fresh(requests[cur])
  /\ wbuf'     = wbuf \o Reply(requests[cur])
  /\ queued'   = queued \o Reply(requests[cur])
  /\ cur'      = cur + 1
  /\ UNCHANGED <<place, IO, conn_pc, phase, sockVars, ID, requests, rbuf, rx,
                 wssl, tx, sent, peerVars>>

\* phase_spdy_nothing: the reply is rendered, ret_ok.
RequestReplies ==
  /\ conn_pc = "requests" /\ cur <= Len(requests) /\ Fresh(requests[cur])
  /\ wbuf'     = wbuf \o Reply(requests[cur])
  /\ queued'   = queued \o Reply(requests[cur])
  /\ requests' = [requests EXCEPT ![cur].phase = "stepping"]
  /\ cur'      = cur + 1
  /\ UNCHANGED <<place, IO, conn_pc, phase, sockVars, ID, rbuf, rx, wssl, tx,
                 sent, peerVars>>

\* phase_spdy_stepping: ret_eof, the request is unlinked and freed.
RequestEnds ==
  /\ conn_pc = "requests" /\ cur <= Len(requests) /\ ~Fresh(requests[cur])
  /\ requests' = RemoveAt(requests, cur)
  /\ UNCHANGED <<place, IO, conn_pc, phase, sockVars, ID, cur, rbuf, rx, outVars,
                 peerVars>>

\* Mutant: do_write is called whether or not there is something to write.
RequestsDoneWrites ==
  /\ conn_pc = "requests" /\ cur > Len(requests)
  /\ cur' = 1
  /\ Continue("write")
  /\ UNCHANGED <<phase, sockVars, ID, requests, rbuf, rx, outVars, peerVars>>

\* The end of the loop: on to the write part when there is something to write.
RequestsDone ==
  /\ conn_pc = "requests" /\ cur > Len(requests)
  /\ cur' = 1
  /\ IF wbuf = <<>> /\ wssl = <<>> THEN StaysActive ELSE Continue("write")
  /\ UNCHANGED <<phase, sockVars, ID, requests, rbuf, rx, outVars, peerVars>>

-----------------------------------------------------------------------------
(* do_io: _http2d_connection_do_write *)

\* Mutant: the buffers are swapped while SSL_write has data to retry.
SwapUnchecked == is_tls /\ wbuf # <<>>

Swap == is_tls /\ wbuf # <<>> /\ wssl = <<>>

\* What is passed to SSL_write or send after the buffers were swapped.
Chosen == IF is_tls THEN (IF Swap THEN wbuf ELSE wssl) ELSE wbuf

\* Mutant: do_write without http2d_buffer_move_to_begin.
BuffersAfterNotMoved(n) ==
  IF is_tls THEN wssl' = Chosen /\ wbuf' = IF Swap THEN <<>> ELSE wbuf
  ELSE UNCHANGED <<wbuf, wssl>>

\* The buffers once the first n units of the chosen one are written.
\* move_to_begin drops what was written.
BuffersAfter(n) ==
  LET left == SubSeq(Chosen, n + 1, Len(Chosen))
  IN  IF is_tls
      THEN wssl' = left /\ wbuf' = IF Swap THEN <<>> ELSE wbuf
      ELSE wbuf' = left /\ UNCHANGED wssl

\* send takes what the kernel has room for, SSL_write the whole buffer.
Accepted(n) ==
  IF is_tls THEN tx = <<>> /\ n = Len(Chosen)
  ELSE n <= Room - Len(tx) /\ n <= Len(Chosen)

WriteOk(n) ==
  /\ conn_pc = "write" /\ peer \in {"open", "closed", "garbled"}
  /\ n > 0 /\ Accepted(n)
  /\ BuffersAfter(n)
  /\ tx'   = tx \o SubSeq(Chosen, 1, n)
  /\ sent' = sent \o SubSeq(Chosen, 1, n)
  /\ StaysActive
  /\ UNCHANGED <<phase, sockVars, reqVars, rbuf, rx, queued, peerVars>>

\* SSL_write may want to read, or fail with EAGAIN and leave wanted_io at 0.
WriteAgain ==
  /\ conn_pc = "write" /\ peer \in {"open", "closed", "garbled"}
  /\ ~\E n \in 1..Len(Chosen) : Accepted(n)
  /\ BuffersAfter(0)
  /\ \/ ToPolling("EV_WRITE")
     \/ is_tls /\ (ToPolling("EV_READ") \/ StaysActive)
  /\ UNCHANGED <<phase, sockVars, reqVars, rbuf, rx, tx, queued, sent, peerVars>>

\* The send or SSL_write that is the first call to meet a RST gets ECONNRESET:
\* ret_eof from SSL_write, which recycles; ret_error from send, which do_write
\* reports as impossible and do_io survives.  ETIMEDOUT, EHOSTUNREACH and a
\* broken TLS session (SSL_ERROR_SSL) are survived too and do not close the
\* socket.
WriteFails ==
  /\ conn_pc = "write"
  /\ \/ peer = "reset" /\ closed' = TRUE /\ peer' = "dead" /\ is_tls /\ Recycled
     \/ peer = "reset" /\ closed' = TRUE /\ peer' = "dead" /\ ~is_tls /\ StaysActive
     \/ peer = "lost" /\ UNCHANGED closed /\ peer' = "dead" /\ StaysActive
     \/ peer = "garbled" /\ UNCHANGED <<closed, peer>> /\ is_tls /\ StaysActive
  /\ BuffersAfter(0)
  /\ UNCHANGED <<phase, tls, is_tls, fin, reqVars, rbuf, rx, tx, queued, sent,
                 opened, nframes>>

\* EPIPE: the peer has closed and answered an earlier write with a RST, or an
\* earlier call has taken the error.  The branch of http2d_socket_write for
\* EPIPE is not reached.
WriteKilled ==
  /\ conn_pc = "write" /\ SigPipe
  /\ Killed
  /\ UNCHANGED <<phase, sockVars, reqVars, rbuf, rx, outVars, peerVars>>

-----------------------------------------------------------------------------
(* phase_conn_spdy_shutdown: do_shutdown and, in the same step, the linger  *)
(* reads.  shutdown(2) can only fail with ENOTCONN here, which is ret_ok; the *)
(* phase is left at shutdown, so the next step shuts down again.            *)

do_shutdown ==
  /\ conn_pc = "shutdown"
  /\ is_tls' = FALSE /\ fin' = TRUE
  /\ Continue("linger")
  /\ UNCHANGED <<phase, tls, closed, reqVars, rbuf, rx, outVars, peerVars>>

\* A read of 510 bytes or more is followed by a second one, of what is left of
\* the frame or of what comes after it.
LingerMore ==
  /\ conn_pc = "linger" /\ ~closed /\ rx # NoFrame
  /\ rx' \in {rx, NoFrame}
  /\ Continue("linger_more")
  /\ UNCHANGED <<phase, sockVars, reqVars, rbuf, outVars, peerVars>>

Lingering == conn_pc \in {"linger", "linger_more"}

\* Data, end of file and errors all end the connection.
LingerEof ==
  /\ Lingering /\ (closed \/ rx # NoFrame \/ peer # "open")
  /\ rx' = NoFrame
  /\ Recycled
  /\ UNCHANGED <<phase, sockVars, reqVars, rbuf, outVars, peerVars>>

LingerAgain ==
  /\ Lingering /\ ~closed /\ rx = NoFrame /\ peer = "open"
  /\ ToPolling("EV_READ")
  /\ UNCHANGED <<phase, sockVars, reqVars, rbuf, rx, outVars, peerVars>>

-----------------------------------------------------------------------------
(* The peer and the kernel. *)

connUnchanged == UNCHANGED <<place, IO, conn_pc, phase, sockVars, reqVars, rbuf>>

PeerSends(f) ==
  /\ peer = "open" /\ rx = NoFrame /\ nframes < MaxFrames
  /\ tls => phase # "handshake"
  /\ f.id \notin opened
  /\ rx'      = f
  /\ nframes' = nframes + 1
  /\ opened'  = IF f.type = "SYN_STREAM" THEN opened \cup {f.id} ELSE opened
  /\ connUnchanged /\ UNCHANGED <<outVars, peer>>

PeerReads ==
  /\ tx # <<>> /\ peer \in {"open", "closed", "garbled"}
  /\ tx' = Tail(tx)
  /\ connUnchanged /\ UNCHANGED <<rx, wbuf, wssl, queued, sent, peerVars>>

\* The peer, or the network, ends the connection; only output can time out.
PeerLeaves(how) ==
  /\ peer = "open"
  /\ how = "garbled" => tls
  /\ how = "lost" => tx # <<>> \/ (phase = "handshake" /\ is_tls)
  /\ peer' = how
  /\ connUnchanged /\ UNCHANGED <<rx, outVars, opened, nframes>>

-----------------------------------------------------------------------------
\* http2d_connection_spdy_new, bind.c io_cb and new_conn_cb: a new connection
\* polls for its first byte.
Init ==
  /\ place = "polling" /\ IO = "EV_READ" /\ conn_pc = "idle"
  /\ phase = "handshake"
  /\ tls \in TLSModes /\ is_tls = tls
  /\ closed = FALSE /\ fin = FALSE
  /\ ID = 0 /\ requests = <<>> /\ cur = 1
  /\ rbuf = NoFrame /\ rx = NoFrame
  /\ wbuf = <<>> /\ wssl = <<>> /\ tx = <<>>
  /\ queued = <<>> /\ sent = <<>>
  /\ peer = "open" /\ opened = {} /\ nframes = 0

do_io ==
  \/ ReadOk \/ ReadEof \/ ReadAgain \/ ReadError
  \/ handle_SPDY_SYN_STREAM \/ handle_SPDY_GOAWAY \/ handle_SPDY_RST_STREAM
  \/ ProcessError
  \/ RequestReplies \/ RequestEnds \/ RequestsDone
  \/ \E n \in 1..(2 * MaxFrames) : WriteOk(n)
  \/ WriteAgain \/ WriteFails \/ WriteKilled

Server ==
  \/ IoCb \/ conn_spdy_step
  \/ HandshakeOk \/ HandshakeAgain \/ HandshakeEof \/ HandshakeError
  \/ HandshakeKilled
  \/ do_io
  \/ do_shutdown \/ LingerMore \/ LingerEof \/ LingerAgain

Peer ==
  \/ \E f \in Sendable : PeerSends(f)
  \/ PeerReads
  \/ \E how \in Endings : PeerLeaves(how)

Next == Server \/ Peer

SafetySpec == Init /\ [][Next]_vars

\* The worker keeps running its loop (Worker, EventServed and ActiveStepped).
Spec == SafetySpec /\ WF_vars(Server)

\* A client that reads what it is sent.
ReadingClientSpec == Spec /\ WF_vars(PeerReads)

-----------------------------------------------------------------------------
(* Properties. *)

\* The types of the connection's fields; a watcher that is started waits for
\* an event (move_to_polling is only called with a wanted_io other than 0).
TypeOK ==
  /\ place \in {"polling", "active", "freed"}
  /\ IO \in EvModes \cup {"stopped"}
  /\ conn_pc \in {"idle", "handshake", "read", "process", "requests", "write",
                  "shutdown", "linger", "linger_more", "freed_in_use", "killed"}
  /\ phase \in {"handshake", "io", "shutdown"}
  /\ tls \in TLSModes /\ is_tls \in BOOLEAN
  /\ closed \in BOOLEAN /\ fin \in BOOLEAN
  /\ ID \in Streams \cup {0}
  /\ requests \in Seq(Request) /\ cur \in 1..(Len(requests) + 1)
  /\ rbuf \in Frame /\ rx \in Frame
  /\ wbuf \in Seq(Unit) /\ wssl \in Seq(Unit) /\ tx \in Seq(Unit)
  /\ queued \in Seq(Unit) /\ sent \in Seq(Unit)
  /\ peer \in {"open", "dead"} \cup Endings
  /\ opened \subseteq Streams /\ nframes \in 0..MaxFrames

\* The two write buffers of do_write lose, repeat and reorder nothing: what
\* the kernel got, what SSL_write has to retry and what is still to be passed
\* to it are together what the requests rendered, in that order.
WireFifo == TypeOK /\ queued = sent \o wssl \o wbuf

\* do_write never asks the socket to send an empty buffer, which
\* http2d_socket_write refuses with an assertion: whenever one of the buffers
\* has data, the one it picks has.
SendsSomething == conn_pc = "write" => Chosen # <<>>

\* Replies are rendered with conn->ID, not with an id of the request's own: the
\* two agree because a request renders its whole reply in the step that read
\* its SYN_STREAM.
ReplyNamesItsStream == \A i \in DOMAIN queued : queued[i].id = queued[i].req

\* Each stream is answered once: one SYN_REPLY and, after it, one DATA frame.
AnsweredOnce ==
  \A i, j \in DOMAIN queued :
    i < j /\ queued[i].req = queued[j].req =>
      queued[i].kind = "SYN_REPLY" /\ queued[j].kind = "DATA"

\* OpenSSL demands that a write that has to be retried is retried with the
\* same data: buffer_write_ssl changes only by being sent completely.
SslRetryStable == [][wssl # <<>> => wssl' \in {wssl, <<>>}]_vars

\* The connection is freed, or its process was killed by SIGPIPE.
Ended == place = "freed" \/ conn_pc = "killed"

\* A plain connection whose peer has gone does not stay in the worker: it is
\* closed and freed or, when there was output for the peer that is gone, the
\* write of it kills the server.
PeerGoneFreed ==
  ~tls /\ peer # "open" ~> place = "freed" \/ (conn_pc = "killed" /\ wbuf # <<>>)

\* A SYN_STREAM that has reached the server is answered into the write
\* buffer, unless the connection ends first.
SynAnswered ==
  \A id \in Streams :
    rx = Syn(id) ~> \/ \E i \in DOMAIN queued : queued[i].req = id
                    \/ Ended \/ phase = "shutdown"

\* A reply that could not be written at once is written when the socket is
\* ready again ("retry later", socket.c), unless the connection ends first.
OutputDrains ==
  wbuf # <<>> \/ wssl # <<>> ~>
    \/ wbuf = <<>> /\ wssl = <<>>
    \/ Ended \/ phase = "shutdown"
=============================================================================
