------------------------ MODULE SpdyConnectionProofs ------------------------
(***************************************************************************)
(* Proofs about SpdyConnection, for every set of streams and frame types,  *)
(* every number of frames and every size of the kernel's send buffer, on   *)
(* plain and TLS connections.  ConnInv is inductive; one lemma for each of  *)
(* its parts shows that every step keeps it.                               *)
(***************************************************************************)
EXTENDS SpdyConnection, SequenceFacts

\* What conn_pc says of the rest of the connection: only the shutdown phase
\* turns TLS off (do_shutdown), a request loop starts at the first request, and
\* do_io comes to its write part with something to write.
ControlOK ==
  /\ conn_pc \in {"shutdown", "linger", "linger_more"} => phase = "shutdown"
  /\ is_tls # tls => /\ phase = "shutdown"
                     /\ conn_pc \in {"idle", "shutdown", "linger", "linger_more"}
  /\ conn_pc # "requests" => cur = 1
  /\ conn_pc = "write" => wbuf # <<>> \/ wssl # <<>>

\* Nothing is ever put into buffer_write_ssl of a plain connection.
PlainOK == ~tls => wssl = <<>>

\* A request without a reply is the head of conn->requests, where
\* handle_SPDY_SYN_STREAM has just put it, and the loop has not passed it.
FreshOK ==
  \A i \in DOMAIN requests :
    Fresh(requests[i]) =>
      i = 1 /\ cur = 1 /\ conn_pc = "requests" /\ requests[i].id = ID

IsSyn(f) == f.type = "SYN_STREAM"
Answered(id) == \E i \in DOMAIN queued : queued[i].req = id

\* A stream that the peer has opened is in one place: in the kernel, in the
\* read buffer, in a request that has not replied, or answered.
StreamsOK ==
  /\ \A i \in DOMAIN queued : queued[i].req \in opened
  /\ IsSyn(rx) => rx.id \in opened /\ ~Answered(rx.id)
  /\ IsSyn(rbuf) => /\ conn_pc = "process"
                    /\ rbuf.id \in opened /\ ~Answered(rbuf.id)
                    /\ IsSyn(rx) => rx.id # rbuf.id
  /\ \A i \in DOMAIN requests :
       Fresh(requests[i]) => /\ requests[i].id \in opened
                             /\ ~Answered(requests[i].id)
                             /\ IsSyn(rx) => rx.id # requests[i].id

ConnInv == /\ WireFifo /\ ControlOK /\ PlainOK /\ FreshOK /\ StreamsOK
           /\ ReplyNamesItsStream /\ AnsweredOnce

-----------------------------------------------------------------------------
(* Frames. *)

\* A SYN_STREAM names a stream; other frames carry none.
LEMMA FrameFacts ==
  /\ NoFrame \in Frame /\ ~IsSyn(NoFrame)
  /\ Sendable \subseteq Frame
  /\ \A f \in Frame : IsSyn(f) => f.id \in Streams
BY DEF Frame, Sendable, Syn, NoFrame, IsSyn

-----------------------------------------------------------------------------
(* Each part of ConnInv is kept. *)

USE DEF sockVars, reqVars, outVars, peerVars, connUnchanged, StaysActive,
        ToPolling, Recycled, Continue, Killed, Endings

\* The reply of a request with a stream id, and where its units end up.
LEMMA ReplyFacts ==
  ASSUME TypeOK, NEW req \in Request, req.id = ID
  PROVE  /\ Reply(req) \in Seq(Unit) /\ Len(Reply(req)) = 2
         /\ Reply(req)[1] = [kind |-> "SYN_REPLY", req |-> req.id, id |-> req.id]
         /\ Reply(req)[2] = [kind |-> "DATA", req |-> req.id, id |-> req.id]
BY DEF Reply, Request, Unit

Writing == \/ \E n \in 1..(2 * MaxFrames) : WriteOk(n)
           \/ WriteAgain \/ WriteFails

\* A call of do_write passes the first n units of the buffer it chose to the
\* kernel, SSL_write all of them or none.
LEMMA WriteCases ==
  ASSUME ConnInv, Writing
  PROVE  \E n \in 0..Len(Chosen) :
           /\ conn_pc = "write" /\ Chosen \in Seq(Unit)
           /\ BuffersAfter(n)
           /\ sent' = sent \o SubSeq(Chosen, 1, n)
           /\ \/ tx' = tx \o SubSeq(Chosen, 1, n)
              \/ tx' = tx
           /\ is_tls => n \in {0, Len(Chosen)}
<1>1. Chosen \in Seq(Unit) /\ Len(Chosen) \in Nat
  BY DEF ConnInv, WireFifo, TypeOK, Chosen
<1>2. ASSUME NEW n \in 1..(2 * MaxFrames), WriteOk(n)
      PROVE  n \in 0..Len(Chosen) /\ (is_tls => n = Len(Chosen))
  BY <1>1, <1>2, ConnectionAssumption DEF WriteOk, Accepted
<1>3. CASE WriteAgain \/ WriteFails
  <2>1. 0 \in 0..Len(Chosen)
    BY <1>1
  <2>2. SubSeq(Chosen, 1, 0) = <<>>
    BY SubSeqEmpty
  <2>3. sent' = sent \o SubSeq(Chosen, 1, 0)
    BY <1>3, <2>2, ConcatEmptySeq DEF WriteAgain, WriteFails, ConnInv, WireFifo, TypeOK
  <2> QED
    BY <1>1, <1>3, <2>1, <2>3 DEF WriteAgain, WriteFails
<1>4. CASE \E n \in 1..(2 * MaxFrames) : WriteOk(n)
  BY <1>1, <1>2, <1>4 DEF WriteOk
<1> QED
  BY <1>3, <1>4 DEF Writing

\* do_write takes from the front of buffer_write_ssl \o buffer_write what it
\* passes to the kernel, and leaves the rest in order.
LEMMA WriteFacts ==
  ASSUME ConnInv, conn_pc = "write", Chosen \in Seq(Unit),
         NEW n \in 0..Len(Chosen), BuffersAfter(n)
  PROVE  /\ SubSeq(Chosen, 1, n) \in Seq(Unit)
         /\ wssl' \in Seq(Unit) /\ wbuf' \in Seq(Unit)
         /\ SubSeq(Chosen, 1, n) \o (wssl' \o wbuf') = wssl \o wbuf
         /\ ~tls => wssl' = <<>>
<1> DEFINE a == SubSeq(Chosen, 1, n)
           b == SubSeq(Chosen, n + 1, Len(Chosen))
<1>1. a \in Seq(Unit) /\ b \in Seq(Unit) /\ a \o b = Chosen
  BY SplitAt
<1>2. is_tls = tls /\ is_tls \in BOOLEAN
  BY DEF ConnInv, ControlOK, WireFifo, TypeOK
<1>3. wbuf \in Seq(Unit) /\ wssl \in Seq(Unit) /\ <<>> \in Seq(Unit)
  BY DEF ConnInv, WireFifo, TypeOK
<1> HIDE DEF a, b
<1>4. CASE ~is_tls
  <2>1. wbuf' = b /\ wssl' = <<>> /\ wssl = <<>> /\ Chosen = wbuf
    BY <1>2, <1>4 DEF BuffersAfter, Chosen, ConnInv, PlainOK, b
  <2> QED
    BY <1>1, <1>3, <2>1, ConcatEmptySeq DEF a
<1>5. CASE is_tls /\ Swap
  <2>1. wssl' = b /\ wbuf' = <<>> /\ wssl = <<>> /\ Chosen = wbuf
    BY <1>5 DEF BuffersAfter, Chosen, Swap, b
  <2> QED
    BY <1>1, <1>2, <1>3, <1>5, <2>1, ConcatEmptySeq DEF a
<1>6. CASE is_tls /\ ~Swap
  <2>1. wssl' = b /\ wbuf' = wbuf /\ Chosen = wssl
    BY <1>6 DEF BuffersAfter, Chosen, b
  <2>2. a \o (b \o wbuf) = (a \o b) \o wbuf
    <3>1. a \in Seq(Unit) /\ b \in Seq(Unit) /\ wbuf \in Seq(Unit)
      BY <1>1, <1>3
    <3>2. (a \o b) \o wbuf = a \o (b \o wbuf)
      BY <3>1, SMTT(30)
    <3> QED
      BY <3>2
  <2> QED
    BY <1>1, <1>2, <1>3, <1>6, <2>1, <2>2 DEF a
<1> QED
  BY <1>2, <1>4, <1>5, <1>6

\* Steps that neither open a stream, nor answer one, nor write: they keep the
\* requests and the buffers, and a frame they take is gone.
Quiet ==
  /\ UNCHANGED <<tls, reqVars, wbuf, wssl, queued, sent, opened>>
  /\ rx' \in {rx, NoFrame} /\ rbuf' \in {rbuf, NoFrame}
  /\ conn_pc = "requests" => conn_pc' = "requests"
  /\ conn_pc = "process" /\ IsSyn(rbuf') => conn_pc' = "process"

\* Every step is one of these.
LEMMA StepKinds ==
  ASSUME [Next]_vars
  PROVE  \/ Quiet \/ Writing
         \/ ReadOk \/ handle_SPDY_SYN_STREAM
         \/ RequestReplies \/ RequestEnds \/ RequestsDone
         \/ \E f \in Sendable : PeerSends(f)
<1>1. CASE UNCHANGED vars
  BY <1>1 DEF vars, Quiet
<1>2. CASE \/ IoCb \/ conn_spdy_step
           \/ HandshakeOk \/ HandshakeAgain \/ HandshakeEof \/ HandshakeError
           \/ HandshakeKilled
  BY <1>2 DEF Quiet, IoCb, conn_spdy_step, HandshakeOk, HandshakeAgain,
     HandshakeEof, HandshakeError, HandshakeKilled
<1>3. CASE ReadEof \/ ReadAgain \/ ReadError
  BY <1>3 DEF Quiet, ReadEof, ReadAgain, ReadError
<1>4. CASE handle_SPDY_GOAWAY \/ handle_SPDY_RST_STREAM \/ ProcessError
  BY <1>4 DEF Quiet, handle_SPDY_GOAWAY, handle_SPDY_RST_STREAM, ProcessError,
     IsSyn, NoFrame
<1>7. CASE WriteKilled
  BY <1>7 DEF Quiet, WriteKilled
<1>5. CASE do_shutdown \/ LingerMore \/ LingerEof \/ LingerAgain
  BY <1>5 DEF Quiet, do_shutdown, LingerMore, LingerEof, LingerAgain,
     Lingering
<1>6. CASE \/ PeerReads
           \/ \E how \in Endings : PeerLeaves(how)
  BY <1>6 DEF Quiet, PeerReads, PeerLeaves
<1> QED
  BY <1>1, <1>2, <1>3, <1>4, <1>5, <1>6, <1>7 DEF Next, Server, Peer, do_io, Writing

\* Every step keeps the types.
LEMMA TypeStep == ConnInv /\ [Next]_vars => TypeOK'
<1> SUFFICES ASSUME ConnInv, [Next]_vars PROVE TypeOK'
  OBVIOUS
<1>0. TypeOK /\ NoFrame \in Frame
  BY FrameFacts DEF ConnInv, WireFifo
<1>1. CASE UNCHANGED vars
  BY <1>0, <1>1 DEF TypeOK, vars
<1>2. CASE \/ IoCb \/ conn_spdy_step
           \/ HandshakeOk \/ HandshakeAgain \/ HandshakeEof \/ HandshakeError
           \/ HandshakeKilled
  BY <1>0, <1>2 DEF TypeOK, EvModes, IoCb, conn_spdy_step, FirstCall,
     HandshakeOk, HandshakeAgain, HandshakeEof, HandshakeError, HandshakeKilled
<1>3. CASE ReadOk \/ ReadEof \/ ReadAgain \/ ReadError
  BY <1>0, <1>3 DEF TypeOK, EvModes, ReadOk, ReadEof, ReadAgain, ReadError
<1>4. CASE handle_SPDY_GOAWAY \/ handle_SPDY_RST_STREAM \/ ProcessError
  BY <1>0, <1>4 DEF TypeOK, handle_SPDY_GOAWAY, handle_SPDY_RST_STREAM,
     ProcessError
<1>5. CASE handle_SPDY_SYN_STREAM
  <2> DEFINE new == [id |-> rbuf.id, phase |-> "nothing"]
  <2>1. new \in Request
    BY <1>0, <1>5, FrameFacts DEF TypeOK, handle_SPDY_SYN_STREAM, IsSyn, Request
  <2>2. <<new>> \o requests \in Seq(Request)
    BY <1>0, <2>1 DEF TypeOK
  <2>3. cur \in 1..(Len(<<new>> \o requests) + 1)
    BY <1>0, <2>1 DEF TypeOK
  <2> QED
    BY <1>0, <1>5, <2>1, <2>2, <2>3 DEF TypeOK, handle_SPDY_SYN_STREAM, Request
<1>6. CASE RequestReplies
  <2>1. /\ cur \in 1..Len(requests) /\ requests[cur] \in Request
        /\ requests[cur].id = ID
    BY <1>0, <1>6 DEF ConnInv, FreshOK, TypeOK, RequestReplies
  <2>2. Reply(requests[cur]) \in Seq(Unit)
    BY <1>0, <2>1, ReplyFacts
  <2>3. wbuf' \in Seq(Unit) /\ queued' \in Seq(Unit)
    BY <1>0, <1>6, <2>2 DEF RequestReplies, TypeOK
  <2>4. [requests[cur] EXCEPT !.phase = "stepping"] \in Request
    BY <2>1 DEF Request
  <2>5. requests' \in Seq(Request) /\ Len(requests') = Len(requests)
    BY <1>0, <1>6, <2>1, <2>4, ExceptSeq DEF RequestReplies, TypeOK
  <2> QED
    BY <1>0, <1>6, <2>1, <2>3, <2>5 DEF TypeOK, RequestReplies
<1>7. CASE RequestEnds
  <2>1. cur \in 1..Len(requests)
    BY <1>0, <1>7 DEF TypeOK, RequestEnds
  <2>2. requests' \in Seq(Request) /\ Len(requests') = Len(requests) - 1
    BY <1>0, <1>7, <2>1, RemoveAtFacts DEF RequestEnds, TypeOK
  <2> QED
    BY <1>0, <1>7, <2>1, <2>2 DEF TypeOK, RequestEnds
<1>8. CASE RequestsDone
  BY <1>0, <1>8 DEF TypeOK, RequestsDone
<1>9. CASE Writing
  <2>1. PICK n \in 0..Len(Chosen) :
           /\ conn_pc = "write" /\ Chosen \in Seq(Unit)
           /\ BuffersAfter(n)
           /\ sent' = sent \o SubSeq(Chosen, 1, n)
           /\ \/ tx' = tx \o SubSeq(Chosen, 1, n)
              \/ tx' = tx
    BY <1>9, WriteCases
  <2>2. /\ SubSeq(Chosen, 1, n) \in Seq(Unit)
        /\ wssl' \in Seq(Unit) /\ wbuf' \in Seq(Unit)
    BY <2>1, WriteFacts
  <2> DEFINE part == SubSeq(Chosen, 1, n)
  <2>3. sent' \in Seq(Unit) /\ tx' \in Seq(Unit)
    <3> HIDE DEF part
    <3>1. part \in Seq(Unit) /\ sent' = sent \o part /\ tx' \in {tx \o part, tx}
      BY <2>1, <2>2 DEF part
    <3>2. sent \in Seq(Unit) /\ tx \in Seq(Unit)
      BY <1>0 DEF TypeOK
    <3>3. sent \o part \in Seq(Unit) /\ tx \o part \in Seq(Unit)
      BY <3>1, <3>2
    <3> QED
      BY <3>1, <3>2, <3>3
  <2>4. ASSUME NEW m \in 1..(2 * MaxFrames), WriteOk(m) PROVE TypeOK'
    BY <1>0, <2>2, <2>3, <2>4 DEF TypeOK, EvModes, WriteOk
  <2>5. CASE WriteAgain
    BY <1>0, <2>2, <2>3, <2>5 DEF TypeOK, EvModes, WriteAgain
  <2>6. CASE WriteFails
    BY <1>0, <2>2, <2>3, <2>6 DEF TypeOK, EvModes, WriteFails
  <2> QED
    BY <1>9, <2>4, <2>5, <2>6 DEF Writing
<1>10. CASE do_shutdown \/ LingerMore \/ LingerEof \/ LingerAgain
  BY <1>0, <1>10 DEF TypeOK, EvModes, do_shutdown, LingerMore, LingerEof, LingerAgain,
     Lingering
<1>11. ASSUME NEW f \in Sendable, PeerSends(f) PROVE TypeOK'
  <2>1. f \in Frame /\ (f.type = "SYN_STREAM" => f.id \in Streams)
    BY FrameFacts DEF IsSyn
  <2>2. opened' \subseteq Streams
    BY <1>0, <1>11, <2>1 DEF TypeOK, PeerSends
  <2>3. nframes' \in 0..MaxFrames
    BY <1>0, <1>11, ConnectionAssumption DEF TypeOK, PeerSends
  <2> QED
    BY <1>0, <1>11, <2>1, <2>2, <2>3 DEF TypeOK, PeerSends
<1>12. CASE PeerReads
  BY <1>0, <1>12 DEF TypeOK, PeerReads
<1>13. ASSUME NEW how \in Endings, PeerLeaves(how)
       PROVE  TypeOK'
  BY <1>0, <1>13 DEF TypeOK, PeerLeaves
<1>14. CASE WriteKilled
  BY <1>0, <1>14 DEF TypeOK, WriteKilled
<1> QED
  BY <1>1, <1>2, <1>3, <1>4, <1>5, <1>6, <1>7, <1>8, <1>9, <1>10, <1>11, <1>12,
     <1>13, <1>14 DEF Next, Server, Peer, do_io, Writing

\* The first step of a request: it is the head of the list, and its two units
\* are appended to what was queued.
LEMMA ReplyAppends ==
  ASSUME ConnInv, RequestReplies
  PROVE  /\ cur = 1 /\ Len(requests) >= 1 /\ requests[1] \in Request
         /\ Fresh(requests[1]) /\ requests[1].id = ID
         /\ Len(queued') = Len(queued) + 2 /\ Len(queued) \in Nat
         /\ DOMAIN queued' = 1..(Len(queued) + 2) /\ DOMAIN queued = 1..Len(queued)
         /\ \A i \in 1..Len(queued) : queued'[i] = queued[i]
         /\ queued'[Len(queued) + 1] =
              [kind |-> "SYN_REPLY", req |-> requests[1].id, id |-> requests[1].id]
         /\ queued'[Len(queued) + 2] =
              [kind |-> "DATA", req |-> requests[1].id, id |-> requests[1].id]
<1>0. TypeOK
  BY DEF ConnInv, WireFifo
<1>1. /\ cur = 1 /\ Len(requests) >= 1 /\ requests[1] \in Request
      /\ Fresh(requests[1]) /\ requests[1].id = ID
  BY <1>0 DEF ConnInv, FreshOK, TypeOK, RequestReplies
<1> DEFINE two == Reply(requests[1])
<1>2. two \in Seq(Unit) /\ Len(two) = 2
  BY <1>0, <1>1, ReplyFacts
<1>5. /\ two[1] = [kind |-> "SYN_REPLY", req |-> requests[1].id, id |-> requests[1].id]
      /\ two[2] = [kind |-> "DATA", req |-> requests[1].id, id |-> requests[1].id]
  BY <1>0, <1>1, ReplyFacts
<1>3. queued \in Seq(Unit)
  BY <1>0 DEF TypeOK
<1>6. queued' = queued \o two
  BY <1>1 DEF RequestReplies
<1> HIDE DEF two
<1>4. /\ Len(queued) \in Nat /\ Len(queued \o two) = Len(queued) + 2
      /\ DOMAIN queued = 1..Len(queued)
      /\ DOMAIN (queued \o two) = 1..(Len(queued) + 2)
      /\ \A i \in 1..Len(queued) : (queued \o two)[i] = queued[i]
      /\ (queued \o two)[Len(queued) + 1] = two[1]
      /\ (queued \o two)[Len(queued) + 2] = two[2]
  BY <1>2, <1>3, AppendTwo
<1> QED
  BY <1>1, <1>4, <1>5, <1>6

\* Every step keeps queued = sent \o wssl \o wbuf: a reply is appended at its
\* end, a write takes from the front of the buffers.
LEMMA FifoStep ==
  ConnInv /\ [Next]_vars => (queued = sent \o wssl \o wbuf)'
<1> SUFFICES ASSUME ConnInv, [Next]_vars
             PROVE  queued' = sent' \o wssl' \o wbuf'
  OBVIOUS
<1>0. sent \in Seq(Unit) /\ wssl \in Seq(Unit) /\ wbuf \in Seq(Unit)
  BY DEF ConnInv, WireFifo, TypeOK
<1>4. queued = sent \o wssl \o wbuf
  BY DEF ConnInv, WireFifo
<1>1. CASE RequestReplies
  <2> DEFINE two == Reply(requests[cur])
  <2>1. two \in Seq(Unit)
    BY <1>1, ReplyAppends, ReplyFacts DEF ConnInv, WireFifo
  <2>2. /\ queued' = queued \o two /\ wbuf' = wbuf \o two
        /\ wssl' = wssl /\ sent' = sent
    BY <1>1 DEF RequestReplies
  <2> HIDE DEF two
  <2>3. ((sent \o wssl) \o wbuf) \o two = (sent \o wssl) \o (wbuf \o two)
    BY <1>0, <2>1, SMTT(30)
  <2> QED
    BY <1>4, <2>2, <2>3
<1>2. CASE Writing
  <2>1. PICK n \in 0..Len(Chosen) :
           /\ conn_pc = "write" /\ Chosen \in Seq(Unit)
           /\ BuffersAfter(n)
           /\ sent' = sent \o SubSeq(Chosen, 1, n)
    BY <1>2, WriteCases
  <2> DEFINE part == SubSeq(Chosen, 1, n)
  <2>2. /\ part \in Seq(Unit) /\ wssl' \in Seq(Unit) /\ wbuf' \in Seq(Unit)
    BY <2>1, WriteFacts
  <2>6. part \o (wssl' \o wbuf') = wssl \o wbuf /\ sent' = sent \o part
    BY <2>1, WriteFacts
  <2>3. queued' = queued
    BY <1>2 DEF Writing, WriteOk, WriteAgain, WriteFails
  <2> HIDE DEF part
  <2>4. ((sent \o part) \o wssl') \o wbuf' = sent \o (part \o (wssl' \o wbuf'))
    BY <1>0, <2>2, SMTT(30)
  <2>5. (sent \o wssl) \o wbuf = sent \o (wssl \o wbuf)
    BY <1>0, SMT
  <2> QED
    BY <1>4, <2>3, <2>4, <2>5, <2>6
<1>3. CASE UNCHANGED <<queued, sent, wssl, wbuf>>
  BY <1>3, <1>4
<1> QED
  BY <1>1, <1>2, <1>3, StepKinds DEF Quiet, ReadOk, handle_SPDY_SYN_STREAM,
     RequestEnds, RequestsDone, PeerSends

\* Every step keeps ControlOK.
LEMMA ControlStep == ConnInv /\ [Next]_vars => ControlOK'
<1> SUFFICES ASSUME ConnInv, [Next]_vars PROVE ControlOK'
  OBVIOUS
<1>0. ControlOK /\ TypeOK
  BY DEF ConnInv, WireFifo
<1>1. CASE \/ UNCHANGED vars \/ IoCb \/ conn_spdy_step
           \/ HandshakeOk \/ HandshakeAgain \/ HandshakeEof \/ HandshakeError
           \/ HandshakeKilled
  BY <1>0, <1>1 DEF ControlOK, TypeOK, vars, IoCb, conn_spdy_step, FirstCall,
     HandshakeOk, HandshakeAgain, HandshakeEof, HandshakeError, HandshakeKilled
<1>2. CASE ReadOk \/ ReadEof \/ ReadAgain \/ ReadError
  BY <1>0, <1>2 DEF ControlOK, ReadOk, ReadEof, ReadAgain, ReadError
<1>3. CASE \/ handle_SPDY_SYN_STREAM \/ handle_SPDY_GOAWAY
           \/ handle_SPDY_RST_STREAM \/ ProcessError
  BY <1>0, <1>3 DEF ControlOK, handle_SPDY_SYN_STREAM, handle_SPDY_GOAWAY,
     handle_SPDY_RST_STREAM, ProcessError
<1>4. CASE RequestReplies \/ RequestEnds \/ RequestsDone
  BY <1>0, <1>4 DEF ControlOK, RequestReplies, RequestEnds, RequestsDone
<1>5. CASE Writing
  <2>1. conn_pc = "write" /\ conn_pc' = "idle" /\ UNCHANGED <<tls, is_tls, cur, phase>>
    BY <1>5 DEF Writing, WriteOk, WriteAgain, WriteFails
  <2> QED
    BY <1>0, <2>1 DEF ControlOK
<1>6. CASE do_shutdown \/ LingerMore \/ LingerEof \/ LingerAgain
  BY <1>0, <1>6 DEF ControlOK, do_shutdown, LingerMore, LingerEof, LingerAgain,
     Lingering
<1>7. CASE Peer
  BY <1>0, <1>7 DEF ControlOK, Peer, PeerSends, PeerReads, PeerLeaves
<1>8. CASE WriteKilled
  BY <1>0, <1>8 DEF ControlOK, WriteKilled
<1> QED
  BY <1>1, <1>2, <1>3, <1>4, <1>5, <1>6, <1>7, <1>8 DEF Next, Server, do_io, Writing

\* Every step keeps PlainOK.
LEMMA PlainStep == ConnInv /\ [Next]_vars => PlainOK'
<1> SUFFICES ASSUME ConnInv, [Next]_vars PROVE PlainOK'
  OBVIOUS
<1>1. CASE Writing
  <2>1. tls' = tls
    BY <1>1 DEF Writing, WriteOk, WriteAgain, WriteFails
  <2> QED
    BY <1>1, <2>1, WriteCases, WriteFacts DEF PlainOK
<1>2. CASE UNCHANGED <<tls, wssl>>
  BY <1>2 DEF ConnInv, PlainOK
<1> QED
  BY <1>1, <1>2, StepKinds DEF Quiet, ReadOk, handle_SPDY_SYN_STREAM,
     RequestReplies, RequestEnds, RequestsDone, PeerSends

\* Every step keeps FreshOK.
LEMMA FreshStep == ConnInv /\ [Next]_vars => FreshOK'
<1> SUFFICES ASSUME ConnInv, [Next]_vars PROVE FreshOK'
  OBVIOUS
<1>0. /\ FreshOK /\ ControlOK
      /\ requests \in Seq(Request) /\ cur \in 1..(Len(requests) + 1)
      /\ DOMAIN requests = 1..Len(requests) /\ Len(requests) \in Nat
  BY DEF ConnInv, WireFifo, TypeOK
<1>1. CASE Quiet
  BY <1>0, <1>1 DEF Quiet, FreshOK, Fresh
<1>2. CASE Writing
  <2>1. conn_pc = "write" /\ UNCHANGED requests
    BY <1>2 DEF Writing, WriteOk, WriteAgain, WriteFails
  <2> QED
    BY <1>0, <2>1 DEF FreshOK, Fresh
<1>3. CASE ReadOk \/ \E f \in Sendable : PeerSends(f)
  BY <1>0, <1>3 DEF ReadOk, PeerSends, FreshOK, Fresh
<1>4. CASE handle_SPDY_SYN_STREAM
  <2> DEFINE new == [id |-> rbuf.id, phase |-> "nothing"]
  <2>1. /\ requests' = <<new>> \o requests /\ ID' = new.id /\ cur' = 1
        /\ conn_pc' = "requests"
    BY <1>0, <1>4 DEF handle_SPDY_SYN_STREAM, ControlOK
  <2>2. \A i \in 1..Len(requests) : ~Fresh(requests[i])
    BY <1>0, <1>4 DEF handle_SPDY_SYN_STREAM, FreshOK
  <2> HIDE DEF new
  <2>3. ASSUME NEW i \in DOMAIN requests'
        PROVE  \/ i = 1 /\ requests'[i] = new
               \/ i - 1 \in 1..Len(requests) /\ requests'[i] = requests[i - 1]
    BY <1>0, <2>1
  <2> QED
    BY <2>1, <2>2, <2>3 DEF FreshOK, Fresh
<1>5. CASE RequestReplies
  <2>1. /\ requests' = [requests EXCEPT ![1].phase = "stepping"]
        /\ 1 \in 1..Len(requests) /\ requests[1] \in Request
    BY <1>0, <1>5, ReplyAppends DEF RequestReplies
  <2>2. \A i \in DOMAIN requests' : ~Fresh(requests'[i])
    BY <1>0, <2>1 DEF FreshOK, Fresh, Request
  <2> QED
    BY <2>2 DEF FreshOK, Fresh
<1>6. CASE RequestEnds
  <2>1. requests' = RemoveAt(requests, cur) /\ cur \in 1..Len(requests)
    BY <1>0, <1>6 DEF RequestEnds
  <2>2. ASSUME NEW i \in DOMAIN requests'
        PROVE  \E j \in 1..Len(requests) :
                 requests'[i] = requests[j] /\ (j = i \/ j > 1) /\ j # cur
    <3>1. /\ i \in 1..(Len(requests) - 1)
          /\ requests'[i] = IF i < cur THEN requests[i] ELSE requests[i + 1]
      BY <1>0, <2>1, <2>2, RemoveAtFacts, LenProperties
    <3> QED
      BY <1>0, <2>1, <3>1
  <2> QED
    BY <1>0, <1>6, <2>2 DEF RequestEnds, FreshOK, Fresh
<1>7. CASE RequestsDone
  BY <1>0, <1>7 DEF RequestsDone, FreshOK, Fresh
<1> QED
  BY <1>1, <1>2, <1>3, <1>4, <1>5, <1>6, <1>7, StepKinds

\* Every step keeps StreamsOK.
LEMMA StreamsStep == ConnInv /\ [Next]_vars => StreamsOK'
<1> SUFFICES ASSUME ConnInv, [Next]_vars PROVE StreamsOK'
  OBVIOUS
<1>0. /\ StreamsOK /\ FreshOK /\ ~IsSyn(NoFrame)
      /\ requests \in Seq(Request) /\ cur \in 1..(Len(requests) + 1)
      /\ DOMAIN requests = 1..Len(requests) /\ Len(requests) \in Nat
  BY FrameFacts DEF ConnInv, WireFifo, TypeOK
<1>1. CASE Quiet
  BY <1>0, <1>1 DEF Quiet, StreamsOK, Answered, Fresh, IsSyn
<1>2. CASE Writing
  <2>1. conn_pc = "write" /\ UNCHANGED <<requests, queued, opened, rx, rbuf>>
    BY <1>2 DEF Writing, WriteOk, WriteAgain, WriteFails
  <2> QED
    BY <1>0, <2>1 DEF StreamsOK, Answered, Fresh, IsSyn
<1>3. CASE ReadOk
  BY <1>0, <1>3 DEF ReadOk, StreamsOK, FreshOK, Answered, Fresh, IsSyn
<1>4. ASSUME NEW f \in Sendable, PeerSends(f) PROVE StreamsOK'
  <2>1. /\ rx' = f /\ f.id \notin opened
        /\ UNCHANGED <<requests, queued, rbuf, conn_pc>>
        /\ opened \subseteq opened' /\ (IsSyn(f) => f.id \in opened')
    BY <1>4 DEF PeerSends, IsSyn
  <2> QED
    BY <1>0, <2>1 DEF StreamsOK, Answered, Fresh, IsSyn
<1>5. CASE handle_SPDY_SYN_STREAM
  <2> DEFINE new == [id |-> rbuf.id, phase |-> "nothing"]
  <2>1. /\ requests' = <<new>> \o requests /\ rbuf' = NoFrame
        /\ UNCHANGED <<queued, opened, rx>> /\ IsSyn(rbuf) /\ new.id = rbuf.id
    BY <1>5 DEF handle_SPDY_SYN_STREAM, IsSyn
  <2> HIDE DEF new
  <2>2. ASSUME NEW i \in DOMAIN requests'
        PROVE  \/ requests'[i] = new
               \/ \E j \in DOMAIN requests : requests'[i] = requests[j]
    BY <1>0, <2>1
  <2> QED
    BY <1>0, <2>1, <2>2 DEF StreamsOK, Answered, Fresh, IsSyn
<1>6. CASE RequestReplies
  <2>1. /\ requests' = [requests EXCEPT ![1].phase = "stepping"]
        /\ 1 \in 1..Len(requests) /\ requests[1] \in Request
        /\ conn_pc = "requests" /\ UNCHANGED <<opened, rx, rbuf>>
    BY <1>0, <1>6, ReplyAppends DEF RequestReplies
  <2>2. \A i \in DOMAIN requests' : ~Fresh(requests'[i])
    BY <1>0, <2>1 DEF FreshOK, Fresh, Request
  <2>3. ASSUME NEW i \in DOMAIN queued'
        PROVE  \/ i \in DOMAIN queued /\ queued'[i] = queued[i]
               \/ queued'[i].req = requests[1].id
    <3>1. \/ i \in 1..Len(queued) \/ i = Len(queued) + 1 \/ i = Len(queued) + 2
      BY <1>6, ReplyAppends
    <3> QED
      BY <1>6, <3>1, ReplyAppends
  <2>4. /\ requests[1].id \in opened
        /\ IsSyn(rx) => rx.id # requests[1].id
    BY <1>0, <1>6, <2>1, ReplyAppends DEF StreamsOK
  <2>5. ~IsSyn(rbuf)
    BY <1>0, <2>1 DEF StreamsOK
  <2> QED
    BY <1>0, <2>1, <2>2, <2>3, <2>4, <2>5 DEF StreamsOK, Answered, Fresh, IsSyn
<1>7. CASE RequestEnds
  <2>1. /\ requests' = RemoveAt(requests, cur) /\ cur \in 1..Len(requests)
        /\ UNCHANGED <<queued, opened, rx, rbuf, conn_pc>>
    BY <1>0, <1>7 DEF RequestEnds
  <2>2. ASSUME NEW i \in DOMAIN requests'
        PROVE  \E j \in DOMAIN requests : requests'[i] = requests[j]
    <3>1. /\ i \in 1..(Len(requests) - 1)
          /\ requests'[i] = IF i < cur THEN requests[i] ELSE requests[i + 1]
      BY <1>0, <2>1, <2>2, RemoveAtFacts, LenProperties
    <3> QED
      BY <1>0, <2>1, <3>1
  <2> QED
    BY <1>0, <2>1, <2>2 DEF StreamsOK, Answered, Fresh, IsSyn
<1>8. CASE RequestsDone
  BY <1>0, <1>8 DEF RequestsDone, StreamsOK, Answered, Fresh, IsSyn
<1> QED
  BY <1>1, <1>2, <1>3, <1>4, <1>5, <1>6, <1>7, <1>8, StepKinds

\* Every step keeps ReplyNamesItsStream and AnsweredOnce: a reply carries the
\* id of its request, and no unit queued before belongs to that stream.
LEMMA AnswersStep ==
  ConnInv /\ [Next]_vars => ReplyNamesItsStream' /\ AnsweredOnce'
<1> SUFFICES ASSUME ConnInv, [Next]_vars
             PROVE  ReplyNamesItsStream' /\ AnsweredOnce'
  OBVIOUS
<1>1. CASE RequestReplies
  <2> DEFINE id == requests[1].id
             k  == Len(queued)
  <2>1. /\ k \in Nat /\ DOMAIN queued = 1..k /\ DOMAIN queued' = 1..(k + 2)
        /\ \A i \in 1..k : queued'[i] = queued[i]
        /\ queued'[k + 1] = [kind |-> "SYN_REPLY", req |-> id, id |-> id]
        /\ queued'[k + 2] = [kind |-> "DATA", req |-> id, id |-> id]
    BY <1>1, ReplyAppends
  <2>2. \A i \in 1..k : queued[i].req # id
    <3>1. Fresh(requests[1]) /\ 1 \in DOMAIN requests
      BY <1>1, ReplyAppends DEF ConnInv, WireFifo, TypeOK
    <3> QED
      BY <2>1, <3>1 DEF ConnInv, StreamsOK, Answered
  <2> HIDE DEF id, k
  <2>3. ReplyNamesItsStream'
    <3> SUFFICES ASSUME NEW i \in 1..(k + 2) PROVE queued'[i].id = queued'[i].req
      BY <2>1 DEF ReplyNamesItsStream
    <3>1. i \in 1..k \/ i = k + 1 \/ i = k + 2
      BY <2>1
    <3> QED
      BY <2>1, <3>1 DEF ConnInv, ReplyNamesItsStream
  <2>4. AnsweredOnce'
    <3> SUFFICES ASSUME NEW i \in 1..(k + 2), NEW j \in 1..(k + 2),
                        i < j, queued'[i].req = queued'[j].req
                 PROVE  queued'[i].kind = "SYN_REPLY" /\ queued'[j].kind = "DATA"
      BY <2>1 DEF AnsweredOnce
    <3>1. CASE j \in 1..k
      <4>1. i \in 1..k
        BY <2>1, <3>1
      <4> QED
        BY <2>1, <3>1, <4>1 DEF ConnInv, AnsweredOnce
    <3>2. CASE i \in 1..k /\ j \notin 1..k
      <4>1. j = k + 1 \/ j = k + 2
        BY <2>1, <3>2
      <4>2. queued'[j].req = id
        BY <2>1, <4>1
      <4> QED
        BY <2>1, <2>2, <3>2, <4>2
    <3>3. CASE i = k + 1 /\ j = k + 2
      BY <2>1, <3>3
    <3>4. \/ j \in 1..k
          \/ i \in 1..k /\ j \notin 1..k
          \/ i = k + 1 /\ j = k + 2
      BY <2>1
    <3> QED
      BY <3>1, <3>2, <3>3, <3>4
  <2> QED
    BY <2>3, <2>4
<1>2. CASE UNCHANGED queued
  BY <1>2 DEF ConnInv, ReplyNamesItsStream, AnsweredOnce
<1> QED
  BY <1>1, <1>2, StepKinds DEF Quiet, ReadOk, handle_SPDY_SYN_STREAM,
     RequestEnds, RequestsDone, PeerSends, Writing, WriteOk, WriteAgain,
     WriteFails

-----------------------------------------------------------------------------
(* The theorems. *)

\* ConnInv holds of a new connection and every step keeps it.
THEOREM Invariance == SafetySpec => []ConnInv
<1>1. Init => ConnInv
  <2> SUFFICES ASSUME Init PROVE ConnInv
    OBVIOUS
  <2>1. TypeOK
    <3>1. NoFrame \in Frame
      BY FrameFacts
    <3>2. is_tls \in BOOLEAN /\ nframes \in 0..MaxFrames
      BY ConnectionAssumption DEF Init
    <3>3. cur \in 1..(Len(requests) + 1)
      BY DEF Init
    <3>4. <<>> \in Seq(Unit) /\ <<>> \in Seq(Request) /\ {} \subseteq Streams
      OBVIOUS
    <3> QED
      BY <3>1, <3>2, <3>3, <3>4, Zenon DEF Init, TypeOK, EvModes
  <2>2. queued = sent \o wssl \o wbuf
    BY DEF Init
  <2>3. StreamsOK /\ FreshOK
    BY FrameFacts DEF Init, StreamsOK, FreshOK
  <2>4. ReplyNamesItsStream /\ AnsweredOnce
    BY DEF Init, ReplyNamesItsStream, AnsweredOnce
  <2> QED
    BY <2>1, <2>2, <2>3, <2>4 DEF Init, ConnInv, WireFifo, ControlOK, PlainOK
<1>2. ConnInv /\ [Next]_vars => ConnInv'
  BY TypeStep, FifoStep, ControlStep, PlainStep, FreshStep, StreamsStep,
     AnswersStep DEF ConnInv, WireFifo
<1> QED
  BY <1>1, <1>2, PTL DEF SafetySpec

\* The two write buffers of do_write lose, repeat and reorder nothing, however
\* the kernel accepts, refuses or fails the writes.
THEOREM WireIsFifo == SafetySpec => []WireFifo
<1>1. ConnInv => WireFifo
  BY DEF ConnInv
<1> QED
  BY <1>1, Invariance, PTL

\* http2d_socket_write is never asked to send an empty buffer.
THEOREM WritesData == SafetySpec => []SendsSomething
<1>1. ConnInv => SendsSomething
  BY DEF ConnInv, WireFifo, TypeOK, ControlOK, PlainOK, SendsSomething, Chosen,
     Swap
<1> QED
  BY <1>1, Invariance, PTL

\* A reply is rendered with the id of the stream it answers, although it takes
\* the id from the connection.
THEOREM RepliesMatch == SafetySpec => []ReplyNamesItsStream
<1>1. ConnInv => ReplyNamesItsStream
  BY DEF ConnInv
<1> QED
  BY <1>1, Invariance, PTL

\* No stream is answered twice, and its SYN_REPLY comes before its DATA.
THEOREM NoSecondAnswer == SafetySpec => []AnsweredOnce
<1>1. ConnInv => AnsweredOnce
  BY DEF ConnInv
<1> QED
  BY <1>1, Invariance, PTL

\* What SSL_write has to retry stays as it is until all of it is sent.
THEOREM RetryUnchanged == SafetySpec => SslRetryStable
<1>1. ConnInv /\ [Next]_vars => [wssl # <<>> => wssl' \in {wssl, <<>>}]_vars
  <2> SUFFICES ASSUME ConnInv, [Next]_vars, wssl # <<>>
               PROVE  wssl' \in {wssl, <<>>}
    OBVIOUS
  <2>1. CASE Writing
    <3>1. PICK n \in 0..Len(Chosen) :
             /\ conn_pc = "write" /\ Chosen \in Seq(Unit)
             /\ BuffersAfter(n)
             /\ is_tls => n \in {0, Len(Chosen)}
      BY <2>1, WriteCases
    <3>2. CASE is_tls
      <4>1. wssl' = SubSeq(Chosen, n + 1, Len(Chosen)) /\ Chosen = wssl
        BY <3>1, <3>2 DEF BuffersAfter, Chosen, Swap
      <4> QED
        BY <3>1, <3>2, <4>1, SplitAt
    <3>3. CASE ~is_tls
      BY <3>1, <3>3 DEF BuffersAfter
    <3> QED
      BY <3>2, <3>3
  <2>2. CASE UNCHANGED wssl
    BY <2>2
  <2> QED
    BY <2>1, <2>2, StepKinds DEF Quiet, ReadOk, handle_SPDY_SYN_STREAM,
       RequestReplies, RequestEnds, RequestsDone, PeerSends
<1> QED
  BY <1>1, Invariance, PTL DEF SafetySpec, SslRetryStable
=============================================================================
