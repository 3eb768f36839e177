---------------------------- MODULE MCSpdyFraming ----------------------------
(* TLC instances of SpdyFraming: all scripts of up to three frames. *)
EXTENDS SpdyFraming, SequencesExt

\* The stream that the frames of the given types make, one behind the other.
LaidOut(types) ==
  [k \in DOMAIN types |->
     [type  |-> types[k],
      start |-> 1 + FoldLeft(LAMBDA n, type : n + Words(type), 0,
                             SubSeq(types, 1, k - 1))]]

KnownTypes == {"SYN_STREAM", "RST_STREAM", "GOAWAY"}
Streams(types) == {LaidOut(s) : s \in UNION {[1..n -> types] : n \in 1..3}}
KnownScripts == Streams(KnownTypes)
AllScripts   == Streams(KnownTypes \cup {"PING"})
=============================================================================
