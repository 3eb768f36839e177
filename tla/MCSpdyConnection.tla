-------------------------- MODULE MCSpdyConnection --------------------------
(* TLC instances of SpdyConnection: a plain and a TLS connection with every *)
(* frame type, a send buffer smaller than one reply, and clients that keep  *)
(* reading for the liveness properties.                                     *)
EXTENDS SpdyConnection
=============================================================================
