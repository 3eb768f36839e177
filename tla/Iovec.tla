--------------------------------- MODULE Iovec ---------------------------------
(***************************************************************************)
(* Vectored output: http2d_socket_writev, plain and over TLS, and the two   *)
(* helpers of util.c by which a caller goes on after a partial write,       *)
(* http2d_iovec_was_sent and http2d_iovec_skip_sent.  A vector is the       *)
(* sequence of the lengths of its pieces; a byte is <<piece, offset>>, and  *)
(* a piece of what is left is [base, off, len].  The caller adds up         *)
(* *pcnt_written, whatever writev returned, until all was sent.             *)
(***************************************************************************)
EXTENDS Integers, Sequences, SequencesExt

CONSTANT Vectors

ASSUME VectorsAssumption == Vectors \subseteq Seq(Nat)

VARIABLES
  orig,       \* the lengths of the pieces to send
  is_tls,
  sent,       \* the sum of *pcnt_written
  delivered,  \* the bytes that the socket took, in order
  lastWrite   \* what http2d_socket_writev returned last

iovecVars == <<orig, is_tls, sent, delivered, lastWrite>>

\* Totals(v)[i]: what the first i pieces add up to.
Totals(v) ==
  LET total[i \in 0..Len(v)] == IF i = 0 THEN 0 ELSE total[i - 1] + v[i]
  IN  total

Size(v) == Totals(v)[Len(v)]

Lengths(dest) == [j \in 1..Len(dest) |-> dest[j].len]

\* The bytes of the pieces: byte p is in piece j, the totals of whose ends it is between.
BytesOf(dest) ==
  LET total    == Totals(Lengths(dest))
      piece(p) == CHOOSE j \in 1..Len(dest) : total[j - 1] < p /\ p <= total[j]
  IN  [p \in 1..Size(Lengths(dest)) |->
         <<dest[piece(p)].base, dest[piece(p)].off + (p - total[piece(p) - 1])>>]

IovecInit ==
  /\ orig \in Vectors /\ is_tls \in BOOLEAN
  /\ sent = 0 /\ delivered = <<>> /\ lastWrite = "none"

-----------------------------------------------------------------------------
\* http2d_iovec_was_sent
WasSent(v, n) == \A i \in 1..Len(v) : Totals(v)[i] <= n

\* Mutant: the base of the first piece left is not advanced.
PieceLeftSameBase(v, n, a, i) ==
  IF a.dest # <<>> THEN [base |-> i, off |-> 0, len |-> v[i]]
  ELSE [base |-> i, off |-> 0, len |-> v[i] - (n - a.total)]

\* What is left of piece i when total bytes went before it: of the first such
\* piece only a part.
PieceLeft(v, n, a, i) ==
  IF a.dest # <<>> THEN [base |-> i, off |-> 0, len |-> v[i]]
  ELSE [base |-> i, off |-> n - a.total, len |-> v[i] - (n - a.total)]

\* One round of the loop of http2d_iovec_skip_sent.
SkipStep(v, n, a, i) ==
  IF n >= a.total + v[i] THEN [a EXCEPT !.total = @ + v[i]]
  ELSE [a EXCEPT !.dest = Append(@, PieceLeft(v, n, a, i))]

\* http2d_iovec_skip_sent: total does not count the piece of which a part was
\* sent, so that a shorter piece behind it may be taken for one that was sent.
SkipSent(v, n) ==
  LET after[i \in 0..Len(v)] ==
        IF i = 0 THEN [dest |-> <<>>, total |-> 0] ELSE SkipStep(v, n, after[i - 1], i)
  IN  after[Len(v)].dest

\* What writev() may answer: [ret, n], n bytes taken.
PlainWritev(dest) ==
  {[ret |-> "ok", n |-> n] : n \in 1..Len(BytesOf(dest))}
    \cup {[ret |-> r, n |-> 0] : r \in {"eagain", "error"}}

\* Piece by piece, empty ones left out, up to the first that is not taken as a
\* whole: then *pcnt_written has what went before it, also when
\* http2d_socket_write failed.
TlsWritev(dest) ==
  {[ret |-> "ok", n |-> n] : n \in 1..Len(BytesOf(dest))}
    \cup {[ret |-> r, n |-> Totals(Lengths(dest))[j - 1]] :
            r \in {"eagain", "error"}, j \in {k \in 1..Len(dest) : dest[k].len > 0}}

\* http2d_socket_writev of what is left, which is not empty.
Writev ==
  LET dest == SkipSent(orig, sent)
  IN  /\ lastWrite # "error" /\ ~WasSent(orig, sent)
      /\ \E w \in IF is_tls THEN TlsWritev(dest) ELSE PlainWritev(dest) :
           /\ delivered' = delivered \o SubSeq(BytesOf(dest), 1, w.n)
           /\ sent' = sent + w.n
           /\ lastWrite' = w.ret
      /\ UNCHANGED <<orig, is_tls>>

IovecNext == Writev
IovecSpec == IovecInit /\ [][IovecNext]_iovecVars

-----------------------------------------------------------------------------
(* Properties. *)

\* The bytes of the vector, in order.
All == BytesOf([i \in 1..Len(orig) |-> [base |-> i, off |-> 0, len |-> orig[i]]])
Growing == \A i, j \in DOMAIN orig : i < j => orig[i] <= orig[j]

\* util.c, socket.c: over any partial writes and retries the socket takes the bytes
\* of the vector once and in order, and all of them before was_sent is content,
\* as long as no piece is shorter than one before it.
SentInOrder ==
  Growing => /\ IsPrefix(delivered, All) /\ Len(delivered) = sent
             /\ WasSent(orig, sent) <=> delivered = All

\* "Already sent" (the comment of http2d_iovec_skip_sent on the pieces that it
\* leaves out), for any vector.
SkippedWasSent ==
  LET left == SkipSent(orig, sent)
  IN  \A i \in DOMAIN orig :
        (\A j \in DOMAIN left : left[j].base # i) => \A k \in 1..orig[i] : Contains(delivered, <<i, k>>)
=============================================================================
