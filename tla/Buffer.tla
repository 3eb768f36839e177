-------------------------------- MODULE Buffer --------------------------------
(***************************************************************************)
(* The string buffer of buffer.c: buf->buf is memory of buf->size bytes, of *)
(* which buf->len are in use, followed by a '\0'.  The memory is modelled   *)
(* byte by byte, so that a copy may run over its end, read a byte that      *)
(* nobody wrote or forget the terminator; text is what the buffer is to     *)
(* hold, by definitions on sequences.  Allocations succeed.                 *)
(***************************************************************************)
EXTENDS Integers, Sequences, FiniteSets, SequencesExt

CONSTANTS
  Chars,      \* the characters in use, " " and "A" among them
  Texts,      \* the strings that callers pass
  Extra,      \* REALLOC_EXTRA_SIZE
  Given,      \* the texts that the first call adds to the new buffer
  MaxLen,     \* bound on the length of the text
  MaxEdits    \* bound on the calls that follow

Nul     == "0"
Garbage == "?"
Blanks  == {" ", "t", "r", "n"}   \* ' ', '\t', '\r', '\n'

\* What a text is made of: the comma marks and lower case letters are added.
Letters == Chars \cup {",", "A", "a"}

ASSUME BufferAssumption ==
  /\ Nul \notin Chars /\ Extra \in Nat /\ MaxLen \in Nat
  /\ \A t \in Texts \cup Given : t \in Seq(Letters)

VARIABLES
  buffer,   \* [mem, len, overrun]; size is Len(mem), overrun: wrote past mem
  text,     \* what it is to hold
  written,  \* FALSE as long as no call had a terminator to write
  nedits

bufferVars == <<buffer, text, written, nedits>>

\* http2d_buffer_init
Empty == [mem |-> <<>>, len |-> 0, overrun |-> FALSE]

-----------------------------------------------------------------------------
(* Memory.  Positions count from 0. *)

SizeOf(b)    == Len(b.mem)
CharAt(b, i) == IF i < SizeOf(b) THEN b.mem[i + 1] ELSE Garbage
Read(b, from, n) == [i \in 1..n |-> CharAt(b, from + i - 1)]

Put(b, pos, bytes) ==
  IF pos + Len(bytes) > SizeOf(b) THEN [b EXCEPT !.overrun = TRUE]
  ELSE [b EXCEPT !.mem = [i \in DOMAIN @ |->
          IF i \in pos + 1 .. pos + Len(bytes) THEN bytes[i - pos] ELSE @[i]]]

\* memmove(buf + to, buf + from, n)
Move(b, to, from, n) == Put(b, to, Read(b, from, n))

\* buf->len = n; buf->buf[n] = '\0'
Terminate(b, n) == Put([b EXCEPT !.len = n], n, <<Nul>>)

Realloc(b, size) ==
  [b EXCEPT !.mem = [i \in 1..size |-> IF i <= SizeOf(b) THEN b.mem[i] ELSE Garbage]]

ReallocInc(b, inc) == Realloc(b, SizeOf(b) + inc + Extra + 1)

EnsureSize(b, size) == IF size <= SizeOf(b) THEN b ELSE Realloc(b, size)
EnsureAddlen(b, n)  == IF b.len + n < SizeOf(b) THEN b ELSE EnsureSize(b, b.len + n + 1)

\* The room that add, add_char_n and prepend make for n more characters.
Room(b, n) ==
  LET available == SizeOf(b) - b.len
  IN  IF available < n + 1 THEN ReallocInc(b, n - available) ELSE b

-----------------------------------------------------------------------------
(* The operations. *)

BufAdd(b, t) ==
  IF t = <<>> THEN b
  ELSE Terminate(Put(Room(b, Len(t)), b.len, t), b.len + Len(t))

\* http2d_buffer_add_buffer_slice of src: SliceNone is HTTP2D_BUF_SLIDE_NONE.  The
\* tests of negative positions are the wrong way round, so that they select
\* nothing.
SliceNone == 1000
AddSlice(b, src, begin, end) ==
  LET n     == Len(src)
      to    == IF end = SliceNone THEN n ELSE IF end > 0 THEN end
               ELSE IF -end > n THEN n + end ELSE -1
      from  == IF begin = SliceNone THEN 0
               ELSE IF begin >= 0 THEN IF begin > n THEN n ELSE begin
               ELSE IF -begin < n THEN n - begin ELSE 0
  IN  IF n = 0 \/ to < 0 \/ to > n \/ to < from THEN b
      ELSE BufAdd(b, SubSeq(src, from + 1, to))

\* http2d_buffer_add_char
BufAddChar(b, c) ==
  LET r == IF b.len + 1 < SizeOf(b) THEN b ELSE ReallocInc(b, 1)
  IN  Terminate(Put(r, b.len, <<c>>), b.len + 1)

\* http2d_buffer_add_char_n
BufAddCharN(b, c, n) ==
  IF n <= 0 THEN b
  ELSE Terminate(Put(Room(b, n), b.len, [i \in 1..n |-> c]), b.len + n)

\* http2d_buffer_prepend
BufPrepend(b, t) ==
  LET r == Room(b, Len(t))
  IN  Terminate(Put(Move(r, Len(t), 0, b.len), 0, t), b.len + Len(t))

\* http2d_buffer_clean
BufClean(b) == IF SizeOf(b) = 0 THEN b ELSE Terminate(b, 0)

\* Mutant: the terminator is not moved.
MoveToBeginKeepsEnd(b, pos) ==
  IF pos >= b.len THEN BufClean(b)
  ELSE [Move(b, 0, pos, b.len - pos) EXCEPT !.len = @ - pos]

\* http2d_buffer_move_to_begin: the terminator moves along.
MoveToBegin(b, pos) ==
  IF pos >= b.len THEN BufClean(b)
  ELSE [Move(b, 0, pos, b.len - pos + 1) EXCEPT !.len = @ - pos]

\* http2d_buffer_drop_ending
DropEnding(b, n) ==
  IF SizeOf(b) = 0 THEN b ELSE Terminate(b, b.len - (IF n < b.len THEN n ELSE b.len))

\* http2d_buffer_swap_chars
SwapIn(b, c, d) ==
  [b EXCEPT !.mem = [i \in DOMAIN @ |-> IF i <= b.len /\ @[i] = c THEN d ELSE @[i]]]

\* http2d_buffer_to_lowcase
Lower(c) == IF c = "A" THEN "a" ELSE c
LowerIn(b) ==
  [b EXCEPT !.mem = [i \in DOMAIN @ |-> IF i <= b.len THEN Lower(@[i]) ELSE @[i]]]

\* http2d_buffer_remove_dups of n characters: a is where the next character goes,
\* a + offset where it comes from.  With two characters the loop's condition holds
\* before the first turn.
DupTurn(st, n, c) ==
  IF ~(st.a + st.offset < n /\ st.offset + 1 < n) THEN st
  ELSE IF CharAt(st.m, st.a) = c /\ CharAt(st.m, st.a + st.offset + 1) = c
  THEN [st EXCEPT !.offset = @ + 1]
  ELSE [st EXCEPT !.m = Put(@, st.a + 1, <<CharAt(@, st.a + 1 + st.offset)>>), !.a = @ + 1]

\* A turn raises a or offset by one, so that there are at most b.len of them.
DupTurns(b, c) ==
  LET after[k \in 0..b.len] == IF k = 0 THEN [m |-> b, a |-> 0, offset |-> 0]
                               ELSE DupTurn(after[k - 1], b.len, c)
  IN  after[b.len]

RemoveDups(b, c) ==
  IF b.len < 2 THEN b ELSE Terminate(DupTurns(b, c).m, b.len - DupTurns(b, c).offset)

\* strstr(buf->buf + from, s): the position, or -1.  It stops at the '\0'.
StrStr(b, from, s) ==
  LET end == Min({i \in from..SizeOf(b) : i = SizeOf(b) \/ CharAt(b, i) = Nul})
      at  == {i \in from..end - Len(s) : Read(b, i, Len(s)) = s}
  IN  IF at = {} THEN -1 ELSE Min(at)

\* http2d_buffer_remove_string looks from the beginning again every time.
RemoveOne(b, s) ==
  LET at == StrStr(b, 0, s)
  IN  IF at = -1 THEN b
      ELSE [Move(b, at, at + Len(s), b.len - (at + Len(s)) + 1) EXCEPT !.len = @ - Len(s)]

RemoveString(b, s) ==
  LET after[k \in 0..b.len] == IF k = 0 THEN b ELSE RemoveOne(after[k - 1], s)
  IN  IF b.len <= 0 THEN b ELSE after[b.len]

\* http2d_buffer_remove_chunk
RemoveChunk(b, from, n) ==
  IF n = b.len THEN BufClean(b)
  ELSE [Move(b, from, from + n, b.len - (from + n) + 1) EXCEPT !.len = @ - n]

\* http2d_buffer_read_from_fd and http2d_buffer_read_file: read() fills in what
\* it got of the n bytes asked for.
ReadFromFd(b, n, got) ==
  LET r == EnsureAddlen(b, n)
  IN  IF got = <<>> THEN r ELSE Terminate(Put(r, b.len, got), b.len + Len(got))

\* http2d_buffer_replace_string: new memory of the right size.  The same loop
\* fills the destination of http2d_buffer_substitute_string.
ReplaceOne(b, s, t, st) ==
  LET at == StrStr(b, st.p, s)
  IN  IF st.end THEN st
      ELSE IF at = -1 THEN [st EXCEPT !.out = @ \o Read(b, st.p, b.len - st.p), !.end = TRUE]
      ELSE [st EXCEPT !.out = @ \o Read(b, st.p, at - st.p) \o t, !.p = at + Len(s)]

Replaced(b, s, t) ==
  LET after[k \in 0..b.len + 1] == IF k = 0 THEN [p |-> 0, out |-> <<>>, end |-> FALSE]
                                   ELSE ReplaceOne(b, s, t, after[k - 1])
  IN  after[b.len + 1].out

ReplaceString(b, s, t) ==
  LET result == Replaced(b, s, t)
  IN  IF SizeOf(b) = 0 \/ StrStr(b, 0, s) = -1 THEN b
      ELSE IF result = <<>> THEN Terminate(b, 0)
      ELSE [b EXCEPT !.mem = result \o <<Nul>>, !.len = Len(result)]

\* http2d_buffer_add_comma_marks: a mark at p, and every four characters on.
CommaAt(b, p) == [Put(Move(b, p + 1, p, b.len - p), p, <<",">>) EXCEPT !.len = @ + 1]

CommaMarks(b, first, num) ==
  LET after[k \in 0..num] == IF k = 0 THEN EnsureSize(b, b.len + b.len \div 3 + 2)
                             ELSE CommaAt(after[k - 1], first + 4 * (k - 1))
  IN  after[num]

AddCommaMarks(b) ==
  LET off    == b.len % 3
      marked == IF off = 0 THEN CommaMarks(b, 3, b.len \div 3 - 1)
                ELSE CommaMarks(b, off, b.len \div 3)
  IN  IF b.len <= 3 THEN b ELSE Terminate(marked, marked.len)

\* http2d_buffer_trim
BufTrim(b) ==
  LET solid == {i \in 0..b.len - 1 : CharAt(b, i) \notin Blanks}
      s     == IF solid = {} THEN b.len ELSE CHOOSE i \in solid : \A j \in solid : i <= j
      last  == IF solid = {} THEN s - 1 ELSE CHOOSE i \in solid : \A j \in solid : i >= j
  IN  IF b.len <= 0 THEN b
      ELSE Terminate(Move(b, 0, s, last + 1 - s), last + 1 - s)

\* http2d_buffer_insert
BufInsert(b, t, pos) ==
  LET r == EnsureSize(b, b.len + Len(t) + 1)
  IN  Terminate(Put(Move(r, pos + Len(t), pos, b.len - pos), pos, t), b.len + Len(t))

-----------------------------------------------------------------------------
(* The same on sequences. *)

\* A character that repeats the one before it is left out.
TextRemoveDups(t, c) ==
  LET upTo[i \in 0..Len(t)] ==
        IF i = 0 THEN <<>>
        ELSE IF i > 1 /\ t[i] = c /\ t[i - 1] = c THEN upTo[i - 1]
        ELSE Append(upTo[i - 1], t[i])
  IN  upTo[Len(t)]

\* s is in t behind i characters.
Occurs(t, s, i) == i + Len(s) <= Len(t) /\ SubSeq(t, i + 1, i + Len(s)) = s

\* Every occurrence of s, from the left and without overlap: skip is how many
\* characters of the last one are still to come.
ReplaceUpTo(st, t, s, r, i) ==
  IF st.skip > 0 THEN [st EXCEPT !.skip = @ - 1]
  ELSE IF Occurs(t, s, i - 1) THEN [out |-> st.out \o r, skip |-> Len(s) - 1]
  ELSE [st EXCEPT !.out = Append(@, t[i])]
TextReplace(t, s, r) ==
  LET upTo[i \in 0..Len(t)] == IF i = 0 THEN [out |-> <<>>, skip |-> 0]
                               ELSE ReplaceUpTo(upTo[i - 1], t, s, r, i)
  IN  upTo[Len(t)].out

\* A comma before every third character from the right, unless it is the first.
TextCommas(t) ==
  LET upTo[i \in 0..Len(t)] ==
        IF i = 0 THEN <<>>
        ELSE upTo[i - 1] \o IF i > 1 /\ (Len(t) - i + 1) % 3 = 0 THEN <<",", t[i]>> ELSE <<t[i]>>
  IN  upTo[Len(t)]

TextTrim(t) ==
  LET solid == {i \in 1..Len(t) : t[i] \notin Blanks}
  IN  IF solid = {} THEN <<>> ELSE SubSeq(t, Min(solid), Max(solid))

Drop(t, from, n) == SubSeq(t, 1, from) \o SubSeq(t, from + n + 1, Len(t))

-----------------------------------------------------------------------------
(* The calls.  A guard on positions is the caller's obligation. *)

BufferInit ==
  \E t \in Given :
    /\ buffer = BufAdd(Empty, t)
    /\ text = t /\ written = (t # <<>>) /\ nedits = 0

Call(b, t) ==
  /\ nedits < MaxEdits /\ nedits' = nedits + 1
  /\ Len(t) <= MaxLen
  /\ buffer' = b /\ text' = t
  /\ written' = (written \/ t # <<>>)

AddText(t)     == Call(BufAdd(buffer, t), text \o t)
AddChar(c)     == Call(BufAddChar(buffer, c), Append(text, c))
AddCharN(c, n) == Call(BufAddCharN(buffer, c, n), text \o [i \in 1..n |-> c])
Prepend(t)     == Call(BufPrepend(buffer, t), t \o text)
Clean          == Call(BufClean(buffer), <<>>)
MoveBegin(n)   == Call(MoveToBegin(buffer, n), SubSeq(text, n + 1, Len(text)))
DropEnd(n)     == Call(DropEnding(buffer, n), SubSeq(text, 1, Len(text) - n))
Ensure(n)      == Call(EnsureAddlen(buffer, n), text)
SwapChars(c, d) == Call(SwapIn(buffer, c, d),
                        [i \in 1..Len(text) |-> IF text[i] = c THEN d ELSE text[i]])
ToLowcase      == Call(LowerIn(buffer), [i \in 1..Len(text) |-> Lower(text[i])])
Dedup(c)       == Call(RemoveDups(buffer, c), TextRemoveDups(text, c))
Commas         == Call(AddCommaMarks(buffer), TextCommas(text))
Trim           == Call(BufTrim(buffer), TextTrim(text))
Insert(t, n)   == n <= Len(text) /\ Call(BufInsert(buffer, t, n),
                                         SubSeq(text, 1, n) \o t \o SubSeq(text, n+1, Len(text)))
CutChunk(f, n) == f + n <= Len(text) /\ Call(RemoveChunk(buffer, f, n), Drop(text, f, n))
ReadFd(n, t)   == Len(t) <= n /\ Call(ReadFromFd(buffer, n, t), text \o t)

\* Slices with positions in the source, or none.
Slice(src, f, n) ==
  Call(AddSlice(buffer, src, f, n),
       text \o SubSeq(src, (IF f = SliceNone THEN 0 ELSE f) + 1, IF n = SliceNone THEN Len(src) ELSE n))

\* Memory that was ensured has no terminator for strstr yet.
Replace(s, r) ==
  /\ SizeOf(buffer) > 0 => written
  /\ Call(ReplaceString(buffer, s, r), TextReplace(text, s, r))

\* Removing may bring a new occurrence together, which goes too.
StripOne(t, s) ==
  LET at == {i \in 0..Len(t) : Occurs(t, s, i)}
  IN  IF at = {} THEN t ELSE Drop(t, Min(at), Len(s))
TextStrip(t, s) ==
  LET after[k \in 0..Len(t)] == IF k = 0 THEN t ELSE StripOne(after[k - 1], s)
  IN  after[Len(t)]
Strip(s) == Call(RemoveString(buffer, s), TextStrip(text, s))

\* http2d_buffer_mrproper, or http2d_buffer_dup and the release of the original.
MrproperBuffer == buffer' = Empty /\ text' = <<>> /\ written' = FALSE /\ UNCHANGED nedits
Dup ==
  /\ SizeOf(buffer) > 0
  /\ buffer' = [buffer EXCEPT !.mem = Read(buffer, 0, buffer.len + 1)]
  /\ UNCHANGED <<text, written, nedits>>

BufferNext ==
  \/ \E t \in Texts : AddText(t) \/ Prepend(t) \/ \E n \in 0..MaxLen : Insert(t, n) \/ ReadFd(n, t)
  \/ \E c \in Chars : AddChar(c) \/ Dedup(c)
  \/ \E c \in Chars, n \in 0..3 : AddCharN(c, n)
  \/ \E c, d \in Chars : SwapChars(c, d)
  \/ \E n \in 0..MaxLen : MoveBegin(n) \/ DropEnd(n) \/ Ensure(n) \/ \E f \in 0..MaxLen : CutChunk(f, n)
  \/ \E s \in Texts \ {<<>>} : Strip(s) \/ \E r \in Texts : Replace(s, r)
  \/ \E t \in Texts : \E f \in {SliceNone} \cup 0..Len(t), n \in {SliceNone} \cup 1..Len(t) : Slice(t, f, n)
  \/ Clean \/ Commas \/ Trim \/ ToLowcase \/ MrproperBuffer \/ Dup

BufferSpec == BufferInit /\ [][BufferNext]_bufferVars

-----------------------------------------------------------------------------
(* Properties. *)

\* However the calls follow each other, the buffer holds the text that they
\* make on sequences, no copy has run over the memory or used a byte of it that
\* was never set, and the text is terminated, as strstr and the users of
\* buf->buf expect.  (Memory that is ensured before anything is written has no
\* terminator.)
HoldsText ==
  /\ ~buffer.overrun
  /\ buffer.len = Len(text) /\ Read(buffer, 0, buffer.len) = text
  /\ SizeOf(buffer) > 0 => buffer.len < SizeOf(buffer)
  /\ SizeOf(buffer) > 0 /\ written => CharAt(buffer, buffer.len) = Nul
=============================================================================
