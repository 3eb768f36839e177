----------------------------- MODULE BufferProofs -----------------------------
(***************************************************************************)
(* Proofs about Buffer: texts of any length, over any characters but '\0',  *)
(* and any sequence of calls.                                               *)
(*                                                                         *)
(* Each call is taken by itself: if the memory carries the text, with room  *)
(* for the terminator and with the terminator if something was written,     *)
(* then it carries the text of the definitions on sequences after the call. *)
(* The loops of remove_string, replace_string, remove_dups and              *)
(* add_comma_marks are followed turn by turn, next to what the definitions  *)
(* on sequences have made of the same part of the text.                     *)
(***************************************************************************)
EXTENDS Buffer, SequenceFacts

\* The bytes of the memory, and the buffers.
Cells == Letters \cup {Nul, Garbage}
Buffers == [mem : Seq(Cells), len : Nat, overrun : BOOLEAN]

\* The buffer b holds the text t.
Carries(b, t) ==
  /\ b \in Buffers /\ ~b.overrun
  /\ b.len = Len(t) /\ \A i \in 1..Len(t) : b.mem[i] = t[i]

\* It holds t within its memory, with a terminator if one was written.
Holds(b, t, w) ==
  /\ Carries(b, t)
  /\ SizeOf(b) > 0 => Len(t) < SizeOf(b)
  /\ SizeOf(b) = 0 => Len(t) = 0
  /\ w => SizeOf(b) > 0 /\ b.mem[Len(t) + 1] = Nul

-----------------------------------------------------------------------------
(* Memory. *)

\* The fields of a buffer and their types.
LEMMA BufferFields ==
  ASSUME NEW b \in Buffers
  PROVE  /\ b.mem \in Seq(Cells) /\ b.len \in Nat /\ b.overrun \in BOOLEAN
         /\ SizeOf(b) \in Nat /\ SizeOf(b) = Len(b.mem) /\ DOMAIN b.mem = 1..SizeOf(b)
         /\ \A i \in 1..SizeOf(b) : b.mem[i] \in Cells
         /\ b = [mem |-> b.mem, len |-> b.len, overrun |-> b.overrun]
<1>1. b.mem \in Seq(Cells) /\ b.len \in Nat /\ b.overrun \in BOOLEAN
  BY DEF Buffers
<1>2. b = [mem |-> b.mem, len |-> b.len, overrun |-> b.overrun]
  BY DEF Buffers
<1> DEFINE m == b.mem
<1> HIDE DEF m
<1>3. m \in Seq(Cells)
  BY <1>1 DEF m
<1>4. Len(m) \in Nat /\ DOMAIN m = 1..Len(m) /\ \A i \in 1..Len(m) : m[i] \in Cells
  BY <1>3
<1> QED
  BY <1>1, <1>2, <1>4 DEF m, SizeOf

\* A function on 1..n is a sequence.
LEMMA MadeSeq ==
  ASSUME NEW S, NEW n \in Nat, NEW f, f = [i \in 1..n |-> f[i]], \A i \in 1..n : f[i] \in S
  PROVE  f \in Seq(S) /\ Len(f) = n /\ DOMAIN f = 1..n
<1>1. f \in [1..n -> S]
  <2>1. DOMAIN f = 1..n
    OBVIOUS
  <2> QED
    BY <2>1
<1> QED
  BY <1>1

\* Reading gives cells.
LEMMA ReadFacts ==
  ASSUME NEW b \in Buffers, NEW from \in Nat, NEW n \in Nat
  PROVE  /\ Read(b, from, n) \in Seq(Cells) /\ Len(Read(b, from, n)) = n
         /\ \A i \in 1..n : /\ Read(b, from, n)[i] = CharAt(b, from + i - 1)
                            /\ from + n <= SizeOf(b) => Read(b, from, n)[i] = b.mem[from + i]
<1>1. \A i \in Nat : CharAt(b, i) \in Cells
  <2> TAKE i \in Nat
  <2>1. CASE i < SizeOf(b)
    <3>1. i + 1 \in 1..SizeOf(b)
      BY <2>1, BufferFields
    <3> QED
      BY <2>1, <3>1, BufferFields DEF CharAt
  <2>2. CASE ~(i < SizeOf(b))
    BY <2>2 DEF CharAt, Cells
  <2> QED
    BY <2>1, <2>2
<1> DEFINE f == Read(b, from, n)
<1>2. f = [i \in 1..n |-> CharAt(b, from + i - 1)]
  BY DEF Read
<1> HIDE DEF f
<1>3. \A i \in 1..n : f[i] = CharAt(b, from + i - 1) /\ f[i] \in Cells
  <2> TAKE i \in 1..n
  <2>1. from + i - 1 \in Nat
    OBVIOUS
  <2> QED
    BY <1>1, <1>2, <2>1
<1>4. f = [i \in 1..n |-> f[i]]
  BY <1>2
<1>5. f \in Seq(Cells) /\ Len(f) = n
  BY <1>3, <1>4, MadeSeq
<1>6. ASSUME from + n <= SizeOf(b), NEW i \in 1..n PROVE f[i] = b.mem[from + i]
  <2>1. SizeOf(b) \in Nat
    BY BufferFields
  <2>2. from + i - 1 < SizeOf(b) /\ (from + i - 1) + 1 = from + i
    BY <1>6, <2>1
  <2>3. CharAt(b, from + i - 1) = b.mem[(from + i - 1) + 1]
    BY <2>2 DEF CharAt
  <2> QED
    BY <1>3, <2>2, <2>3
<1> QED
  BY <1>3, <1>5, <1>6 DEF f

\* Writing within the memory.
LEMMA PutFacts ==
  ASSUME NEW b \in Buffers, NEW pos \in Nat, NEW bytes \in Seq(Cells)
  PROVE  /\ Put(b, pos, bytes) \in Buffers
         /\ Put(b, pos, bytes).len = b.len
         /\ SizeOf(Put(b, pos, bytes)) = SizeOf(b)
         /\ pos + Len(bytes) <= SizeOf(b) =>
              /\ Put(b, pos, bytes).overrun = b.overrun
              /\ \A i \in 1..SizeOf(b) :
                   Put(b, pos, bytes).mem[i] =
                     IF pos < i /\ i <= pos + Len(bytes) THEN bytes[i - pos] ELSE b.mem[i]
<1> DEFINE n == SizeOf(b)
           m == [i \in DOMAIN b.mem |->
                   IF i \in pos + 1 .. pos + Len(bytes) THEN bytes[i - pos] ELSE b.mem[i]]
           r == Put(b, pos, bytes)
<1>1. /\ b.mem \in Seq(Cells) /\ b.len \in Nat /\ b.overrun \in BOOLEAN
      /\ n \in Nat /\ n = Len(b.mem) /\ DOMAIN b.mem = 1..n
      /\ \A i \in 1..n : b.mem[i] \in Cells
      /\ b = [mem |-> b.mem, len |-> b.len, overrun |-> b.overrun]
  BY BufferFields
<1>2. Len(bytes) \in Nat /\ \A i \in 1..Len(bytes) : bytes[i] \in Cells
  OBVIOUS
<1>3. CASE pos + Len(bytes) > n
  <2>1. r = [b EXCEPT !.overrun = TRUE]
    BY <1>3 DEF Put
  <2>2. r \in Buffers /\ r.len = b.len /\ r.mem = b.mem
    BY <2>1 DEF Buffers
  <2>3. ~(pos + Len(bytes) <= n)
    BY <1>1, <1>2, <1>3
  <2> HIDE DEF r, n
  <2> QED
    BY <2>2, <2>3 DEF SizeOf, r, n
<1>4. CASE ~(pos + Len(bytes) > n)
  <2>1. r = [b EXCEPT !.mem = m]
    BY <1>4 DEF Put
  <2>2. \A i \in 1..n : /\ m[i] = IF pos < i /\ i <= pos + Len(bytes) THEN bytes[i - pos] ELSE b.mem[i]
                        /\ m[i] \in Cells
    <3> TAKE i \in 1..n
    <3>1. i \in pos + 1 .. pos + Len(bytes) <=> pos < i /\ i <= pos + Len(bytes)
      BY <1>1, <1>2
    <3>2. m[i] = IF pos < i /\ i <= pos + Len(bytes) THEN bytes[i - pos] ELSE b.mem[i]
      BY <1>1, <3>1
    <3>3. pos < i /\ i <= pos + Len(bytes) => i - pos \in 1..Len(bytes)
      BY <1>1, <1>2
    <3> QED
      BY <1>1, <1>2, <3>2, <3>3
  <2>3. m = [i \in 1..n |-> m[i]]
    BY <1>1
  <2> HIDE DEF m, n
  <2>4. m \in Seq(Cells) /\ Len(m) = n
    BY <1>1, <2>2, <2>3, MadeSeq
  <2>5. r.mem = m /\ r.len = b.len /\ r.overrun = b.overrun /\ r \in Buffers
    BY <1>1, <2>1, <2>4 DEF Buffers
  <2> HIDE DEF r
  <2>6. SizeOf(r) = n
    BY <2>4, <2>5 DEF SizeOf
  <2> QED
    BY <2>2, <2>5, <2>6 DEF r, n
<1> QED
  BY <1>3, <1>4

\* memmove within the memory.
LEMMA MoveFacts ==
  ASSUME NEW b \in Buffers, NEW to \in Nat, NEW from \in Nat, NEW n \in Nat
  PROVE  /\ Move(b, to, from, n) \in Buffers
         /\ Move(b, to, from, n).len = b.len
         /\ SizeOf(Move(b, to, from, n)) = SizeOf(b)
         /\ to + n <= SizeOf(b) /\ from + n <= SizeOf(b) =>
              /\ Move(b, to, from, n).overrun = b.overrun
              /\ \A i \in 1..SizeOf(b) :
                   Move(b, to, from, n).mem[i] =
                     IF to < i /\ i <= to + n THEN b.mem[from + (i - to)] ELSE b.mem[i]
<1> DEFINE s == Read(b, from, n)
<1>1. s \in Seq(Cells) /\ Len(s) = n
  BY ReadFacts
<1>2. from + n <= SizeOf(b) => \A i \in 1..n : s[i] = b.mem[from + i]
  BY ReadFacts
<1>3. Move(b, to, from, n) = Put(b, to, s)
  BY DEF Move
<1> HIDE DEF s
<1>4. /\ Put(b, to, s) \in Buffers /\ Put(b, to, s).len = b.len
      /\ SizeOf(Put(b, to, s)) = SizeOf(b)
  BY <1>1, PutFacts
<1>5. ASSUME to + n <= SizeOf(b), from + n <= SizeOf(b)
      PROVE  /\ Put(b, to, s).overrun = b.overrun
             /\ \A i \in 1..SizeOf(b) :
                  Put(b, to, s).mem[i] =
                    IF to < i /\ i <= to + n THEN b.mem[from + (i - to)] ELSE b.mem[i]
  <2>1. /\ Put(b, to, s).overrun = b.overrun
        /\ \A i \in 1..SizeOf(b) :
             Put(b, to, s).mem[i] = IF to < i /\ i <= to + n THEN s[i - to] ELSE b.mem[i]
    BY <1>1, <1>5, PutFacts
  <2>2. \A i \in 1..SizeOf(b) : to < i /\ i <= to + n => s[i - to] = b.mem[from + (i - to)]
    <3> SUFFICES ASSUME NEW i \in 1..SizeOf(b), to < i, i <= to + n
                 PROVE  s[i - to] = b.mem[from + (i - to)]
      OBVIOUS
    <3>1. i - to \in 1..n
      OBVIOUS
    <3> QED
      BY <1>2, <1>5, <3>1
  <2> QED
    BY <2>1, <2>2
<1> QED
  BY <1>3, <1>4, <1>5

\* m is b after n bytes were moved within the memory.
Moved(b, m, to, from, n) ==
  /\ m \in Buffers /\ m.len = b.len /\ SizeOf(m) = SizeOf(b) /\ m.overrun = b.overrun
  /\ \A i \in 1..SizeOf(b) :
       m.mem[i] = IF to < i /\ i <= to + n THEN b.mem[from + (i - to)] ELSE b.mem[i]

\* memmove within the memory moves n bytes and leaves the others alone.
LEMMA MoveMoved ==
  ASSUME NEW b \in Buffers, NEW to \in Nat, NEW from \in Nat, NEW n \in Nat,
         to + n <= SizeOf(b), from + n <= SizeOf(b)
  PROVE  Moved(b, Move(b, to, from, n), to, from, n)
BY MoveFacts DEF Moved

\* p is b after bytes were written at pos, within the memory.
Filled(b, p, pos, bytes) ==
  /\ p \in Buffers /\ p.len = b.len /\ SizeOf(p) = SizeOf(b) /\ p.overrun = b.overrun
  /\ \A i \in 1..SizeOf(b) :
       p.mem[i] = IF pos < i /\ i <= pos + Len(bytes) THEN bytes[i - pos] ELSE b.mem[i]

\* A copy within the memory fills in its bytes and leaves the others alone.
LEMMA PutFilled ==
  ASSUME NEW b \in Buffers, NEW pos \in Nat, NEW bytes \in Seq(Cells),
         pos + Len(bytes) <= SizeOf(b)
  PROVE  Filled(b, Put(b, pos, bytes), pos, bytes)
BY PutFacts DEF Filled

-----------------------------------------------------------------------------
(* Terminators and more memory. *)

\* What is behind the terminator does not matter.
LEMMA TerminateHolds ==
  ASSUME NEW b \in Buffers, ~b.overrun, NEW t \in Seq(Letters), Len(t) < SizeOf(b),
         \A i \in 1..Len(t) : b.mem[i] = t[i], NEW w \in BOOLEAN
  PROVE  Holds(Terminate(b, Len(t)), t, w)
<1> DEFINE n == Len(t)
           c == [b EXCEPT !.len = n]
           r == Terminate(b, n)
<1>1. n \in Nat /\ SizeOf(b) \in Nat
  BY BufferFields
<1>2. c \in Buffers /\ c.mem = b.mem /\ c.len = n /\ c.overrun = b.overrun
  BY <1>1 DEF Buffers
<1>3. SizeOf(c) = SizeOf(b)
  BY <1>2 DEF SizeOf
<1>4. <<Nul>> \in Seq(Cells) /\ Len(<<Nul>>) = 1 /\ <<Nul>>[1] = Nul
  BY DEF Cells
<1>5. r = Put(c, n, <<Nul>>)
  BY DEF Terminate
<1> HIDE DEF c, n, r
<1>6. n + Len(<<Nul>>) <= SizeOf(c)
  BY <1>1, <1>3, <1>4 DEF n
<1>7. /\ r \in Buffers /\ r.len = n /\ SizeOf(r) = SizeOf(b) /\ ~r.overrun
      /\ \A i \in 1..SizeOf(b) :
           r.mem[i] = IF n < i /\ i <= n + Len(<<Nul>>) THEN <<Nul>>[i - n] ELSE c.mem[i]
  <2> DEFINE z == <<Nul>>
  <2> HIDE DEF z
  <2>1. z \in Seq(Cells) /\ n + Len(z) <= SizeOf(c)
    BY <1>4, <1>6 DEF z
  <2>2. /\ Put(c, n, z) \in Buffers /\ Put(c, n, z).len = c.len /\ SizeOf(Put(c, n, z)) = SizeOf(c)
        /\ Put(c, n, z).overrun = c.overrun
        /\ \A i \in 1..SizeOf(c) :
             Put(c, n, z).mem[i] = IF n < i /\ i <= n + Len(z) THEN z[i - n] ELSE c.mem[i]
    BY <1>1, <1>2, <2>1, PutFacts
  <2>3. r = Put(c, n, z)
    BY <1>5 DEF z
  <2> QED
    BY <1>2, <1>3, <2>2, <2>3 DEF z
<1>8. \A i \in 1..n : i \in 1..SizeOf(b) /\ ~(n < i)
  BY <1>1 DEF n
<1>9. \A i \in 1..n : r.mem[i] = t[i]
  BY <1>2, <1>7, <1>8 DEF n
<1>10. n + 1 \in 1..SizeOf(b) /\ n < n + 1 /\ n + 1 <= n + Len(<<Nul>>) /\ (n + 1) - n = 1
  BY <1>1, <1>4 DEF n
<1>11. r.mem[n + 1] = Nul
  BY <1>4, <1>7, <1>10
<1>12. SizeOf(r) > 0 /\ SizeOf(r) # 0 /\ n < SizeOf(r)
  BY <1>1, <1>7, <1>10 DEF n
<1> QED
  BY <1>7, <1>9, <1>11, <1>12 DEF Holds, Carries, n, r

\* More memory, with the old contents at its beginning.
LEMMA ReallocFacts ==
  ASSUME NEW b \in Buffers, NEW size \in Nat
  PROVE  /\ Realloc(b, size) \in Buffers /\ SizeOf(Realloc(b, size)) = size
         /\ Realloc(b, size).len = b.len /\ Realloc(b, size).overrun = b.overrun
         /\ \A i \in 1..size : i <= SizeOf(b) => Realloc(b, size).mem[i] = b.mem[i]
<1> DEFINE m == [i \in 1..size |-> IF i <= SizeOf(b) THEN b.mem[i] ELSE Garbage]
           r == Realloc(b, size)
<1>1. \A i \in 1..size : m[i] \in Cells
  <2> TAKE i \in 1..size
  <2>1. i <= SizeOf(b) => i \in 1..SizeOf(b)
    BY BufferFields
  <2> QED
    BY <2>1, BufferFields DEF Cells
<1>2. m = [i \in 1..size |-> m[i]] /\ \A i \in 1..size : i <= SizeOf(b) => m[i] = b.mem[i]
  OBVIOUS
<1>3. r = [b EXCEPT !.mem = m]
  BY DEF Realloc
<1> HIDE DEF m
<1>4. m \in Seq(Cells) /\ Len(m) = size
  BY <1>1, <1>2, MadeSeq
<1>5. r.mem = m /\ r.len = b.len /\ r.overrun = b.overrun /\ r \in Buffers
  BY <1>3, <1>4 DEF Buffers
<1> HIDE DEF r
<1>6. SizeOf(r) = size
  BY <1>4, <1>5 DEF SizeOf
<1> QED
  BY <1>2, <1>5, <1>6 DEF r

\* r is b with memory for n bytes at least.
Grown(b, r, n) ==
  /\ r \in Buffers /\ r.len = b.len /\ r.overrun = b.overrun
  /\ n <= SizeOf(r) /\ SizeOf(b) <= SizeOf(r)
  /\ \A i \in 1..SizeOf(b) : r.mem[i] = b.mem[i]

\* realloc_new_bufsize keeps what was there.
LEMMA ReallocGrown ==
  ASSUME NEW b \in Buffers, NEW n \in Nat, NEW size \in Nat, n <= size, SizeOf(b) <= size
  PROVE  Grown(b, Realloc(b, size), n)
<1>1. SizeOf(b) \in Nat
  BY BufferFields
<1>2. \A i \in 1..SizeOf(b) : i \in 1..size /\ i <= SizeOf(b)
  BY <1>1
<1> QED
  BY <1>1, <1>2, ReallocFacts DEF Grown

\* http2d_buffer_ensure_size keeps what was there and makes the size asked for.
LEMMA EnsureSizeGrown ==
  ASSUME NEW b \in Buffers, NEW n \in Nat
  PROVE  Grown(b, EnsureSize(b, n), n)
<1>1. SizeOf(b) \in Nat
  BY BufferFields
<1>2. CASE n <= SizeOf(b)
  BY <1>1, <1>2 DEF EnsureSize, Grown
<1>3. CASE ~(n <= SizeOf(b))
  <2>1. SizeOf(b) <= n /\ n <= n
    BY <1>1, <1>3
  <2> QED
    BY <1>3, <2>1, ReallocGrown DEF EnsureSize
<1> QED
  BY <1>2, <1>3

\* There is room for n more characters and the terminator.
LEMMA RoomGrown ==
  ASSUME NEW b \in Buffers, NEW n \in Nat, b.len <= SizeOf(b)
  PROVE  Grown(b, Room(b, n), b.len + n + 1)
<1>1. SizeOf(b) \in Nat /\ b.len \in Nat /\ Extra \in Nat
  BY BufferFields, BufferAssumption
<1>2. CASE SizeOf(b) - b.len < n + 1
  <2> DEFINE size == SizeOf(b) + (n - (SizeOf(b) - b.len)) + Extra + 1
  <2>1. Room(b, n) = Realloc(b, size)
    BY <1>2 DEF Room, ReallocInc
  <2>2. size \in Nat /\ b.len + n + 1 <= size /\ SizeOf(b) <= size /\ b.len + n + 1 \in Nat
    BY <1>1, <1>2
  <2> HIDE DEF size
  <2> QED
    BY <2>1, <2>2, ReallocGrown
<1>3. CASE ~(SizeOf(b) - b.len < n + 1)
  <2>1. Room(b, n) = b
    BY <1>3 DEF Room
  <2>2. b.len + n + 1 <= SizeOf(b)
    BY <1>1, <1>3
  <2> QED
    BY <1>1, <2>1, <2>2 DEF Grown
<1> QED
  BY <1>2, <1>3

\* What is grown holds what it held.
LEMMA GrownHolds ==
  ASSUME NEW b, NEW r, NEW t \in Seq(Letters), NEW w \in BOOLEAN, NEW n,
         Holds(b, t, w), Grown(b, r, n)
  PROVE  Holds(r, t, w)
<1>1. b \in Buffers /\ SizeOf(b) \in Nat /\ r \in Buffers /\ SizeOf(r) \in Nat /\ Len(t) \in Nat
  BY BufferFields DEF Holds, Carries, Grown
<1>2. \A i \in 1..Len(t) : i \in 1..SizeOf(b)
  BY <1>1 DEF Holds
<1>3. Carries(r, t)
  BY <1>1, <1>2 DEF Holds, Carries, Grown
<1>4. w => SizeOf(r) > 0 /\ r.mem[Len(t) + 1] = Nul
  <2> SUFFICES ASSUME w PROVE SizeOf(r) > 0 /\ r.mem[Len(t) + 1] = Nul
    OBVIOUS
  <2>1. SizeOf(b) > 0 /\ Len(t) < SizeOf(b) /\ b.mem[Len(t) + 1] = Nul
    BY DEF Holds
  <2>2. Len(t) + 1 \in 1..SizeOf(b)
    BY <1>1, <2>1
  <2> QED
    BY <1>1, <2>1, <2>2 DEF Grown
<1>5. SizeOf(r) > 0 => Len(t) < SizeOf(r)
  BY <1>1 DEF Holds, Grown
<1>6. SizeOf(r) = 0 => Len(t) = 0
  BY <1>1 DEF Holds, Grown
<1> QED
  BY <1>3, <1>4, <1>5, <1>6 DEF Holds

-----------------------------------------------------------------------------
(* Calls that add to the text. *)

\* The fields of a buffer that holds t.
LEMMA HoldsFacts ==
  ASSUME NEW b, NEW t \in Seq(Letters), NEW w, Holds(b, t, w)
  PROVE  /\ b \in Buffers /\ ~b.overrun /\ b.len = Len(t) /\ Len(t) \in Nat
         /\ SizeOf(b) \in Nat /\ Len(t) <= SizeOf(b) /\ b.len \in Nat
         /\ \A i \in 1..Len(t) : b.mem[i] = t[i]
         /\ w => Len(t) < SizeOf(b) /\ b.mem[Len(t) + 1] = Nul
<1>1. b \in Buffers /\ ~b.overrun /\ b.len = Len(t) /\ Len(t) \in Nat
      /\ \A i \in 1..Len(t) : b.mem[i] = t[i]
  BY DEF Holds, Carries
<1>2. SizeOf(b) \in Nat
  BY <1>1, BufferFields
<1>3. Len(t) <= SizeOf(b)
  BY <1>1, <1>2 DEF Holds
<1> QED
  BY <1>1, <1>2, <1>3 DEF Holds

\* The elements of a concatenation.
LEMMA ConcatFacts ==
  ASSUME NEW S, NEW t \in Seq(S), NEW s \in Seq(S)
  PROVE  /\ t \o s \in Seq(S) /\ Len(t \o s) = Len(t) + Len(s) /\ Len(t) \in Nat /\ Len(s) \in Nat
         /\ \A i \in 1..(Len(t) + Len(s)) :
              (t \o s)[i] = IF i <= Len(t) THEN t[i] ELSE s[i - Len(t)]
OBVIOUS

\* Bytes at the end, in memory that was made large enough.
LEMMA AppendHolds ==
  ASSUME NEW b, NEW r, NEW t \in Seq(Letters), NEW s \in Seq(Letters), NEW w, NEW v \in BOOLEAN,
         Holds(b, t, w), Grown(b, r, Len(t) + Len(s) + 1)
  PROVE  Holds(Terminate(Put(r, b.len, s), b.len + Len(s)), t \o s, v)
<1> DEFINE p == Put(r, Len(t), s)
           u == t \o s
           n == Len(t)
           k == Len(s)
<1>1. /\ b \in Buffers /\ ~b.overrun /\ b.len = n /\ n \in Nat /\ SizeOf(b) \in Nat /\ n <= SizeOf(b)
      /\ \A i \in 1..n : b.mem[i] = t[i]
  BY HoldsFacts
<1>2. u \in Seq(Letters) /\ Len(u) = n + k /\ k \in Nat
      /\ \A i \in 1..(n + k) : u[i] = IF i <= n THEN t[i] ELSE s[i - n]
  BY ConcatFacts
<1>3. s \in Seq(Cells)
  BY DEF Cells
<1>4. /\ r \in Buffers /\ ~r.overrun /\ SizeOf(r) \in Nat /\ n + k + 1 <= SizeOf(r)
      /\ SizeOf(b) <= SizeOf(r) /\ \A i \in 1..SizeOf(b) : r.mem[i] = b.mem[i]
  BY <1>1, BufferFields DEF Grown
<1> HIDE DEF n, k, u
<1>5. n + k <= SizeOf(r)
  BY <1>1, <1>2, <1>4
<1>6. /\ p \in Buffers /\ SizeOf(p) = SizeOf(r) /\ ~p.overrun
      /\ \A i \in 1..SizeOf(r) :
           p.mem[i] = IF n < i /\ i <= n + k THEN s[i - n] ELSE r.mem[i]
  <2>1. r \in Buffers /\ Len(t) \in Nat /\ s \in Seq(Cells) /\ Len(t) + Len(s) <= SizeOf(r)
    BY <1>1, <1>3, <1>4, <1>5 DEF n, k
  <2>2. /\ p \in Buffers /\ SizeOf(p) = SizeOf(r) /\ p.overrun = r.overrun
        /\ \A i \in 1..SizeOf(r) :
             p.mem[i] = IF Len(t) < i /\ i <= Len(t) + Len(s) THEN s[i - Len(t)] ELSE r.mem[i]
    BY <2>1, PutFacts
  <2> QED
    BY <1>4, <2>2 DEF n, k
<1> HIDE DEF p
<1>7. \A i \in 1..(n + k) : p.mem[i] = u[i]
  <2> TAKE i \in 1..(n + k)
  <2>1. i \in 1..SizeOf(r)
    BY <1>1, <1>2, <1>5, <1>4
  <2>2. CASE i <= n
    <3>1. i \in 1..n /\ i \in 1..SizeOf(b) /\ ~(n < i)
      BY <1>1, <1>2, <2>2
    <3> QED
      BY <1>1, <1>2, <1>4, <1>6, <2>1, <2>2, <3>1
  <2>3. CASE ~(i <= n)
    <3>1. n < i /\ i <= n + k
      BY <1>1, <1>2, <2>3
    <3> QED
      BY <1>2, <1>6, <2>1, <2>3, <3>1
  <2> QED
    BY <2>2, <2>3
<1>8. Len(u) < SizeOf(p) /\ \A i \in 1..Len(u) : p.mem[i] = u[i]
  BY <1>1, <1>2, <1>4, <1>6, <1>7
<1>9. Holds(Terminate(p, Len(u)), u, v)
  BY <1>2, <1>6, <1>8, TerminateHolds
<1> QED
  BY <1>1, <1>2, <1>9 DEF p, n, k, u

\* Wherever there is text, something was written.
Marked(t, w) == t # <<>> => w

\* http2d_buffer_add
LEMMA AddHolds ==
  ASSUME NEW b, NEW t \in Seq(Letters), NEW s \in Seq(Letters), NEW w \in BOOLEAN, Holds(b, t, w),
         Marked(t, w)
  PROVE  Holds(BufAdd(b, s), t \o s, w \/ t \o s # <<>>)
<1>1. b \in Buffers /\ b.len = Len(t) /\ b.len <= SizeOf(b)
  BY HoldsFacts
<1>2. CASE s = <<>>
  <2>1. t \o s = t
    BY <1>2
  <2>2. (w \/ t # <<>>) <=> w
    BY DEF Marked
  <2>3. BufAdd(b, s) = b
    BY <1>2 DEF BufAdd
  <2> QED
    BY <2>1, <2>2, <2>3 DEF Holds
<1>3. CASE s # <<>>
  <2>1. Len(s) \in Nat
    OBVIOUS
  <2>2. Grown(b, Room(b, Len(s)), Len(t) + Len(s) + 1)
    BY <1>1, <2>1, RoomGrown
  <2>3. BufAdd(b, s) = Terminate(Put(Room(b, Len(s)), b.len, s), b.len + Len(s))
    BY <1>3 DEF BufAdd
  <2> QED
    BY <2>2, <2>3, AppendHolds
<1> QED
  BY <1>2, <1>3

\* http2d_buffer_add_char
LEMMA AddCharHolds ==
  ASSUME NEW b, NEW t \in Seq(Letters), NEW c \in Letters, NEW w \in BOOLEAN, Holds(b, t, w)
  PROVE  Holds(BufAddChar(b, c), Append(t, c), TRUE)
<1> DEFINE r == IF b.len + 1 < SizeOf(b) THEN b ELSE ReallocInc(b, 1)
           s == <<c>>
<1>1. b \in Buffers /\ b.len = Len(t) /\ b.len \in Nat /\ b.len <= SizeOf(b) /\ SizeOf(b) \in Nat
  BY HoldsFacts
<1>2. s \in Seq(Letters) /\ Len(s) = 1 /\ t \o s = Append(t, c)
  OBVIOUS
<1>3. Grown(b, r, b.len + 1 + 1)
  <2>1. CASE b.len + 1 < SizeOf(b)
    BY <1>1, <2>1 DEF Grown
  <2>2. CASE ~(b.len + 1 < SizeOf(b))
    <3>1. SizeOf(b) + 1 + Extra + 1 \in Nat /\ SizeOf(b) <= SizeOf(b) + 1 + Extra + 1
          /\ b.len + 1 + 1 <= SizeOf(b) + 1 + Extra + 1 /\ b.len + 1 + 1 \in Nat
      BY <1>1, BufferAssumption
    <3> QED
      BY <1>1, <2>2, <3>1, ReallocGrown DEF ReallocInc
  <2> QED
    BY <2>1, <2>2
<1>4. BufAddChar(b, c) = Terminate(Put(r, b.len, s), b.len + 1)
  BY DEF BufAddChar
<1> HIDE DEF s, r
<1>5. Holds(Terminate(Put(r, b.len, s), b.len + Len(s)), t \o s, TRUE)
  BY <1>1, <1>2, <1>3, AppendHolds
<1> QED
  BY <1>2, <1>4, <1>5

\* n times c.
Repeat(c, n) == [i \in 1..n |-> c]

\* http2d_buffer_add_char_n
LEMMA AddCharNHolds ==
  ASSUME NEW b, NEW t \in Seq(Letters), NEW c \in Letters, NEW n \in Nat, NEW w \in BOOLEAN,
         Holds(b, t, w), Marked(t, w)
  PROVE  /\ Repeat(c, n) \in Seq(Letters)
         /\ Holds(BufAddCharN(b, c, n), t \o Repeat(c, n), w \/ t \o Repeat(c, n) # <<>>)
<1> DEFINE s == Repeat(c, n)
<1>1. b \in Buffers /\ b.len = Len(t) /\ b.len \in Nat /\ b.len <= SizeOf(b)
  BY HoldsFacts
<1>2. s \in Seq(Letters) /\ Len(s) = n
  BY DEF Repeat
<1>3. CASE n = 0
  <2>1. s = <<>>
    BY <1>3 DEF Repeat
  <2> HIDE DEF s
  <2>2. t \o s = t
    BY <2>1
  <2>3. (w \/ t # <<>>) <=> w
    BY DEF Marked
  <2>4. BufAddCharN(b, c, n) = b
    BY <1>3 DEF BufAddCharN
  <2> QED
    BY <1>2, <2>2, <2>3, <2>4 DEF Holds, s
<1>4. CASE n # 0
  <2>1. BufAddCharN(b, c, n) = Terminate(Put(Room(b, n), b.len, s), b.len + n)
    BY <1>4 DEF BufAddCharN, Repeat
  <2> HIDE DEF s
  <2>2. Grown(b, Room(b, n), Len(t) + n + 1)
    BY <1>1, RoomGrown
  <2>3. Holds(Terminate(Put(Room(b, n), b.len, s), b.len + Len(s)), t \o s, w \/ t \o s # <<>>)
    BY <1>2, <2>2, AppendHolds
  <2> QED
    BY <1>2, <2>1, <2>3 DEF s
<1> QED
  BY <1>3, <1>4

\* A part of a text, and a text without a part.
LEMMA PartFacts ==
  ASSUME NEW S, NEW t \in Seq(S), NEW m \in 1..(Len(t) + 1), NEW n \in (m - 1)..Len(t)
  PROVE  /\ SubSeq(t, m, n) \in Seq(S) /\ Len(SubSeq(t, m, n)) = n - m + 1
         /\ \A i \in 1..(n - m + 1) : SubSeq(t, m, n)[i] = t[m + i - 1]
OBVIOUS

\* A text with s put in behind pos characters.
PutIn(t, s, pos) == SubSeq(t, 1, pos) \o s \o SubSeq(t, pos + 1, Len(t))

\* The elements of a sequence with another one put into it.
LEMMA PutInFacts ==
  ASSUME NEW S, NEW t \in Seq(S), NEW s \in Seq(S), NEW pos \in 0..Len(t)
  PROVE  /\ PutIn(t, s, pos) \in Seq(S) /\ Len(PutIn(t, s, pos)) = Len(t) + Len(s)
         /\ \A i \in 1..(Len(t) + Len(s)) :
              PutIn(t, s, pos)[i] = IF i <= pos THEN t[i] ELSE IF i <= pos + Len(s) THEN s[i - pos]
                     ELSE t[i - Len(s)]
<1> DEFINE n == Len(t)
           k == Len(s)
           x == SubSeq(t, 1, pos)
           y == SubSeq(t, pos + 1, n)
           u == PutIn(t, s, pos)
           z == x \o s
<1>1. n \in Nat /\ k \in Nat /\ pos \in Nat /\ pos <= n
  OBVIOUS
<1>2. x \in Seq(S) /\ Len(x) = pos /\ \A i \in 1..pos : x[i] = t[i]
  OBVIOUS
<1>3. y \in Seq(S) /\ Len(y) = n - pos /\ \A i \in 1..(n - pos) : y[i] = t[pos + i]
  OBVIOUS
<1> HIDE DEF x, y, n, k
<1>4. z \in Seq(S) /\ Len(z) = pos + k /\ \A i \in 1..(pos + k) : z[i] = IF i <= pos THEN x[i] ELSE s[i - pos]
  <2>1. /\ z \in Seq(S) /\ Len(z) = Len(x) + Len(s)
        /\ \A i \in 1..(Len(x) + Len(s)) : z[i] = IF i <= Len(x) THEN x[i] ELSE s[i - Len(x)]
    BY <1>2, ConcatFacts
  <2> HIDE DEF z
  <2> QED
    BY <1>2, <2>1 DEF k
<1> HIDE DEF z, u
<1>5. /\ u \in Seq(S) /\ Len(u) = (pos + k) + (n - pos)
      /\ \A i \in 1..((pos + k) + (n - pos)) : u[i] = IF i <= pos + k THEN z[i] ELSE y[i - (pos + k)]
  <2>1. u = z \o y
    BY DEF z, x, y, n, u, PutIn
  <2>2. /\ z \o y \in Seq(S) /\ Len(z \o y) = Len(z) + Len(y)
        /\ \A i \in 1..(Len(z) + Len(y)) : (z \o y)[i] = IF i <= Len(z) THEN z[i] ELSE y[i - Len(z)]
    BY <1>3, <1>4, ConcatFacts
  <2> QED
    BY <1>3, <1>4, <2>1, <2>2
<1>6. (pos + k) + (n - pos) = n + k
  BY <1>1
<1>7. ASSUME NEW i \in 1..(n + k)
      PROVE  u[i] = IF i <= pos THEN t[i] ELSE IF i <= pos + k THEN s[i - pos] ELSE t[i - k]
  <2>1. i \in Nat /\ i > 0 /\ i \in 1..((pos + k) + (n - pos))
    BY <1>1, <1>6
  <2>2. CASE i <= pos + k
    <3>1. i \in 1..(pos + k) /\ (i <= pos => i \in 1..pos)
      BY <1>1, <2>1, <2>2
    <3> QED
      BY <1>1, <1>2, <1>4, <1>5, <2>1, <2>2, <3>1
  <2>3. CASE ~(i <= pos + k)
    <3>1. i - (pos + k) \in 1..(n - pos) /\ pos + (i - (pos + k)) = i - k /\ ~(i <= pos)
      BY <1>1, <2>1, <2>3
    <3>2. u[i] = y[i - (pos + k)]
      BY <1>5, <2>1, <2>3
    <3> QED
      BY <1>3, <2>3, <3>1, <3>2
  <2> QED
    BY <2>2, <2>3
<1> QED
  BY <1>5, <1>6, <1>7 DEF n, k, u

\* p is r with s put in behind pos of its first n bytes.
Opened(r, p, s, n, k, pos) ==
  /\ p \in Buffers /\ SizeOf(p) = SizeOf(r) /\ p.overrun = r.overrun
  /\ \A i \in 1..(n + k) :
       p.mem[i] = IF i <= pos THEN r.mem[i] ELSE IF i <= pos + k THEN s[i - pos] ELSE r.mem[i - k]

\* A text opened at pos for s: its rest moves up, and s is copied into the gap.
LEMMA OpenFacts ==
  ASSUME NEW r \in Buffers, NEW s \in Seq(Cells), NEW n \in Nat, NEW k \in Nat, Len(s) = k,
         NEW pos \in Nat, pos <= n, n + k < SizeOf(r)
  PROVE  Opened(r, Put(Move(r, pos + k, pos, n - pos), pos, s), s, n, k, pos)
<1> DEFINE dst == pos + k
           cnt == n - pos
           m == Move(r, dst, pos, cnt)
           p == Put(m, pos, s)
<1>1. SizeOf(r) \in Nat
  BY BufferFields
<1>2. dst \in Nat /\ cnt \in Nat /\ dst + cnt <= SizeOf(r) /\ pos + cnt <= SizeOf(r)
      /\ pos + k <= SizeOf(r)
  BY <1>1
<1> HIDE DEF dst, cnt
<1>3. Moved(r, m, dst, pos, cnt)
  BY <1>2, MoveMoved
<1> HIDE DEF m
<1>4. m \in Buffers /\ SizeOf(m) = SizeOf(r) /\ m.overrun = r.overrun
  BY <1>3 DEF Moved
<1>5. pos + Len(s) <= SizeOf(m)
  BY <1>2, <1>4
<1>6. Filled(m, p, pos, s)
  BY <1>4, <1>5, PutFilled
<1> HIDE DEF p
<1>7. ASSUME NEW i \in 1..(n + k)
      PROVE  p.mem[i] = IF i <= pos THEN r.mem[i] ELSE IF i <= pos + k THEN s[i - pos] ELSE r.mem[i - k]
  <2>1. i \in Nat /\ i > 0 /\ i \in 1..SizeOf(r) /\ i \in 1..SizeOf(m)
    BY <1>1, <1>4
  <2>2. p.mem[i] = IF pos < i /\ i <= pos + Len(s) THEN s[i - pos] ELSE m.mem[i]
    BY <1>6, <2>1 DEF Filled
  <2>3. m.mem[i] = IF dst < i /\ i <= dst + cnt THEN r.mem[pos + (i - dst)] ELSE r.mem[i]
    BY <1>3, <2>1 DEF Moved
  <2>4. CASE i <= pos
    <3>1. ~(pos < i) /\ ~(dst < i)
      BY <2>1, <2>4 DEF dst
    <3> QED
      BY <2>2, <2>3, <2>4, <3>1
  <2>5. CASE pos < i /\ i <= pos + k
    <3>1. ~(i <= pos)
      BY <2>1, <2>5
    <3> QED
      BY <2>2, <2>5, <3>1
  <2>6. CASE pos + k < i
    <3>1. /\ ~(i <= pos) /\ ~(i <= pos + k) /\ dst < i /\ i <= dst + cnt
          /\ pos + (i - dst) = i - k
      BY <2>1, <2>6 DEF dst, cnt
    <3> QED
      BY <2>2, <2>3, <3>1
  <2> QED
    BY <2>1, <2>4, <2>5, <2>6
<1>8. p \in Buffers /\ SizeOf(p) = SizeOf(r) /\ p.overrun = r.overrun
  BY <1>4, <1>6 DEF Filled
<1>9. Opened(r, p, s, n, k, pos)
  BY <1>7, <1>8 DEF Opened
<1> QED
  BY <1>9 DEF p, m, dst, cnt

\* Bytes that show a text are terminated behind it.
LEMMA ShownHolds ==
  ASSUME NEW p \in Buffers, ~p.overrun, NEW u \in Seq(Letters), NEW n, n = Len(u), n < SizeOf(p),
         \A i \in 1..n : p.mem[i] = u[i], NEW v \in BOOLEAN
  PROVE  Holds(Terminate(p, n), u, v)
BY TerminateHolds

\* http2d_buffer_insert
LEMMA InsertHolds ==
  ASSUME NEW b, NEW r, NEW t \in Seq(Letters), NEW s \in Seq(Letters), NEW w, NEW v \in BOOLEAN,
         Holds(b, t, w), Grown(b, r, Len(t) + Len(s) + 1), NEW pos \in 0..Len(t)
  PROVE  /\ PutIn(t, s, pos) \in Seq(Letters)
         /\ Holds(Terminate(Put(Move(r, pos + Len(s), pos, b.len - pos), pos, s), b.len + Len(s)),
                  PutIn(t, s, pos), v)
<1> DEFINE u == PutIn(t, s, pos)
<1> HIDE DEF u
<1>1. /\ b \in Buffers /\ ~b.overrun /\ b.len = Len(t) /\ Len(t) \in Nat /\ SizeOf(b) \in Nat
      /\ Len(t) <= SizeOf(b) /\ \A i \in 1..Len(t) : b.mem[i] = t[i]
  BY HoldsFacts
<1>2. /\ u \in Seq(Letters) /\ Len(u) = Len(t) + Len(s)
      /\ \A i \in 1..(Len(t) + Len(s)) :
           u[i] = IF i <= pos THEN t[i] ELSE IF i <= pos + Len(s) THEN s[i - pos]
                  ELSE t[i - Len(s)]
  BY PutInFacts, Zenon DEF u
<1>3. s \in Seq(Cells) /\ Len(s) \in Nat /\ pos \in Nat /\ pos <= Len(t)
  BY DEF Cells
<1>4. /\ r \in Buffers /\ ~r.overrun /\ SizeOf(r) \in Nat /\ Len(t) + Len(s) + 1 <= SizeOf(r)
      /\ SizeOf(b) <= SizeOf(r) /\ \A i \in 1..SizeOf(b) : r.mem[i] = b.mem[i]
  BY <1>1, BufferFields DEF Grown
<1> DEFINE n == Len(t)
           k == Len(s)
           p == Put(Move(r, pos + k, pos, n - pos), pos, s)
<1>5. n \in Nat /\ k \in Nat /\ Len(s) = k /\ pos \in Nat /\ pos <= n /\ n + k < SizeOf(r)
      /\ r \in Buffers /\ s \in Seq(Cells)
  BY <1>1, <1>3, <1>4
<1>6. /\ p \in Buffers /\ SizeOf(p) = SizeOf(r) /\ p.overrun = r.overrun
      /\ \A i \in 1..(n + k) :
           p.mem[i] = IF i <= pos THEN r.mem[i] ELSE IF i <= pos + k THEN s[i - pos] ELSE r.mem[i - k]
  <2> HIDE DEF n, k
  <2>1. Opened(r, p, s, n, k, pos)
    BY <1>5, OpenFacts
  <2> HIDE DEF p
  <2> QED
    BY <2>1 DEF Opened
<1>7. \A i \in 1..n : r.mem[i] = t[i]
  <2>1. \A i \in 1..n : i \in 1..SizeOf(b)
    BY <1>1
  <2> QED
    BY <1>1, <1>4, <2>1
<1>8. \A i \in 1..(n + k) :
        u[i] = IF i <= pos THEN t[i] ELSE IF i <= pos + k THEN s[i - pos] ELSE t[i - k]
  BY <1>2
<1> HIDE DEF n, k, p
<1>9. \A i \in 1..(n + k) : p.mem[i] = u[i]
  <2> TAKE i \in 1..(n + k)
  <2>1. CASE i <= pos
    <3>1. i \in 1..n
      BY <1>5, <2>1
    <3> QED
      BY <1>6, <1>7, <1>8, <2>1, <3>1
  <2>2. CASE ~(i <= pos) /\ i <= pos + k
    BY <1>6, <1>8, <2>2
  <2>3. CASE ~(i <= pos) /\ ~(i <= pos + k)
    <3>1. i - k \in 1..n
      BY <1>5, <2>3
    <3> QED
      BY <1>6, <1>7, <1>8, <2>3, <3>1
  <2> QED
    BY <2>1, <2>2, <2>3
<1>10. /\ p \in Buffers /\ ~p.overrun /\ n + k < SizeOf(p)
  BY <1>4, <1>5, <1>6
<1>11. n + k = Len(u)
  BY <1>2 DEF n, k
<1>12. Holds(Terminate(p, n + k), u, v)
  BY <1>2, <1>9, <1>10, <1>11, ShownHolds
<1> QED
  BY <1>1, <1>2, <1>12 DEF p, n, k, u

\* http2d_buffer_prepend
LEMMA PrependHolds ==
  ASSUME NEW b, NEW t \in Seq(Letters), NEW s \in Seq(Letters), NEW w, NEW v \in BOOLEAN, Holds(b, t, w)
  PROVE  Holds(BufPrepend(b, s), s \o t, v)
<1> DEFINE r == Room(b, Len(s))
           u == PutIn(t, s, 0)
<1>1. b \in Buffers /\ b.len = Len(t) /\ b.len <= SizeOf(b) /\ Len(s) \in Nat /\ Len(t) \in Nat
  BY HoldsFacts
<1>2. Grown(b, r, Len(t) + Len(s) + 1)
  BY <1>1, RoomGrown
<1>3. u = s \o t
  <2>1. SubSeq(t, 1, 0) = <<>> /\ SubSeq(t, 0 + 1, Len(t)) = t
    OBVIOUS
  <2> QED
    BY <2>1 DEF PutIn
<1>4. 0 \in 0..Len(t)
  BY <1>1
<1> HIDE DEF r
<1>5. Holds(Terminate(Put(Move(r, 0 + Len(s), 0, b.len - 0), 0, s), b.len + Len(s)), u, v)
  BY <1>2, <1>4, InsertHolds
<1>6. 0 + Len(s) = Len(s) /\ b.len - 0 = b.len
  BY <1>1
<1>7. BufPrepend(b, s) = Terminate(Put(Move(r, Len(s), 0, b.len), 0, s), b.len + Len(s))
  BY DEF BufPrepend, r
<1> HIDE DEF u
<1> QED
  BY <1>3, <1>5, <1>6, <1>7

\* http2d_buffer_clean
LEMMA CleanHolds ==
  ASSUME NEW b, NEW t \in Seq(Letters), NEW w \in BOOLEAN, Holds(b, t, w)
  PROVE  Holds(BufClean(b), <<>>, w)
<1>1. b \in Buffers /\ ~b.overrun /\ SizeOf(b) \in Nat
  BY HoldsFacts
<1>2. CASE SizeOf(b) = 0
  <2>1. Len(t) = 0 /\ ~w
    BY <1>2 DEF Holds
  <2>2. t = <<>>
    BY <2>1
  <2> QED
    BY <1>2, <2>2 DEF BufClean
<1>3. CASE SizeOf(b) # 0
  <2> DEFINE e == <<>>
  <2>1. e \in Seq(Letters) /\ Len(e) = 0
    OBVIOUS
  <2> HIDE DEF e
  <2>2. Len(e) < SizeOf(b) /\ \A i \in 1..Len(e) : b.mem[i] = e[i]
    BY <1>1, <1>3, <2>1
  <2>3. Holds(Terminate(b, Len(e)), e, w)
    BY <1>1, <2>1, <2>2, TerminateHolds
  <2> QED
    BY <1>3, <2>1, <2>3 DEF BufClean, e
<1> QED
  BY <1>2, <1>3

-----------------------------------------------------------------------------
(* Calls that take parts away. *)

\* A text without n characters behind from.
LEMMA DropFacts ==
  ASSUME NEW S, NEW t \in Seq(S), NEW from \in Nat, NEW n \in Nat, from + n <= Len(t)
  PROVE  /\ Drop(t, from, n) \in Seq(S) /\ Len(Drop(t, from, n)) = Len(t) - n
         /\ \A i \in 1..(Len(t) - n) : Drop(t, from, n)[i] = IF i <= from THEN t[i] ELSE t[i + n]
<1> DEFINE x == SubSeq(t, 1, from)
           y == SubSeq(t, from + n + 1, Len(t))
           k == Len(t)
           u == x \o y
<1>1. k \in Nat /\ from + n <= k
  OBVIOUS
<1>2. x \in Seq(S) /\ Len(x) = from /\ \A i \in 1..from : x[i] = t[i]
  OBVIOUS
<1>3. y \in Seq(S) /\ Len(y) = k - (from + n) /\ \A i \in 1..(k - (from + n)) : y[i] = t[from + n + i]
  OBVIOUS
<1>4. Drop(t, from, n) = u
  BY DEF Drop
<1> HIDE DEF x, y, k
<1>5. /\ u \in Seq(S) /\ Len(u) = Len(x) + Len(y)
      /\ \A i \in 1..(Len(x) + Len(y)) : u[i] = IF i <= Len(x) THEN x[i] ELSE y[i - Len(x)]
  <2>1. /\ x \o y \in Seq(S) /\ Len(x \o y) = Len(x) + Len(y)
        /\ \A i \in 1..(Len(x) + Len(y)) : (x \o y)[i] = IF i <= Len(x) THEN x[i] ELSE y[i - Len(x)]
    <3>1. x \in Seq(S) /\ y \in Seq(S)
      BY <1>2, <1>3
    <3> QED
      BY <3>1
  <2> QED
    BY <2>1
<1> HIDE DEF u
<1>6. Len(x) + Len(y) = k - n
  BY <1>1, <1>2, <1>3
<1>7. ASSUME NEW i \in 1..(k - n) PROVE u[i] = IF i <= from THEN t[i] ELSE t[i + n]
  <2>1. i \in 1..(Len(x) + Len(y)) /\ i \in Nat
    BY <1>1, <1>6
  <2>2. u[i] = IF i <= from THEN x[i] ELSE y[i - from]
    BY <1>2, <1>5, <2>1
  <2>3. CASE i <= from
    <3>1. i \in 1..from
      BY <2>3
    <3> QED
      BY <1>2, <2>2, <2>3, <3>1
  <2>4. CASE ~(i <= from)
    <3>1. i - from \in 1..(k - (from + n)) /\ from + n + (i - from) = i + n
      BY <1>1, <2>4
    <3> QED
      BY <1>3, <2>2, <2>4, <3>1
  <2> QED
    BY <2>3, <2>4
<1> QED
  BY <1>4, <1>5, <1>6, <1>7 DEF k

\* b with another length.
LEMMA LenFacts ==
  ASSUME NEW b \in Buffers, NEW n \in Nat, NEW r, r = [b EXCEPT !.len = n]
  PROVE  r \in Buffers /\ r.len = n /\ r.mem = b.mem /\ r.overrun = b.overrun /\ SizeOf(r) = SizeOf(b)
<1>1. r \in Buffers /\ r.len = n /\ r.mem = b.mem /\ r.overrun = b.overrun
  BY DEF Buffers
<1> QED
  BY <1>1 DEF SizeOf

\* Bytes that show a text, with the terminator behind it.
LEMMA ShownEnded ==
  ASSUME NEW p \in Buffers, ~p.overrun, NEW u \in Seq(Letters), NEW n, n = Len(u), n < SizeOf(p),
         p.len = n, \A i \in 1..n : p.mem[i] = u[i], p.mem[n + 1] = Nul, NEW v \in BOOLEAN
  PROVE  Holds(p, u, v)
<1>1. SizeOf(p) \in Nat /\ n \in Nat
  BY BufferFields
<1>2. SizeOf(p) > 0 /\ SizeOf(p) # 0
  BY <1>1
<1> QED
  BY <1>1, <1>2 DEF Holds, Carries

\* The rest of the text and its terminator move over n characters.
LEMMA CutHolds ==
  ASSUME NEW b, NEW t \in Seq(Letters), Holds(b, t, TRUE), NEW from \in Nat, NEW n \in Nat,
         from + n <= Len(t), NEW v \in BOOLEAN
  PROVE  Holds([Move(b, from, from + n, b.len - (from + n) + 1) EXCEPT !.len = @ - n], Drop(t, from, n), v)
<1> DEFINE k == Len(t)
           u == Drop(t, from, n)
           src == from + n
           cnt == k - (from + n) + 1
           m == Move(b, from, src, cnt)
           r == [m EXCEPT !.len = k - n]
<1>1. /\ b \in Buffers /\ ~b.overrun /\ b.len = k /\ k \in Nat /\ SizeOf(b) \in Nat /\ k < SizeOf(b)
      /\ b.mem[k + 1] = Nul /\ \A i \in 1..k : b.mem[i] = t[i]
  BY HoldsFacts
<1>2. u \in Seq(Letters) /\ Len(u) = k - n
  BY DropFacts
<1>3. \A i \in 1..(k - n) : u[i] = IF i <= from THEN t[i] ELSE t[i + n]
  BY DropFacts
<1>4. from + n <= k
  OBVIOUS
<1> HIDE DEF u, k
<1>5. src \in Nat /\ cnt \in Nat /\ from + cnt <= SizeOf(b) /\ src + cnt <= SizeOf(b) /\ k - n \in Nat
  BY <1>1, <1>4
<1> HIDE DEF src, cnt
<1>6. Moved(b, m, from, src, cnt)
  BY <1>1, <1>5, MoveMoved
<1> HIDE DEF m
<1>7. m \in Buffers /\ SizeOf(m) = SizeOf(b) /\ m.overrun = b.overrun /\ m.len = k
  BY <1>1, <1>6 DEF Moved
<1>8. \A i \in 1..(k - n) + 1 : m.mem[i] = IF i <= from THEN b.mem[i] ELSE b.mem[i + n]
  <2> TAKE i \in 1..(k - n) + 1
  <2>1. i \in Nat /\ i > 0 /\ i \in 1..SizeOf(b)
    BY <1>1, <1>4
  <2>2. m.mem[i] = IF from < i /\ i <= from + cnt THEN b.mem[src + (i - from)] ELSE b.mem[i]
    BY <1>6, <2>1 DEF Moved
  <2>3. CASE i <= from
    <3>1. ~(from < i)
      BY <2>1, <2>3
    <3> QED
      BY <2>2, <2>3, <3>1
  <2>4. CASE ~(i <= from)
    <3>1. from < i /\ i <= from + cnt /\ src + (i - from) = i + n
      BY <1>1, <1>4, <2>1, <2>4 DEF src, cnt
    <3> QED
      BY <2>2, <2>4, <3>1
  <2> QED
    BY <2>3, <2>4
<1>9. r \in Buffers /\ r.len = k - n /\ r.mem = m.mem /\ r.overrun = m.overrun /\ SizeOf(r) = SizeOf(m)
  BY <1>5, <1>7, LenFacts
<1> HIDE DEF r
<1>10. \A i \in 1..(k - n) : r.mem[i] = u[i]
  <2> TAKE i \in 1..(k - n)
  <2>1. i \in 1..(k - n) + 1 /\ (i <= from => i \in 1..k) /\ (~(i <= from) => i + n \in 1..k)
    BY <1>1, <1>4
  <2> QED
    BY <1>1, <1>3, <1>8, <1>9, <2>1
<1>11. r.mem[(k - n) + 1] = Nul
  <2>1. (k - n) + 1 \in 1..(k - n) + 1 /\ ~((k - n) + 1 <= from) /\ ((k - n) + 1) + n = k + 1
    BY <1>1, <1>4
  <2> QED
    BY <1>1, <1>8, <1>9, <2>1
<1>12. k - n < SizeOf(r) /\ ~r.overrun
  BY <1>1, <1>4, <1>7, <1>9
<1>13. Holds(r, u, v)
  BY <1>2, <1>9, <1>10, <1>11, <1>12, ShownEnded
<1>14. [Move(b, from, from + n, b.len - (from + n) + 1) EXCEPT !.len = @ - n] = r
  BY <1>1, <1>7 DEF r, m, src, cnt
<1> QED
  BY <1>13, <1>14 DEF u

\* http2d_buffer_move_to_begin
LEMMA MoveToBeginHolds ==
  ASSUME NEW b, NEW t \in Seq(Letters), NEW w \in BOOLEAN, Holds(b, t, w), Marked(t, w), NEW n \in Nat
  PROVE  /\ SubSeq(t, n + 1, Len(t)) \in Seq(Letters)
         /\ Holds(MoveToBegin(b, n), SubSeq(t, n + 1, Len(t)), w)
<1> DEFINE u == SubSeq(t, n + 1, Len(t))
<1>1. b.len = Len(t) /\ Len(t) \in Nat
  BY HoldsFacts
<1>2. u \in Seq(Letters)
  OBVIOUS
<1>3. CASE n >= b.len
  <2>1. u = <<>>
    BY <1>1, <1>3
  <2>2. MoveToBegin(b, n) = BufClean(b)
    BY <1>3 DEF MoveToBegin
  <2> HIDE DEF u
  <2> QED
    BY <1>2, <2>1, <2>2, CleanHolds DEF u
<1>4. CASE ~(n >= b.len)
  <2>1. n <= Len(t) /\ 0 + n <= Len(t) /\ 0 + n = n /\ Len(t) # 0
    BY <1>1, <1>4
  <2>2. t # <<>>
    BY <2>1
  <2>3. w
    BY <2>2 DEF Marked
  <2>4. u = Drop(t, 0, n)
    <3>1. SubSeq(t, 1, 0) = <<>>
      OBVIOUS
    <3>2. Drop(t, 0, n) = SubSeq(t, 1, 0) \o SubSeq(t, n + 1, Len(t))
      BY <2>1 DEF Drop
    <3>3. <<>> \o u = u
      BY <1>2
    <3> QED
      BY <3>1, <3>2, <3>3
  <2>5. MoveToBegin(b, n) = [Move(b, 0, n, b.len - n + 1) EXCEPT !.len = @ - n]
    BY <1>4 DEF MoveToBegin
  <2> HIDE DEF u
  <2>6. Holds(b, t, TRUE)
    BY <2>3
  <2>7. 0 \in Nat
    OBVIOUS
  <2>8. Holds([Move(b, 0, 0 + n, b.len - (0 + n) + 1) EXCEPT !.len = @ - n], Drop(t, 0, n), w)
    BY <2>1, <2>6, <2>7, CutHolds
  <2> QED
    BY <1>2, <2>1, <2>4, <2>5, <2>8 DEF u
<1> QED
  BY <1>3, <1>4

\* http2d_buffer_remove_chunk
LEMMA RemoveChunkHolds ==
  ASSUME NEW b, NEW t \in Seq(Letters), NEW w \in BOOLEAN, Holds(b, t, w), Marked(t, w),
         NEW from \in Nat, NEW n \in Nat, from + n <= Len(t)
  PROVE  Drop(t, from, n) \in Seq(Letters) /\ Holds(RemoveChunk(b, from, n), Drop(t, from, n), w)
<1>1. b.len = Len(t) /\ Len(t) \in Nat
  BY HoldsFacts
<1>2. Drop(t, from, n) \in Seq(Letters) /\ Len(Drop(t, from, n)) = Len(t) - n
  BY DropFacts
<1>3. CASE n = b.len
  <2>1. Len(Drop(t, from, n)) = 0
    BY <1>1, <1>2, <1>3
  <2>2. Drop(t, from, n) = <<>>
    BY <1>2, <2>1
  <2>3. Holds(BufClean(b), <<>>, w)
    BY CleanHolds
  <2>4. RemoveChunk(b, from, n) = BufClean(b)
    BY <1>3 DEF RemoveChunk
  <2> QED
    BY <1>2, <2>2, <2>3, <2>4
<1>4. CASE n # b.len
  <2>1. Len(t) # 0
    BY <1>1, <1>4
  <2>2. t # <<>>
    BY <2>1
  <2>3. Holds(b, t, TRUE)
    BY <2>2 DEF Marked
  <2>4. Holds([Move(b, from, from + n, b.len - (from + n) + 1) EXCEPT !.len = @ - n], Drop(t, from, n), w)
    BY <2>3, CutHolds
  <2>5. RemoveChunk(b, from, n) = [Move(b, from, from + n, b.len - (from + n) + 1) EXCEPT !.len = @ - n]
    BY <1>4 DEF RemoveChunk
  <2> QED
    BY <1>2, <2>4, <2>5
<1> QED
  BY <1>3, <1>4

\* http2d_buffer_drop_ending
LEMMA DropEndingHolds ==
  ASSUME NEW b, NEW t \in Seq(Letters), NEW w \in BOOLEAN, Holds(b, t, w), NEW n \in Nat
  PROVE  /\ SubSeq(t, 1, Len(t) - n) \in Seq(Letters)
         /\ Holds(DropEnding(b, n), SubSeq(t, 1, Len(t) - n), w)
<1> DEFINE u == SubSeq(t, 1, Len(t) - n)
           k == b.len - (IF n < b.len THEN n ELSE b.len)
<1>1. b \in Buffers /\ ~b.overrun /\ b.len = Len(t) /\ Len(t) \in Nat /\ SizeOf(b) \in Nat
      /\ \A i \in 1..Len(t) : b.mem[i] = t[i]
  BY HoldsFacts
<1>2. u \in Seq(Letters) /\ Len(u) = k /\ k \in Nat /\ k <= Len(t)
  <2>1. CASE n < b.len
    <3>1. Len(t) - n \in 0..Len(t)
      BY <1>1, <2>1
    <3>2. u \in Seq(Letters) /\ Len(u) = Len(t) - n
      BY <3>1
    <3> QED
      BY <1>1, <2>1, <3>2
  <2>2. CASE ~(n < b.len)
    <3>1. Len(t) - n < 1 /\ Len(t) - n \in Int /\ k = 0
      BY <1>1, <2>2
    <3>2. u = <<>>
      BY <3>1
    <3>3. <<>> \in Seq(Letters) /\ Len(<<>>) = 0
      OBVIOUS
    <3> HIDE DEF u, k
    <3>4. Len(u) = 0 /\ u \in Seq(Letters)
      BY <3>2, <3>3, Zenon
    <3> QED
      BY <1>1, <3>1, <3>4
  <2> QED
    BY <2>1, <2>2
<1>3. \A i \in 1..k : u[i] = t[i]
  <2>1. k = 0 \/ k = Len(t) - n
    BY <1>1
  <2>2. CASE k = 0
    BY <2>2
  <2>3. CASE k = Len(t) - n
    <3>1. Len(t) - n \in 0..Len(t)
      BY <1>1, <1>2, <2>3
    <3>2. \A i \in 1..(Len(t) - n) : u[i] = t[i]
      BY <3>1
    <3> HIDE DEF k, u
    <3> QED
      BY <2>3, <3>2
  <2> QED
    BY <2>1, <2>2, <2>3
<1> HIDE DEF u, k
<1>4. CASE SizeOf(b) = 0
  <2>1. Len(t) = 0
    BY <1>4 DEF Holds
  <2>2. k = 0
    BY <1>1, <1>2, <2>1
  <2>3. t = <<>> /\ u = <<>>
    BY <1>2, <2>1, <2>2
  <2>4. DropEnding(b, n) = b
    BY <1>4 DEF DropEnding
  <2> QED
    BY <1>2, <2>3, <2>4 DEF u
<1>5. CASE SizeOf(b) # 0
  <2>1. DropEnding(b, n) = Terminate(b, k)
    BY <1>5 DEF DropEnding, k
  <2>2. k < SizeOf(b)
    BY <1>1, <1>2, <1>5 DEF Holds
  <2>3. \A i \in 1..k : i \in 1..Len(t)
    BY <1>1, <1>2
  <2>4. \A i \in 1..k : b.mem[i] = u[i]
    BY <1>1, <1>3, <2>3
  <2>5. Holds(Terminate(b, k), u, w)
    BY <1>1, <1>2, <2>2, <2>4, ShownHolds
  <2> QED
    BY <1>2, <2>1, <2>5 DEF u
<1> QED
  BY <1>4, <1>5

\* http2d_buffer_ensure_addlen
LEMMA EnsureAddlenGrown ==
  ASSUME NEW b \in Buffers, NEW n \in Nat
  PROVE  Grown(b, EnsureAddlen(b, n), b.len + n + 1)
<1>1. SizeOf(b) \in Nat /\ b.len \in Nat
  BY BufferFields
<1>2. CASE b.len + n < SizeOf(b)
  BY <1>1, <1>2 DEF EnsureAddlen, Grown
<1>3. CASE ~(b.len + n < SizeOf(b))
  <2>1. b.len + n + 1 \in Nat
    BY <1>1
  <2> QED
    BY <1>3, <2>1, EnsureSizeGrown DEF EnsureAddlen
<1> QED
  BY <1>2, <1>3

\* http2d_buffer_read_from_fd
LEMMA ReadFromFdHolds ==
  ASSUME NEW b, NEW t \in Seq(Letters), NEW w \in BOOLEAN, Holds(b, t, w), Marked(t, w),
         NEW n \in Nat, NEW got \in Seq(Letters), Len(got) <= n
  PROVE  Holds(ReadFromFd(b, n, got), t \o got, w \/ t \o got # <<>>)
<1> DEFINE r == EnsureAddlen(b, n)
<1>1. b \in Buffers /\ b.len = Len(t) /\ Len(t) \in Nat
  BY HoldsFacts
<1>2. Grown(b, r, Len(t) + n + 1)
  BY <1>1, EnsureAddlenGrown
<1> HIDE DEF r
<1>3. CASE got = <<>>
  <2>1. t \o got = t /\ ((w \/ t # <<>>) <=> w)
    BY <1>3 DEF Marked
  <2>2. Holds(r, t, w)
    BY <1>2, GrownHolds
  <2>3. ReadFromFd(b, n, got) = r
    BY <1>3 DEF ReadFromFd, r
  <2>4. CASE w
    BY <2>1, <2>2, <2>3, <2>4
  <2>5. CASE ~w
    BY <2>1, <2>2, <2>3, <2>5
  <2> QED
    BY <2>4, <2>5
<1>4. CASE got # <<>>
  <2>1. Grown(b, r, Len(t) + Len(got) + 1)
    <3>1. Len(got) \in Nat /\ SizeOf(r) \in Nat /\ Len(t) + n + 1 <= SizeOf(r)
      BY <1>2, BufferFields DEF Grown
    <3>2. Len(t) + Len(got) + 1 <= SizeOf(r)
      BY <1>1, <3>1
    <3> QED
      BY <1>2, <3>2 DEF Grown
  <2>2. ReadFromFd(b, n, got) = Terminate(Put(r, b.len, got), b.len + Len(got))
    BY <1>4 DEF ReadFromFd, r
  <2>3. (w \/ t \o got # <<>>) \in BOOLEAN
    OBVIOUS
  <2> QED
    BY <2>1, <2>2, <2>3, AppendHolds
<1> QED
  BY <1>3, <1>4

\* The part of src between two positions.
SliceOf(src, f, n) ==
  SubSeq(src, (IF f = SliceNone THEN 0 ELSE f) + 1, IF n = SliceNone THEN Len(src) ELSE n)

\* http2d_buffer_add_buffer_slice
LEMMA AddSliceHolds ==
  ASSUME NEW b, NEW t \in Seq(Letters), NEW w \in BOOLEAN, Holds(b, t, w), Marked(t, w),
         NEW src \in Seq(Letters), NEW f \in {SliceNone} \cup 0..Len(src),
         NEW n \in {SliceNone} \cup 1..Len(src)
  PROVE  /\ SliceOf(src, f, n) \in Seq(Letters)
         /\ Holds(AddSlice(b, src, f, n), t \o SliceOf(src, f, n), w \/ t \o SliceOf(src, f, n) # <<>>)
<1> DEFINE s == SliceOf(src, f, n)
           k == Len(src)
           from == IF f = SliceNone THEN 0 ELSE f
           to == IF n = SliceNone THEN k ELSE n
<1>1. k \in Nat
  OBVIOUS
<1>2. from \in 0..k /\ to \in 0..k /\ (k # 0 => to > 0)
  BY <1>1
<1>3. s = SubSeq(src, from + 1, to)
  BY DEF SliceOf
<1> HIDE DEF s
<1>4. s \in Seq(Letters)
  <2> HIDE DEF from, to
  <2>1. from + 1 \in 1..(k + 1) /\ to \in 0..k
    BY <1>1, <1>2
  <2> QED
    BY <1>3, <2>1
<1>5. (k = 0 \/ to < from) => s = <<>>
  <2> HIDE DEF from, to
  <2> SUFFICES ASSUME k = 0 \/ to < from PROVE s = <<>>
    OBVIOUS
  <2>1. to < from + 1 /\ from + 1 \in Int /\ to \in Int
    BY <1>1, <1>2
  <2> QED
    BY <1>3, <2>1
<1>6. AddSlice(b, src, f, n) = IF k = 0 \/ to < from THEN b ELSE BufAdd(b, SubSeq(src, from + 1, to))
  <2>1. CASE k = 0
    BY <2>1 DEF AddSlice
  <2>2. CASE k # 0
    <3> DEFINE to1 == IF n = SliceNone THEN k ELSE IF n > 0 THEN n
                      ELSE IF -n > k THEN k + n ELSE -1
               from1 == IF f = SliceNone THEN 0
                        ELSE IF f >= 0 THEN IF f > k THEN k ELSE f
                        ELSE IF -f < k THEN k - f ELSE 0
    <3>1. to1 = to
      BY <1>1, <2>2 DEF SliceNone
    <3>2. from1 = from
      BY <1>1, <2>2 DEF SliceNone
    <3>3. AddSlice(b, src, f, n) =
            IF k = 0 \/ to1 < 0 \/ to1 > k \/ to1 < from1 THEN b
            ELSE BufAdd(b, SubSeq(src, from1 + 1, to1))
      BY DEF AddSlice
    <3> HIDE DEF to1, from1, to, from
    <3>4. ~(to < 0) /\ ~(to > k)
      BY <1>1, <1>2
    <3> HIDE DEF k
    <3> QED
      BY <3>1, <3>2, <3>3, <3>4, <2>2
  <2> QED
    BY <2>1, <2>2
<1> HIDE DEF from, to, k
<1>7. CASE s = <<>>
  <2>1. t \o s = t /\ ((w \/ t # <<>>) <=> w)
    <3>1. t \o <<>> = t
      OBVIOUS
    <3> QED
      BY <1>7, <3>1, Zenon DEF Marked
  <2>2. AddSlice(b, src, f, n) = b
    BY <1>3, <1>6, <1>7 DEF BufAdd
  <2>3. CASE w
    BY <1>4, <2>1, <2>2, <2>3 DEF s
  <2>4. CASE ~w
    BY <1>4, <2>1, <2>2, <2>4 DEF s
  <2> QED
    BY <2>3, <2>4
<1>8. CASE s # <<>>
  <2>1. AddSlice(b, src, f, n) = BufAdd(b, s)
    BY <1>3, <1>5, <1>6, <1>8
  <2>2. Holds(BufAdd(b, s), t \o s, w \/ t \o s # <<>>)
    BY <1>4, AddHolds
  <2> QED
    BY <1>4, <2>1, <2>2 DEF s
<1> QED
  BY <1>7, <1>8

-----------------------------------------------------------------------------
(* Calls that change characters where they are, and copies. *)

\* Letters are cells, and none of them is the terminator.
LEMMA LetterFacts ==
  /\ \A c \in Letters : c \in Cells /\ c # Nul /\ Lower(c) \in Letters
  /\ \A c \in Cells : Lower(c) \in Cells
  /\ \A c \in Chars : c \in Letters
  /\ "," \in Letters /\ Nul \in Cells
BY BufferAssumption DEF Letters, Cells, Lower, Nul

\* Bytes of the text are replaced where they are: f is the memory, u the text.
Changed(b, t, f, u) ==
  /\ f = [i \in 1..SizeOf(b) |-> f[i]] /\ \A i \in 1..SizeOf(b) : f[i] \in Cells
  /\ u = [i \in 1..Len(t) |-> u[i]] /\ \A i \in 1..Len(t) : u[i] \in Letters
  /\ \A i \in 1..SizeOf(b) : IF i <= Len(t) THEN f[i] = u[i] ELSE f[i] = b.mem[i]

\* A change of characters in place keeps the length and the terminator.
LEMMA ChangedHolds ==
  ASSUME NEW b, NEW t \in Seq(Letters), NEW w \in BOOLEAN, Holds(b, t, w),
         NEW f, NEW u, NEW r, r = [b EXCEPT !.mem = f], Changed(b, t, f, u)
  PROVE  u \in Seq(Letters) /\ Holds(r, u, w)
<1>1. /\ b \in Buffers /\ ~b.overrun /\ b.len = Len(t) /\ Len(t) \in Nat /\ SizeOf(b) \in Nat
      /\ Len(t) <= SizeOf(b) /\ (w => Len(t) < SizeOf(b) /\ b.mem[Len(t) + 1] = Nul)
  BY HoldsFacts
<1>2. (SizeOf(b) > 0 => Len(t) < SizeOf(b)) /\ (SizeOf(b) = 0 => Len(t) = 0)
  BY DEF Holds
<1> DEFINE n == SizeOf(b)
           k == Len(t)
<1> HIDE DEF n, k
<1>3. u \in Seq(Letters) /\ Len(u) = k
  <2>1. k \in Nat /\ u = [i \in 1..k |-> u[i]] /\ \A i \in 1..k : u[i] \in Letters
    BY <1>1 DEF k, Changed
  <2> QED
    BY <2>1, MadeSeq
<1>4. f \in Seq(Cells) /\ Len(f) = n
  <2>1. n \in Nat /\ f = [i \in 1..n |-> f[i]] /\ \A i \in 1..n : f[i] \in Cells
    BY <1>1 DEF n, Changed
  <2> QED
    BY <2>1, MadeSeq
<1>5. r.mem = f /\ r.len = b.len /\ r.overrun = b.overrun /\ r \in Buffers
  BY <1>1, <1>4 DEF Buffers
<1>6. SizeOf(r) = n
  BY <1>4, <1>5 DEF SizeOf
<1>7. \A i \in 1..n : IF i <= k THEN f[i] = u[i] ELSE f[i] = b.mem[i]
  BY DEF n, k, Changed
<1>8. k \in Nat /\ n \in Nat /\ k <= n /\ b.len = k /\ (n > 0 => k < n) /\ (n = 0 => k = 0)
      /\ (w => k < n /\ b.mem[k + 1] = Nul)
  BY <1>1, <1>2 DEF n, k
<1>9. \A i \in 1..k : r.mem[i] = u[i]
  <2>1. \A i \in 1..k : i \in 1..n /\ i <= k
    BY <1>8
  <2> QED
    BY <1>5, <1>7, <2>1
<1>10. w => r.mem[k + 1] = Nul
  <2> SUFFICES ASSUME w PROVE r.mem[k + 1] = Nul
    OBVIOUS
  <2>1. k + 1 \in 1..n /\ ~(k + 1 <= k)
    BY <1>8
  <2> QED
    BY <1>5, <1>7, <1>8, <2>1
<1>11. Carries(r, u)
  BY <1>1, <1>3, <1>5, <1>8, <1>9 DEF Carries
<1>12. /\ SizeOf(r) > 0 => Len(u) < SizeOf(r)
       /\ SizeOf(r) = 0 => Len(u) = 0
       /\ w => SizeOf(r) > 0 /\ r.mem[Len(u) + 1] = Nul
  BY <1>3, <1>6, <1>8, <1>10
<1> QED
  BY <1>3, <1>11, <1>12 DEF Holds

\* d for every c of a text, and small letters for its capitals.
Swapped(t, c, d) == [i \in 1..Len(t) |-> IF t[i] = c THEN d ELSE t[i]]
Lowered(t) == [i \in 1..Len(t) |-> Lower(t[i])]

\* http2d_buffer_swap_chars
LEMMA SwapInHolds ==
  ASSUME NEW b, NEW t \in Seq(Letters), NEW w \in BOOLEAN, Holds(b, t, w),
         NEW c \in Letters, NEW d \in Letters
  PROVE  /\ Swapped(t, c, d) \in Seq(Letters)
         /\ Holds(SwapIn(b, c, d), Swapped(t, c, d), w)
<1> DEFINE u == Swapped(t, c, d)
           f == [i \in DOMAIN b.mem |-> IF i <= b.len /\ b.mem[i] = c THEN d ELSE b.mem[i]]
           r == SwapIn(b, c, d)
<1>1. /\ b \in Buffers /\ b.len = Len(t) /\ Len(t) \in Nat /\ SizeOf(b) \in Nat
      /\ \A i \in 1..Len(t) : b.mem[i] = t[i]
  BY HoldsFacts
<1>2. DOMAIN b.mem = 1..SizeOf(b) /\ \A i \in 1..SizeOf(b) : b.mem[i] \in Cells
  BY <1>1, BufferFields
<1>3. \A i \in 1..Len(t) : t[i] \in Letters
  OBVIOUS
<1>4. r = [b EXCEPT !.mem = f]
  BY DEF SwapIn
<1>5. f = [i \in 1..SizeOf(b) |-> f[i]] /\ u = [i \in 1..Len(t) |-> u[i]]
  BY <1>2 DEF Swapped
<1>6. \A i \in 1..SizeOf(b) : f[i] = IF i <= Len(t) /\ b.mem[i] = c THEN d ELSE b.mem[i]
  BY <1>1, <1>2
<1>7. \A i \in 1..Len(t) : u[i] = IF t[i] = c THEN d ELSE t[i]
  BY DEF Swapped
<1> HIDE DEF u, f, r
<1>8. \A i \in 1..SizeOf(b) : f[i] \in Cells
  BY <1>2, <1>6, LetterFacts
<1>9. \A i \in 1..Len(t) : u[i] \in Letters
  BY <1>3, <1>7
<1>10. \A i \in 1..SizeOf(b) : IF i <= Len(t) THEN f[i] = u[i] ELSE f[i] = b.mem[i]
  <2> TAKE i \in 1..SizeOf(b)
  <2>1. CASE i <= Len(t)
    <3>1. i \in 1..Len(t)
      BY <1>1, <2>1
    <3> QED
      BY <1>1, <1>6, <1>7, <2>1, <3>1
  <2>2. CASE ~(i <= Len(t))
    BY <1>6, <2>2
  <2> QED
    BY <2>1, <2>2
<1>11. u \in Seq(Letters) /\ Holds(r, u, w)
  <2>1. Changed(b, t, f, u)
    BY <1>5, <1>8, <1>9, <1>10 DEF Changed
  <2> QED
    BY <1>4, <2>1, ChangedHolds
<1> QED
  BY <1>11 DEF u, r

\* http2d_buffer_to_lowcase
LEMMA LowerInHolds ==
  ASSUME NEW b, NEW t \in Seq(Letters), NEW w \in BOOLEAN, Holds(b, t, w)
  PROVE  /\ Lowered(t) \in Seq(Letters)
         /\ Holds(LowerIn(b), Lowered(t), w)
<1> DEFINE u == Lowered(t)
           f == [i \in DOMAIN b.mem |-> IF i <= b.len THEN Lower(b.mem[i]) ELSE b.mem[i]]
           r == LowerIn(b)
<1>1. /\ b \in Buffers /\ b.len = Len(t) /\ Len(t) \in Nat /\ SizeOf(b) \in Nat
      /\ \A i \in 1..Len(t) : b.mem[i] = t[i]
  BY HoldsFacts
<1>2. DOMAIN b.mem = 1..SizeOf(b) /\ \A i \in 1..SizeOf(b) : b.mem[i] \in Cells
  BY <1>1, BufferFields
<1>3. \A i \in 1..Len(t) : t[i] \in Letters
  OBVIOUS
<1>4. r = [b EXCEPT !.mem = f]
  BY DEF LowerIn
<1>5. f = [i \in 1..SizeOf(b) |-> f[i]] /\ u = [i \in 1..Len(t) |-> u[i]]
  BY <1>2 DEF Lowered
<1>6. \A i \in 1..SizeOf(b) : f[i] = IF i <= Len(t) THEN Lower(b.mem[i]) ELSE b.mem[i]
  BY <1>1, <1>2
<1>7. \A i \in 1..Len(t) : u[i] = Lower(t[i])
  BY DEF Lowered
<1> HIDE DEF u, f, r
<1>8. \A i \in 1..SizeOf(b) : f[i] \in Cells
  BY <1>2, <1>6, LetterFacts
<1>9. \A i \in 1..Len(t) : u[i] \in Letters
  BY <1>3, <1>7, LetterFacts
<1>10. \A i \in 1..SizeOf(b) : IF i <= Len(t) THEN f[i] = u[i] ELSE f[i] = b.mem[i]
  <2> TAKE i \in 1..SizeOf(b)
  <2>1. CASE i <= Len(t)
    <3>1. i \in 1..Len(t)
      BY <1>1, <2>1
    <3> QED
      BY <1>1, <1>6, <1>7, <2>1, <3>1
  <2>2. CASE ~(i <= Len(t))
    BY <1>6, <2>2
  <2> QED
    BY <2>1, <2>2
<1>11. u \in Seq(Letters) /\ Holds(r, u, w)
  <2>1. Changed(b, t, f, u)
    BY <1>5, <1>8, <1>9, <1>10 DEF Changed
  <2> QED
    BY <1>4, <2>1, ChangedHolds
<1> QED
  BY <1>11 DEF u, r

\* http2d_buffer_dup
LEMMA DupHolds ==
  ASSUME NEW b, NEW t \in Seq(Letters), NEW w \in BOOLEAN, Holds(b, t, w), SizeOf(b) > 0
  PROVE  Holds([b EXCEPT !.mem = Read(b, 0, b.len + 1)], t, w)
<1> DEFINE m == Read(b, 0, b.len + 1)
           r == [b EXCEPT !.mem = m]
           k == Len(t)
<1>1. /\ b \in Buffers /\ ~b.overrun /\ b.len = k /\ k \in Nat /\ SizeOf(b) \in Nat
      /\ (w => b.mem[k + 1] = Nul) /\ \A i \in 1..k : b.mem[i] = t[i]
  BY HoldsFacts
<1>2. k + 1 <= SizeOf(b)
  BY <1>1 DEF Holds
<1>3. /\ m \in Seq(Cells) /\ Len(m) = k + 1
      /\ \A i \in 1..(k + 1) : m[i] = b.mem[i]
  <2> DEFINE n == k + 1
  <2>1. n \in Nat /\ 0 + n <= SizeOf(b) /\ 0 \in Nat /\ m = Read(b, 0, n)
    BY <1>1, <1>2
  <2> HIDE DEF n, m
  <2>2. Read(b, 0, n) \in Seq(Cells) /\ Len(Read(b, 0, n)) = n
    BY <1>1, <2>1, ReadFacts
  <2>3. \A i \in 1..n : Read(b, 0, n)[i] = b.mem[0 + i]
    BY <1>1, <2>1, ReadFacts
  <2>4. \A i \in 1..n : 0 + i = i
    BY <2>1
  <2>5. \A i \in 1..n : m[i] = b.mem[i]
    BY <2>1, <2>3, <2>4
  <2> QED
    BY <2>1, <2>2, <2>5 DEF n
<1> HIDE DEF m, k
<1>4. r.mem = m /\ r.len = k /\ r.overrun = b.overrun /\ r \in Buffers
  BY <1>1, <1>3 DEF Buffers
<1> HIDE DEF r
<1>5. SizeOf(r) = k + 1
  BY <1>3, <1>4 DEF SizeOf
<1>6. /\ \A i \in 1..k : r.mem[i] = t[i]
      /\ w => r.mem[k + 1] = Nul
  BY <1>1, <1>3, <1>4
<1>7. Carries(r, t)
  BY <1>1, <1>4, <1>6 DEF Carries, k
<1>8. SizeOf(r) > 0 /\ SizeOf(r) # 0 /\ k < SizeOf(r)
  BY <1>1, <1>5
<1>9. Holds(r, t, w)
  BY <1>6, <1>7, <1>8 DEF Holds, k
<1> QED
  BY <1>9 DEF r, m

\* http2d_buffer_init, http2d_buffer_mrproper
LEMMA EmptyHolds ==
  Empty \in Buffers /\ Holds(Empty, <<>>, FALSE) /\ Marked(<<>>, FALSE)
<1>1. Empty.mem = <<>> /\ Empty.len = 0 /\ Empty.overrun = FALSE
  BY DEF Empty
<1>2. <<>> \in Seq(Cells) /\ Len(<<>>) = 0
  OBVIOUS
<1>3. Empty \in Buffers
  BY <1>2 DEF Empty, Buffers
<1>4. SizeOf(Empty) = 0
  BY <1>1, <1>2 DEF SizeOf
<1>5. Carries(Empty, <<>>)
  <2> DEFINE e == <<>>
  <2>1. Len(e) = 0
    OBVIOUS
  <2> HIDE DEF e
  <2>2. Empty.len = Len(e) /\ \A i \in 1..Len(e) : Empty.mem[i] = e[i]
    BY <1>1, <2>1
  <2> QED
    BY <1>1, <1>3, <2>2 DEF Carries, e
<1> QED
  BY <1>2, <1>3, <1>4, <1>5 DEF Holds, Marked

-----------------------------------------------------------------------------
(* http2d_buffer_trim. *)

\* A set of numbers up to n that is not empty has a greatest element.
LEMMA GreatestTo ==
  ASSUME NEW n \in Nat, NEW T \in SUBSET (0..n), T # {}
  PROVE  \E x \in T : \A y \in T : x >= y
<1> DEFINE U == {k \in 0..n : n - k \in T}
<1>1. PICK k \in U : \A l \in U : k <= l
  <2>1. PICK x \in T : TRUE
    OBVIOUS
  <2>2. n - x \in U
    <3>1. x \in 0..n /\ n - x \in 0..n /\ n - (n - x) = x
      OBVIOUS
    <3> QED
      BY <3>1
  <2>3. U \in SUBSET Nat
    OBVIOUS
  <2> HIDE DEF U
  <2>4. U # {}
    BY <2>2
  <2> QED
    BY <2>3, <2>4, LeastNat
<1>2. n - k \in T /\ k \in 0..n
  OBVIOUS
<1>3. \A y \in T : n - k >= y
  <2> TAKE y \in T
  <2>1. y \in 0..n /\ n - y \in 0..n /\ n - (n - y) = y
    OBVIOUS
  <2>2. n - y \in U
    BY <2>1
  <2>3. k <= n - y
    BY <1>1, <2>2
  <2> QED
    BY <1>2, <2>1, <2>3
<1> QED
  BY <1>2, <1>3

\* The least and the greatest are what CHOOSE takes.
LEMMA MinMaxFacts ==
  ASSUME NEW n \in Nat, NEW T \in SUBSET (0..n), T # {}
  PROVE  /\ Min(T) \in T /\ \A y \in T : Min(T) <= y
         /\ Max(T) \in T /\ \A y \in T : Max(T) >= y
         /\ (CHOOSE i \in T : \A j \in T : i <= j) = Min(T)
         /\ (CHOOSE i \in T : \A j \in T : i >= j) = Max(T)
<1>1. \E x \in T : \A y \in T : x <= y
  <2>1. T \in SUBSET Nat
    OBVIOUS
  <2> QED
    BY <2>1, LeastNat
<1>2. \E x \in T : \A y \in T : x >= y
  BY GreatestTo
<1> QED
  BY <1>1, <1>2, Zenon DEF Min, Max

\* n bytes behind s move to the beginning.
LEMMA SubHolds ==
  ASSUME NEW b, NEW t \in Seq(Letters), NEW w, Holds(b, t, w), Len(t) < SizeOf(b),
         NEW s \in Nat, NEW n \in Nat, s + n <= Len(t), NEW v \in BOOLEAN
  PROVE  /\ SubSeq(t, s + 1, s + n) \in Seq(Letters)
         /\ Holds(Terminate(Move(b, 0, s, n), n), SubSeq(t, s + 1, s + n), v)
<1> DEFINE u == SubSeq(t, s + 1, s + n)
           m == Move(b, 0, s, n)
<1>1. /\ b \in Buffers /\ ~b.overrun /\ Len(t) \in Nat /\ SizeOf(b) \in Nat
      /\ \A i \in 1..Len(t) : b.mem[i] = t[i]
  BY HoldsFacts
<1>2. u \in Seq(Letters) /\ Len(u) = n
  OBVIOUS
<1>3. \A i \in 1..n : u[i] = t[s + i]
  OBVIOUS
<1> HIDE DEF u
<1>4. 0 \in Nat /\ 0 + n <= SizeOf(b) /\ s + n <= SizeOf(b) /\ n < SizeOf(b)
  BY <1>1
<1>5. Moved(b, m, 0, s, n)
  BY <1>1, <1>4, MoveMoved
<1> HIDE DEF m
<1>6. m \in Buffers /\ ~m.overrun /\ SizeOf(m) = SizeOf(b)
  BY <1>1, <1>5 DEF Moved
<1>7. \A i \in 1..n : m.mem[i] = u[i]
  <2> TAKE i \in 1..n
  <2>1. i \in 1..SizeOf(b) /\ 0 < i /\ i <= 0 + n /\ s + (i - 0) = s + i /\ s + i \in 1..Len(t)
    BY <1>1
  <2>2. m.mem[i] = b.mem[s + i]
    BY <1>5, <2>1 DEF Moved
  <2> QED
    BY <1>1, <1>3, <2>1, <2>2
<1>8. Holds(Terminate(m, n), u, v)
  BY <1>2, <1>4, <1>6, <1>7, ShownHolds
<1> QED
  BY <1>2, <1>8 DEF u, m

\* http2d_buffer_trim
LEMMA TrimHolds ==
  ASSUME NEW b, NEW t \in Seq(Letters), NEW w \in BOOLEAN, Holds(b, t, w), Marked(t, w)
  PROVE  TextTrim(t) \in Seq(Letters) /\ Holds(BufTrim(b), TextTrim(t), w)
<1> DEFINE k == Len(t)
           T == {i \in 1..k : t[i] \notin Blanks}
           U == {i \in 0..k - 1 : CharAt(b, i) \notin Blanks}
<1>1. /\ b \in Buffers /\ b.len = k /\ k \in Nat /\ SizeOf(b) \in Nat /\ k <= SizeOf(b)
      /\ \A i \in 1..k : b.mem[i] = t[i]
  BY HoldsFacts
<1>2. \A i \in 0..k : i \in U <=> i + 1 \in T
  <2> TAKE i \in 0..k
  <2>1. CASE i < k
    <3>1. i < SizeOf(b) /\ i + 1 \in 1..k /\ i \in 0..k - 1
      BY <1>1, <2>1
    <3>2. CharAt(b, i) = t[i + 1]
      BY <1>1, <3>1 DEF CharAt
    <3> QED
      BY <3>1, <3>2
  <2>2. CASE ~(i < k)
    BY <1>1, <2>2
  <2> QED
    BY <2>1, <2>2
<1>3. TextTrim(t) = IF T = {} THEN <<>> ELSE SubSeq(t, Min(T), Max(T))
  BY DEF TextTrim
<1>4. T \in SUBSET (0..k) /\ \A i \in T : i \in 1..k
  OBVIOUS
<1>5. U \in SUBSET (0..k) /\ \A i \in U : i \in 0..k - 1
  BY <1>1
<1>6. CASE k = 0
  <2>1. T = {} /\ t = <<>>
    BY <1>6
  <2>2. BufTrim(b) = b
    BY <1>1, <1>6 DEF BufTrim
  <2> QED
    BY <1>3, <2>1, <2>2
<1>7. CASE k # 0
  <2>1. k < SizeOf(b)
    BY <1>1, <1>7 DEF Holds
  <2>2. BufTrim(b) =
          LET s    == IF U = {} THEN k ELSE CHOOSE i \in U : \A j \in U : i <= j
              last == IF U = {} THEN s - 1 ELSE CHOOSE i \in U : \A j \in U : i >= j
          IN  Terminate(Move(b, 0, s, last + 1 - s), last + 1 - s)
    BY <1>1, <1>7 DEF BufTrim
  <2> HIDE DEF T, U, k
  <2>3. CASE U = {}
    <3>1. T = {}
      <4> SUFFICES ASSUME NEW i \in T PROVE FALSE
        OBVIOUS
      <4>1. i \in 1..k /\ i - 1 \in 0..k /\ (i - 1) + 1 = i
        BY <1>1, <1>4
      <4> QED
        BY <1>2, <2>3, <4>1
    <3>2. BufTrim(b) = Terminate(Move(b, 0, k, k - 1 + 1 - k), k - 1 + 1 - k)
      BY <2>2, <2>3
    <3>3. k - 1 + 1 - k = 0 /\ k + 0 = k
      BY <1>1
    <3>4. SubSeq(t, k + 1, k) = <<>> /\ <<>> \in Seq(Letters)
      BY <1>1
    <3>5. k + 0 <= Len(t) /\ 0 \in Nat /\ Len(t) < SizeOf(b)
      BY <1>1, <2>1 DEF k
    <3>6. Holds(Terminate(Move(b, 0, k, 0), 0), SubSeq(t, k + 1, k + 0), w)
      BY <1>1, <3>5, SubHolds
    <3> QED
      BY <1>3, <3>1, <3>2, <3>3, <3>4, <3>6
  <2>4. CASE U # {}
    <3> DEFINE s == Min(U)
               l == Max(U)
    <3>1. /\ s \in U /\ \A j \in U : s <= j
          /\ l \in U /\ \A j \in U : l >= j
          /\ (CHOOSE i \in U : \A j \in U : i <= j) = s
          /\ (CHOOSE i \in U : \A j \in U : i >= j) = l
      BY <1>1, <1>5, <2>4, MinMaxFacts
    <3>2. BufTrim(b) = Terminate(Move(b, 0, s, l + 1 - s), l + 1 - s)
      BY <2>2, <2>4, <3>1
    <3> HIDE DEF s, l
    <3>3. s \in 0..k - 1 /\ l \in 0..k - 1 /\ s <= l /\ s \in 0..k /\ l \in 0..k
      BY <1>1, <1>5, <3>1
    <3>4. s + 1 \in T /\ l + 1 \in T /\ \A i \in T : s + 1 <= i /\ l + 1 >= i
      <4>1. s + 1 \in T /\ l + 1 \in T
        BY <1>2, <3>1, <3>3
      <4>2. ASSUME NEW i \in T PROVE s + 1 <= i /\ l + 1 >= i
        <5>1. i \in 1..k /\ i - 1 \in 0..k /\ (i - 1) + 1 = i
          BY <1>1, <1>4
        <5>2. i - 1 \in U
          BY <1>2, <5>1
        <5>3. s <= i - 1 /\ l >= i - 1
          BY <3>1, <5>2
        <5> QED
          BY <3>3, <5>1, <5>3
      <4> QED
        BY <4>1, <4>2
    <3>5. Min(T) = s + 1 /\ Max(T) = l + 1 /\ T # {}
      <4>1. /\ T # {} /\ Min(T) \in T /\ \A y \in T : Min(T) <= y
            /\ Max(T) \in T /\ \A y \in T : Max(T) >= y
        BY <1>1, <1>4, <3>4, MinMaxFacts
      <4>2. Min(T) \in 1..k /\ Max(T) \in 1..k
        BY <1>4, <4>1
      <4>3. Min(T) <= s + 1 /\ s + 1 <= Min(T) /\ Max(T) >= l + 1 /\ l + 1 >= Max(T)
        BY <3>4, <4>1
      <4> QED
        BY <3>3, <4>1, <4>2, <4>3
    <3> DEFINE n == l + 1 - s
    <3>6. n \in Nat /\ s \in Nat /\ s + n = l + 1 /\ s + n <= Len(t) /\ Len(t) < SizeOf(b)
      BY <1>1, <2>1, <3>3 DEF k
    <3>7. TextTrim(t) = SubSeq(t, s + 1, s + n)
      BY <1>3, <3>5, <3>6
    <3>8. BufTrim(b) = Terminate(Move(b, 0, s, n), n)
      BY <3>2
    <3> HIDE DEF n
    <3>9. /\ SubSeq(t, s + 1, s + n) \in Seq(Letters)
          /\ Holds(Terminate(Move(b, 0, s, n), n), SubSeq(t, s + 1, s + n), w)
      BY <3>6, SubHolds
    <3> QED
      BY <3>7, <3>8, <3>9
  <2> QED
    BY <2>3, <2>4
<1> QED
  BY <1>6, <1>7

-----------------------------------------------------------------------------
(* strstr and http2d_buffer_remove_string. *)

\* Two sequences with the same elements are equal.
LEMMA SameSeq ==
  ASSUME NEW S, NEW T, NEW x \in Seq(S), NEW y \in Seq(T), Len(x) = Len(y),
         \A i \in 1..Len(x) : x[i] = y[i]
  PROVE  x = y
<1>1. x = [i \in 1..Len(x) |-> x[i]] /\ y = [i \in 1..Len(y) |-> y[i]]
  OBVIOUS
<1> QED
  BY <1>1

\* Reading a part of the text.
LEMMA ReadPart ==
  ASSUME NEW b, NEW t \in Seq(Letters), NEW w, Holds(b, t, w), NEW i \in Nat, NEW n \in Nat,
         i + n <= Len(t)
  PROVE  Read(b, i, n) = SubSeq(t, i + 1, i + n) /\ SubSeq(t, i + 1, i + n) \in Seq(Letters)
<1> DEFINE x == Read(b, i, n)
           y == SubSeq(t, i + 1, i + n)
<1>1. b \in Buffers /\ Len(t) \in Nat /\ SizeOf(b) \in Nat /\ Len(t) <= SizeOf(b)
      /\ \A j \in 1..Len(t) : b.mem[j] = t[j]
  BY HoldsFacts
<1>2. y \in Seq(Letters) /\ Len(y) = n /\ \A j \in 1..n : y[j] = t[i + j]
  OBVIOUS
<1>3. i + n <= SizeOf(b)
  BY <1>1
<1>4. x \in Seq(Cells) /\ Len(x) = n
  BY <1>1, ReadFacts
<1>5. \A j \in 1..n : x[j] = b.mem[i + j]
  BY <1>1, <1>3, ReadFacts
<1>6. \A j \in 1..n : i + j \in 1..Len(t)
  OBVIOUS
<1> HIDE DEF x, y
<1>7. Len(x) = Len(y) /\ \A j \in 1..Len(x) : x[j] = y[j]
  BY <1>1, <1>2, <1>4, <1>5, <1>6
<1>8. x = y
  BY <1>2, <1>4, <1>7, SameSeq
<1> QED
  BY <1>2, <1>8 DEF x, y

\* Where s is in t, from a position on.
Places(t, s, from) == {i \in from..Len(t) : Occurs(t, s, i)}

\* The places of s in t, and the first of them.
LEMMA PlacesFacts ==
  ASSUME NEW t \in Seq(Letters), NEW s \in Seq(Letters), NEW from \in 0..Len(t)
  PROVE  /\ Places(t, s, from) \in SUBSET (0..Len(t))
         /\ \A i \in Places(t, s, from) : i \in from..Len(t) /\ i + Len(s) <= Len(t) /\ Occurs(t, s, i)
         /\ Places(t, s, from) # {} =>
              /\ Min(Places(t, s, from)) \in Places(t, s, from)
              /\ \A i \in Places(t, s, from) : Min(Places(t, s, from)) <= i
<1>1. Len(t) \in Nat
  OBVIOUS
<1>2. \A i \in Places(t, s, from) : i \in from..Len(t) /\ i + Len(s) <= Len(t) /\ Occurs(t, s, i)
  BY DEF Places, Occurs
<1>3. Places(t, s, from) \in SUBSET (0..Len(t))
  BY <1>1, <1>2
<1>4. Places(t, s, from) # {} =>
        /\ Min(Places(t, s, from)) \in Places(t, s, from)
        /\ \A i \in Places(t, s, from) : Min(Places(t, s, from)) <= i
  BY <1>1, <1>3, MinMaxFacts
<1> QED
  BY <1>2, <1>3, <1>4

\* strstr finds the first of them, up to the terminator.
LEMMA StrStrFacts ==
  ASSUME NEW b, NEW t \in Seq(Letters), Holds(b, t, TRUE), NEW s \in Seq(Letters),
         NEW from \in 0..Len(t)
  PROVE  StrStr(b, from, s) = IF Places(t, s, from) = {} THEN -1 ELSE Min(Places(t, s, from))
<1> DEFINE k == Len(t)
           T == {i \in from..SizeOf(b) : i = SizeOf(b) \/ CharAt(b, i) = Nul}
           at == {i \in from..k - Len(s) : Read(b, i, Len(s)) = s}
<1>1. /\ b \in Buffers /\ k \in Nat /\ SizeOf(b) \in Nat /\ k < SizeOf(b)
      /\ b.mem[k + 1] = Nul /\ \A i \in 1..k : b.mem[i] = t[i]
  BY HoldsFacts
<1>2. \A i \in 1..k : t[i] \in Letters /\ t[i] # Nul
  <2>1. \A i \in 1..k : t[i] \in Letters
    OBVIOUS
  <2> QED
    BY <2>1, LetterFacts
<1>3. k \in T
  <2>1. k < SizeOf(b) /\ k \in from..SizeOf(b)
    BY <1>1
  <2>2. CharAt(b, k) = b.mem[k + 1]
    BY <2>1 DEF CharAt
  <2> QED
    BY <1>1, <2>1, <2>2
<1>4. \A i \in T : k <= i
  <2> SUFFICES ASSUME NEW i \in from..SizeOf(b), i < k, i = SizeOf(b) \/ CharAt(b, i) = Nul PROVE FALSE
    BY <1>1
  <2>1. i < SizeOf(b) /\ i # SizeOf(b) /\ i + 1 \in 1..k
    BY <1>1
  <2>2. CharAt(b, i) = t[i + 1]
    BY <1>1, <2>1 DEF CharAt
  <2> QED
    BY <1>2, <2>1, <2>2
<1>5. T \in SUBSET (0..SizeOf(b))
  BY <1>1
<1>6. Min(T) = k
  <2> HIDE DEF T
  <2>1. Min(T) \in T /\ \A y \in T : Min(T) <= y
    BY <1>1, <1>3, <1>5, MinMaxFacts
  <2>2. Min(T) \in 0..SizeOf(b) /\ Min(T) <= k /\ k <= Min(T)
    BY <1>3, <1>4, <1>5, <2>1
  <2> QED
    BY <1>1, <2>2
<1>7. StrStr(b, from, s) = IF at = {} THEN -1 ELSE Min(at)
  BY <1>6 DEF StrStr
<1>8. at = Places(t, s, from)
  <2>1. ASSUME NEW i \in from..k PROVE i \in at <=> Occurs(t, s, i)
    <3>1. CASE i + Len(s) <= k
      <4>1. i \in Nat /\ Len(s) \in Nat /\ i + Len(s) <= Len(t) /\ i \in from..k - Len(s)
        BY <1>1, <3>1
      <4>2. Read(b, i, Len(s)) = SubSeq(t, i + 1, i + Len(s))
        BY <4>1, ReadPart
      <4> QED
        BY <4>1, <4>2 DEF Occurs
    <3>2. CASE ~(i + Len(s) <= k)
      <4>1. Len(s) \in Nat
        OBVIOUS
      <4>2. i \notin from..k - Len(s)
        BY <1>1, <3>2, <4>1
      <4> QED
        BY <3>2, <4>2 DEF Occurs
    <3> QED
      BY <3>1, <3>2
  <2>2. \A i \in at : i \in from..k
    <3>1. Len(s) \in Nat
      OBVIOUS
    <3> QED
      BY <1>1, <3>1
  <2> HIDE DEF at
  <2> QED
    BY <2>1, <2>2 DEF Places
<1> HIDE DEF at
<1> QED
  BY <1>7, <1>8

\* One turn of http2d_buffer_remove_string.
LEMMA RemoveOneHolds ==
  ASSUME NEW b, NEW t \in Seq(Letters), Holds(b, t, TRUE), NEW s \in Seq(Letters)
  PROVE  StripOne(t, s) \in Seq(Letters) /\ Holds(RemoveOne(b, s), StripOne(t, s), TRUE)
<1> DEFINE P == Places(t, s, 0)
<1>1. b.len = Len(t) /\ Len(t) \in Nat /\ 0 \in 0..Len(t) /\ Len(s) \in Nat
  <2>1. b.len = Len(t) /\ Len(t) \in Nat
    BY HoldsFacts
  <2>2. Len(s) \in Nat
    OBVIOUS
  <2> QED
    BY <2>1, <2>2
<1>2. StrStr(b, 0, s) = IF P = {} THEN -1 ELSE Min(P)
  BY <1>1, StrStrFacts
<1>3. StripOne(t, s) = IF P = {} THEN t ELSE Drop(t, Min(P), Len(s))
  BY DEF StripOne, Places
<1>4. CASE P = {}
  BY <1>2, <1>3, <1>4 DEF RemoveOne
<1>5. CASE P # {}
  <2> DEFINE at == Min(P)
  <2>1. at \in P
    BY <1>1, <1>5, PlacesFacts
  <2>2. at \in 0..Len(t) /\ at + Len(s) <= Len(t)
    BY <1>1, <2>1, PlacesFacts
  <2>3. StrStr(b, 0, s) = at /\ StripOne(t, s) = Drop(t, at, Len(s))
    BY <1>2, <1>3, <1>5
  <2> HIDE DEF at, P
  <2>4. at \in Nat /\ at # -1
    BY <1>1, <2>2
  <2>5. RemoveOne(b, s) = [Move(b, at, at + Len(s), b.len - (at + Len(s)) + 1) EXCEPT !.len = @ - Len(s)]
    BY <2>3, <2>4 DEF RemoveOne
  <2>6. Holds([Move(b, at, at + Len(s), b.len - (at + Len(s)) + 1) EXCEPT !.len = @ - Len(s)],
              Drop(t, at, Len(s)), TRUE)
    BY <1>1, <2>2, <2>4, CutHolds
  <2>7. Drop(t, at, Len(s)) \in Seq(Letters)
    BY <1>1, <2>2, <2>4, DropFacts
  <2> QED
    BY <2>3, <2>5, <2>6, <2>7
<1> QED
  BY <1>4, <1>5

\* The buffers that hold some text.
TextBuffers == {b \in Buffers : \E t \in Seq(Letters) : Holds(b, t, TRUE)}

\* What it is to be a buffer with a terminated text.
LEMMA TextBufferFacts ==
  ASSUME NEW b
  PROVE  b \in TextBuffers <=> \E t \in Seq(Letters) : Holds(b, t, TRUE)
BY HoldsFacts DEF TextBuffers

\* The texts that are left after every turn.
LEMMA StripTurns ==
  ASSUME NEW t \in Seq(Letters), NEW s \in Seq(Letters)
  PROVE  \E A : /\ TextStrip(t, s) = A[Len(t)] /\ A[0] = t
                /\ \A i \in 1..Len(t) : A[i] = StripOne(A[i - 1], s)
<1> DEFINE n == Len(t)
           X == Seq(Letters)
           step == [i \in 1..n |-> [x \in X |-> StripOne(x, s)]]
           F(u) == [k \in 0..n |-> IF k = 0 THEN t ELSE StripOne(u[k - 1], s)]
<1>1. n \in Nat
  OBVIOUS
<1>2. \A x \in X : StripOne(x, s) \in X
  <2> TAKE x \in X
  <2> DEFINE P == Places(x, s, 0)
  <2>1. StripOne(x, s) = IF P = {} THEN x ELSE Drop(x, Min(P), Len(s))
    BY DEF StripOne, Places
  <2>2. Len(x) \in Nat /\ 0 \in 0..Len(x) /\ Len(s) \in Nat
    OBVIOUS
  <2>3. P # {} => Min(P) \in 0..Len(x) /\ Min(P) + Len(s) <= Len(x)
    BY <2>2, PlacesFacts
  <2> HIDE DEF P
  <2>4. P # {} => Drop(x, Min(P), Len(s)) \in X
    BY <2>2, <2>3, DropFacts
  <2> QED
    BY <2>1, <2>4
<1>3. TextStrip(t, s) = (CHOOSE u : u = F(u))[n]
  BY DEF TextStrip
<1>4. t \in X
  OBVIOUS
<1> HIDE DEF n, X
<1>5. step \in [1..n -> [X -> X]] /\ \A x \in X, i \in 1..n : step[i][x] = StripOne(x, s)
  BY <1>2
<1> HIDE DEF step
<1>6. PICK g : GoesBy(g, n, X, t, step)
  BY <1>1, <1>4, <1>5, Recursion
<1>7. g \in [0..n -> X] /\ g[0] = t /\ \A i \in 1..n : g[i] = step[i][g[i - 1]]
  BY <1>6 DEF GoesBy
<1>8. \A i \in 1..n : g[i] = StripOne(g[i - 1], s)
  <2> TAKE i \in 1..n
  <2>1. i - 1 \in 0..n
    BY <1>1
  <2> QED
    BY <1>5, <1>7, <2>1
<1>9. g = F(g)
  <2>1. \A i \in 0..n : g[i] = F(g)[i]
    BY <1>1, <1>7, <1>8
  <2> QED
    BY <1>7, <2>1
<1> DEFINE A == CHOOSE u : u = F(u)
<1>10. A = F(A)
  <2> HIDE DEF F
  <2> QED
    BY <1>9
<1>11. TextStrip(t, s) = A[n]
  BY <1>3
<1> HIDE DEF A
<1>12. A[0] = t /\ \A i \in 1..n : A[i] = StripOne(A[i - 1], s)
  BY <1>1, <1>10
<1> QED
  BY <1>11, <1>12 DEF n

\* The buffers after every turn.
LEMMA RemoveTurns ==
  ASSUME NEW b \in TextBuffers, NEW s \in Seq(Letters), b.len > 0
  PROVE  \E A : /\ RemoveString(b, s) = A[b.len] /\ A[0] = b
                /\ \A i \in 1..b.len : A[i] = RemoveOne(A[i - 1], s)
<1> DEFINE n == b.len
           X == TextBuffers
           step == [i \in 1..n |-> [x \in X |-> RemoveOne(x, s)]]
           F(u) == [k \in 0..n |-> IF k = 0 THEN b ELSE RemoveOne(u[k - 1], s)]
<1>1. n \in Nat /\ n > 0
  BY TextBufferFacts, HoldsFacts
<1>2. \A x \in X : RemoveOne(x, s) \in X
  <2> TAKE x \in X
  <2>1. PICK t \in Seq(Letters) : Holds(x, t, TRUE)
    BY TextBufferFacts
  <2>2. StripOne(t, s) \in Seq(Letters) /\ Holds(RemoveOne(x, s), StripOne(t, s), TRUE)
    BY <2>1, RemoveOneHolds
  <2> QED
    BY <2>2, TextBufferFacts
<1>3. RemoveString(b, s) = (CHOOSE u : u = F(u))[n]
  BY <1>1 DEF RemoveString
<1> HIDE DEF n, X
<1>4. b \in X
  BY DEF X
<1>5. step \in [1..n -> [X -> X]] /\ \A x \in X, i \in 1..n : step[i][x] = RemoveOne(x, s)
  BY <1>2
<1> HIDE DEF step
<1>6. PICK g : GoesBy(g, n, X, b, step)
  BY <1>1, <1>4, <1>5, Recursion
<1>7. g \in [0..n -> X] /\ g[0] = b /\ \A i \in 1..n : g[i] = step[i][g[i - 1]]
  BY <1>6 DEF GoesBy
<1>8. \A i \in 1..n : g[i] = RemoveOne(g[i - 1], s)
  <2> TAKE i \in 1..n
  <2>1. i - 1 \in 0..n
    BY <1>1
  <2> QED
    BY <1>5, <1>7, <2>1
<1>9. g = F(g)
  <2>1. \A i \in 0..n : g[i] = F(g)[i]
    BY <1>1, <1>7, <1>8
  <2> QED
    BY <1>7, <2>1
<1> DEFINE A == CHOOSE u : u = F(u)
<1>10. A = F(A)
  <2> HIDE DEF F
  <2> QED
    BY <1>9
<1>11. RemoveString(b, s) = A[n]
  BY <1>3
<1> HIDE DEF A
<1>12. A[0] = b /\ \A i \in 1..n : A[i] = RemoveOne(A[i - 1], s)
  BY <1>1, <1>10
<1> QED
  BY <1>11, <1>12 DEF n

\* http2d_buffer_remove_string
LEMMA RemoveStringHolds ==
  ASSUME NEW b, NEW t \in Seq(Letters), NEW w \in BOOLEAN, Holds(b, t, w), Marked(t, w),
         NEW s \in Seq(Letters)
  PROVE  TextStrip(t, s) \in Seq(Letters) /\ Holds(RemoveString(b, s), TextStrip(t, s), w)
<1>1. b.len = Len(t) /\ Len(t) \in Nat
  BY HoldsFacts
<1>2. PICK A : /\ TextStrip(t, s) = A[Len(t)] /\ A[0] = t
               /\ \A i \in 1..Len(t) : A[i] = StripOne(A[i - 1], s)
  BY StripTurns
<1>3. CASE Len(t) = 0
  <2>1. RemoveString(b, s) = b
    BY <1>1, <1>3 DEF RemoveString
  <2>2. TextStrip(t, s) = t
    BY <1>2, <1>3
  <2> QED
    BY <2>1, <2>2
<1>4. CASE Len(t) # 0
  <2>1. t # <<>>
    BY <1>4
  <2>2. w /\ Holds(b, t, TRUE)
    BY <2>1 DEF Marked
  <2>3. b \in TextBuffers /\ b.len > 0
    <3>1. \E x \in Seq(Letters) : Holds(b, x, TRUE)
      BY <2>2
    <3>2. b \in TextBuffers
      BY <3>1, TextBufferFacts
    <3> QED
      BY <1>1, <1>4, <3>2
  <2>4. PICK B : /\ RemoveString(b, s) = B[b.len] /\ B[0] = b
                 /\ \A i \in 1..b.len : B[i] = RemoveOne(B[i - 1], s)
    BY <2>3, RemoveTurns
  <2> DEFINE Q == {i \in 0..Len(t) : A[i] \in Seq(Letters) /\ Holds(B[i], A[i], TRUE)}
  <2>5. 0 \in Q
    <3>1. A[0] \in Seq(Letters) /\ Holds(B[0], A[0], TRUE)
      BY <1>2, <2>2, <2>4
    <3>2. 0 \in 0..Len(t)
      BY <1>1
    <3> QED
      BY <3>1, <3>2
  <2>6. ASSUME NEW i \in 1..Len(t), i - 1 \in Q PROVE i \in Q
    <3>1. A[i - 1] \in Seq(Letters) /\ Holds(B[i - 1], A[i - 1], TRUE)
      BY <2>6
    <3>2. StripOne(A[i - 1], s) \in Seq(Letters) /\ Holds(RemoveOne(B[i - 1], s), StripOne(A[i - 1], s), TRUE)
      BY <3>1, RemoveOneHolds
    <3>3. A[i] = StripOne(A[i - 1], s) /\ B[i] = RemoveOne(B[i - 1], s)
      BY <1>1, <1>2, <2>4
    <3>4. A[i] \in Seq(Letters) /\ Holds(B[i], A[i], TRUE)
      BY <3>2, <3>3
    <3>5. i \in 0..Len(t)
      BY <1>1
    <3> QED
      BY <3>4, <3>5
  <2> HIDE DEF Q
  <2>7. \A i \in 0..Len(t) : i \in Q
    BY <1>1, <2>5, <2>6, InductionTo
  <2>8. A[Len(t)] \in Seq(Letters) /\ Holds(B[Len(t)], A[Len(t)], TRUE)
    <3>1. Len(t) \in 0..Len(t)
      BY <1>1
    <3>2. Len(t) \in Q
      BY <2>7, <3>1
    <3> QED
      BY <3>2 DEF Q
  <2> QED
    BY <1>1, <1>2, <2>2, <2>4, <2>8
<1> QED
  BY <1>3, <1>4

-----------------------------------------------------------------------------
(* http2d_buffer_replace_string. *)

\* What TextReplace goes through.
ReplaceState == [out : Seq(Letters), skip : Nat]

\* From st, behind j characters, it goes to st1.
Replaces(t, s, r, j, st, st1) ==
  /\ st.skip > 0 => st1.out = st.out /\ st1.skip = st.skip - 1
  /\ st.skip = 0 /\ Occurs(t, s, j) => st1.out = st.out \o r /\ st1.skip = Len(s) - 1
  /\ st.skip = 0 /\ ~Occurs(t, s, j) => st1.out = Append(st.out, t[j + 1]) /\ st1.skip = 0

\* One character of TextReplace.
LEMMA ReplaceUpToFacts ==
  ASSUME NEW t \in Seq(Letters), NEW s \in Seq(Letters), NEW r \in Seq(Letters), s # <<>>,
         NEW st \in ReplaceState, NEW i \in 1..Len(t)
  PROVE  /\ ReplaceUpTo(st, t, s, r, i) \in ReplaceState
         /\ Replaces(t, s, r, i - 1, st, ReplaceUpTo(st, t, s, r, i))
<1> DEFINE st1 == ReplaceUpTo(st, t, s, r, i)
<1>1. st.out \in Seq(Letters) /\ st.skip \in Nat
  BY DEF ReplaceState
<1>2. t[i] \in Letters
  OBVIOUS
<1>3. Len(s) - 1 \in Nat
  <2>1. Len(s) \in Nat /\ Len(s) # 0
    OBVIOUS
  <2> QED
    BY <2>1
<1> HIDE DEF st1
<1>7. i = (i - 1) + 1
  OBVIOUS
<1>8. /\ st1 \in ReplaceState
      /\ st.skip > 0 => st1.out = st.out /\ st1.skip = st.skip - 1
      /\ st.skip = 0 /\ Occurs(t, s, i - 1) => st1.out = st.out \o r /\ st1.skip = Len(s) - 1
      /\ st.skip = 0 /\ ~Occurs(t, s, i - 1) => st1.out = Append(st.out, t[i]) /\ st1.skip = 0
  <2>4. CASE st.skip > 0
    <3>1. st1 = [st EXCEPT !.skip = @ - 1]
      BY <2>4 DEF ReplaceUpTo, st1
    <3>2. st.skip - 1 \in Nat
      BY <1>1, <2>4
    <3>3. st1 \in ReplaceState /\ st1.out = st.out /\ st1.skip = st.skip - 1
      BY <3>1, <3>2 DEF ReplaceState
    <3> QED
      BY <2>4, <3>3
  <2>5. CASE ~(st.skip > 0) /\ Occurs(t, s, i - 1)
    <3>1. st1 = [out |-> st.out \o r, skip |-> Len(s) - 1]
      BY <2>5 DEF ReplaceUpTo, st1
    <3>2. st.out \o r \in Seq(Letters)
      BY <1>1
    <3>3. st1 \in ReplaceState /\ st1.out = st.out \o r /\ st1.skip = Len(s) - 1
      BY <1>3, <3>1, <3>2 DEF ReplaceState
    <3> QED
      BY <2>5, <3>3
  <2>6. CASE ~(st.skip > 0) /\ ~Occurs(t, s, i - 1)
    <3>1. st1 = [st EXCEPT !.out = Append(@, t[i])]
      BY <2>6 DEF ReplaceUpTo, st1
    <3>2. Append(st.out, t[i]) \in Seq(Letters)
      BY <1>1, <1>2
    <3>3. st1 \in ReplaceState /\ st1.out = Append(st.out, t[i]) /\ st1.skip = st.skip
      BY <3>1, <3>2 DEF ReplaceState
    <3>4. st.skip = 0
      BY <1>1, <2>6
    <3> QED
      BY <2>6, <3>3, <3>4
  <2> QED
    BY <1>1, <2>4, <2>5, <2>6
<1> QED
  BY <1>7, <1>8, Zenon DEF st1, Replaces

\* U is what TextReplace goes through.
IsReplacing(U, t, s, r) ==
  /\ U[0] = [out |-> <<>>, skip |-> 0]
  /\ \A i \in 0..Len(t) : U[i] \in ReplaceState
  /\ \A i \in 1..Len(t) : U[i] = ReplaceUpTo(U[i - 1], t, s, r, i)

\* TextReplace goes through the text character by character.
LEMMA ReplaceTurns ==
  ASSUME NEW t \in Seq(Letters), NEW s \in Seq(Letters), NEW r \in Seq(Letters), s # <<>>
  PROVE  \E U : IsReplacing(U, t, s, r) /\ TextReplace(t, s, r) = U[Len(t)].out
<1> DEFINE n == Len(t)
           X == ReplaceState
           start == [out |-> <<>>, skip |-> 0]
           step == [i \in 1..n |-> [x \in X |-> ReplaceUpTo(x, t, s, r, i)]]
           F(u) == [i \in 0..n |-> IF i = 0 THEN start ELSE ReplaceUpTo(u[i - 1], t, s, r, i)]
<1>1. n \in Nat
  OBVIOUS
<1>2. \A x \in X, i \in 1..n : ReplaceUpTo(x, t, s, r, i) \in X
  BY ReplaceUpToFacts
<1>3. TextReplace(t, s, r) = (CHOOSE u : u = F(u))[n].out
  BY DEF TextReplace
<1>4. start \in X
  <2>1. <<>> \in Seq(Letters)
    OBVIOUS
  <2> QED
    BY <2>1 DEF ReplaceState
<1> HIDE DEF n, X, start
<1>5. step \in [1..n -> [X -> X]] /\ \A x \in X, i \in 1..n : step[i][x] = ReplaceUpTo(x, t, s, r, i)
  BY <1>2
<1> HIDE DEF step
<1>6. PICK g : GoesBy(g, n, X, start, step)
  BY <1>1, <1>4, <1>5, Recursion
<1>7. g \in [0..n -> X] /\ g[0] = start /\ \A i \in 1..n : g[i] = step[i][g[i - 1]]
  BY <1>6 DEF GoesBy
<1>8. \A i \in 1..n : g[i] = ReplaceUpTo(g[i - 1], t, s, r, i)
  <2> TAKE i \in 1..n
  <2>1. i - 1 \in 0..n
    BY <1>1
  <2> QED
    BY <1>5, <1>7, <2>1
<1>9. g = F(g)
  <2>1. \A i \in 0..n : g[i] = F(g)[i]
    BY <1>1, <1>7, <1>8
  <2> QED
    BY <1>7, <2>1
<1> DEFINE U == CHOOSE u : u = F(u)
<1>10. U = F(U)
  <2> HIDE DEF F
  <2> QED
    BY <1>9
<1>11. TextReplace(t, s, r) = U[n].out
  BY <1>3
<1> HIDE DEF U
<1>12. U[0] = start /\ \A i \in 1..n : U[i] = ReplaceUpTo(U[i - 1], t, s, r, i)
  BY <1>1, <1>10
<1> DEFINE Q == {i \in 0..n : U[i] \in X}
<1>13. 0 \in Q
  BY <1>1, <1>4, <1>12
<1>14. ASSUME NEW i \in 1..n, i - 1 \in Q PROVE i \in Q
  <2>1. U[i - 1] \in X
    BY <1>14
  <2>2. U[i] \in X
    BY <1>2, <1>12, <2>1
  <2> QED
    BY <1>1, <2>2
<1> HIDE DEF Q
<1>15. \A i \in 0..n : i \in Q
  BY <1>1, <1>13, <1>14, InductionTo
<1>16. \A i \in 0..n : U[i] \in X
  BY <1>15 DEF Q
<1>17. IsReplacing(U, t, s, r)
  BY <1>12, <1>16 DEF IsReplacing, n, X, start
<1> QED
  BY <1>11, <1>17 DEF n

\* Its step from one character to the next.
LEMMA ReplaceStep ==
  ASSUME NEW t \in Seq(Letters), NEW s \in Seq(Letters), NEW r \in Seq(Letters), s # <<>>,
         NEW U, IsReplacing(U, t, s, r), NEW j \in 0..Len(t), j < Len(t)
  PROVE  Replaces(t, s, r, j, U[j], U[j + 1])
<1> DEFINE i == j + 1
<1>1. i \in 1..Len(t) /\ i - 1 = j
  OBVIOUS
<1> HIDE DEF i
<1>2. U[j] \in ReplaceState /\ U[i] = ReplaceUpTo(U[j], t, s, r, i)
  BY <1>1 DEF IsReplacing
<1>3. Replaces(t, s, r, i - 1, U[j], ReplaceUpTo(U[j], t, s, r, i))
  BY <1>1, <1>2, ReplaceUpToFacts
<1> QED
  BY <1>1, <1>2, <1>3 DEF i

\* Appending to the end of a concatenation.
LEMMA AppendConcat ==
  ASSUME NEW x \in Seq(Letters), NEW y \in Seq(Letters), NEW e \in Letters
  PROVE  Append(x \o y, e) = x \o Append(y, e)
OBVIOUS

\* One element more.
LEMMA OneMore ==
  ASSUME NEW S, NEW t \in Seq(S), NEW p \in 0..Len(t), NEW j \in p..Len(t), j < Len(t)
  PROVE  /\ SubSeq(t, p + 1, j) \in Seq(S) /\ t[j + 1] \in S
         /\ Append(SubSeq(t, p + 1, j), t[j + 1]) = SubSeq(t, p + 1, j + 1)
<1> DEFINE x == SubSeq(t, p + 1, j)
           y == SubSeq(t, p + 1, j + 1)
           e == t[j + 1]
           k == j - p
<1>1. Len(t) \in Nat /\ k \in Nat /\ k + 1 \in Nat /\ j + 1 \in 1..Len(t) /\ p + (k + 1) = j + 1
  OBVIOUS
<1>2. x \in Seq(S) /\ Len(x) = k /\ \A i \in 1..k : x[i] = t[p + i]
  OBVIOUS
<1>3. y \in Seq(S) /\ Len(y) = k + 1 /\ \A i \in 1..(k + 1) : y[i] = t[p + i]
  OBVIOUS
<1>4. e \in S
  BY <1>1
<1>5. t[p + (k + 1)] = e
  BY <1>1
<1> HIDE DEF x, y, e, k
<1>6. /\ Append(x, e) \in Seq(S) /\ Len(Append(x, e)) = k + 1 /\ Append(x, e)[k + 1] = e
      /\ \A i \in 1..k : Append(x, e)[i] = x[i]
  BY <1>2, <1>4
<1>7. \A i \in 1..(k + 1) : Append(x, e)[i] = y[i]
  <2> TAKE i \in 1..(k + 1)
  <2>1. i \in 1..k \/ i = k + 1
    BY <1>1
  <2> QED
    BY <1>2, <1>3, <1>5, <1>6, <2>1
<1>8. Append(x, e) = y
  BY <1>3, <1>6, <1>7, SameSeq
<1> QED
  BY <1>2, <1>4, <1>8 DEF x, y, e

\* s begins nowhere from p up to q.
NoneIn(t, s, p, q) == \A i \in p..q - 1 : ~Occurs(t, s, i)

\* From q to q1, x is what is put out.
PutsOut(U, q, q1, x) == U[q1].skip = 0 /\ U[q1].out = U[q].out \o x

\* Where s does not occur, the text is copied.
LEMMA CopyRun ==
  ASSUME NEW t \in Seq(Letters), NEW s \in Seq(Letters), NEW r \in Seq(Letters), s # <<>>,
         NEW U, IsReplacing(U, t, s, r), NEW p \in 0..Len(t), NEW q \in p..Len(t),
         U[p].skip = 0, NoneIn(t, s, p, q)
  PROVE  PutsOut(U, p, q, SubSeq(t, p + 1, q))
<1> DEFINE n == q - p
           Q == {d \in 0..n : /\ U[p + d].skip = 0
                              /\ U[p + d].out = U[p].out \o SubSeq(t, p + 1, p + d)}
<1>1. Len(t) \in Nat /\ n \in Nat /\ p + n = q
  OBVIOUS
<1>2. U[p] \in ReplaceState /\ U[p].out \in Seq(Letters)
  BY DEF IsReplacing, ReplaceState
<1>3. 0 \in Q
  <2>1. SubSeq(t, p + 1, p) = <<>> /\ p + 0 = p
    OBVIOUS
  <2>2. U[p].out \o <<>> = U[p].out
    BY <1>2
  <2>3. U[p + 0].out = U[p].out \o SubSeq(t, p + 1, p + 0) /\ U[p + 0].skip = 0
    BY <2>1, <2>2
  <2>4. 0 \in 0..n
    BY <1>1
  <2> QED
    BY <2>3, <2>4
<1>4. ASSUME NEW d \in 1..n, d - 1 \in Q PROVE d \in Q
  <2> DEFINE j == p + (d - 1)
             o == U[p].out
             x == SubSeq(t, p + 1, j)
  <2>1. j \in p..q - 1 /\ j \in 0..Len(t) /\ j \in p..Len(t) /\ j + 1 \in 1..Len(t) /\ j < Len(t)
        /\ (j + 1) - 1 = j /\ p + d = j + 1
    BY <1>1
  <2>2. U[j].skip = 0 /\ U[j].out = o \o x
    BY <1>4
  <2>3. ~Occurs(t, s, j)
    BY <2>1 DEF NoneIn
  <2> HIDE DEF j, n
  <2>4. x \in Seq(Letters) /\ t[j + 1] \in Letters /\ Append(x, t[j + 1]) = SubSeq(t, p + 1, j + 1)
    <3>1. j \in p..Len(t) /\ j < Len(t)
      BY <2>1
    <3> QED
      BY <3>1, OneMore
  <2> HIDE DEF x, o
  <2>5. U[j + 1].out = Append(U[j].out, t[j + 1]) /\ U[j + 1].skip = 0
    <3>1. Replaces(t, s, r, j, U[j], U[j + 1])
      BY <2>1, ReplaceStep
    <3> QED
      BY <2>2, <2>3, <3>1 DEF Replaces
  <2> DEFINE e == t[j + 1]
  <2>6. Append(o \o x, e) = o \o Append(x, e)
    <3>1. o \in Seq(Letters)
      BY <1>2 DEF o
    <3>2. x \in Seq(Letters) /\ e \in Letters
      BY <2>4
    <3> HIDE DEF e
    <3> QED
      BY <3>1, <3>2, AppendConcat, Zenon
  <2>7. U[j + 1].out = o \o SubSeq(t, p + 1, j + 1)
    BY <2>2, <2>4, <2>5, <2>6
  <2>8. d \in 0..n
    BY <1>1
  <2> QED
    BY <2>1, <2>5, <2>7, <2>8 DEF o
<1> HIDE DEF Q, n
<1>5. \A d \in 0..n : d \in Q
  BY <1>1, <1>3, <1>4, InductionTo
<1>6. n \in Q
  BY <1>1, <1>5
<1> QED
  BY <1>1, <1>6 DEF Q, PutsOut

\* Behind an occurrence, its other characters are passed over.
LEMMA SkipOver ==
  ASSUME NEW t \in Seq(Letters), NEW s \in Seq(Letters), NEW r \in Seq(Letters), s # <<>>,
         NEW U, IsReplacing(U, t, s, r), NEW q \in 0..Len(t), NEW n \in Nat, q + n <= Len(t),
         U[q].skip = n
  PROVE  U[q + n].skip = 0 /\ U[q + n].out = U[q].out
<1> DEFINE Q == {d \in 0..n : U[q + d].skip = n - d /\ U[q + d].out = U[q].out}
<1>1. Len(t) \in Nat
  OBVIOUS
<1>2. 0 \in Q
  <2>1. q + 0 = q /\ n - 0 = n
    OBVIOUS
  <2> QED
    BY <2>1
<1>3. ASSUME NEW d \in 1..n, d - 1 \in Q PROVE d \in Q
  <2> DEFINE j == q + (d - 1)
  <2>1. j \in 0..Len(t) /\ j + 1 \in 1..Len(t) /\ (j + 1) - 1 = j /\ q + d = j + 1
        /\ n - (d - 1) > 0 /\ (n - (d - 1)) - 1 = n - d
    BY <1>1
  <2>2. U[j].skip = n - (d - 1) /\ U[j].out = U[q].out
    BY <1>3
  <2>3. j < Len(t)
    BY <2>1
  <2> HIDE DEF j
  <2>4. U[j + 1].out = U[j].out /\ U[j + 1].skip = U[j].skip - 1
    <3>1. Replaces(t, s, r, j, U[j], U[j + 1])
      BY <2>1, <2>3, ReplaceStep
    <3> QED
      BY <2>1, <2>2, <3>1 DEF Replaces
  <2>5. U[q + d].skip = n - d /\ U[q + d].out = U[q].out
    BY <2>1, <2>2, <2>4
  <2>6. d \in 0..n
    OBVIOUS
  <2> QED
    BY <2>5, <2>6
<1> HIDE DEF Q
<1>4. \A d \in 0..n : d \in Q
  BY <1>2, <1>3, InductionTo
<1>5. n \in Q
  BY <1>4
<1>6. n - n = 0
  OBVIOUS
<1> QED
  BY <1>5, <1>6 DEF Q

\* An occurrence of s: r in its place.
LEMMA PutReplacement ==
  ASSUME NEW t \in Seq(Letters), NEW s \in Seq(Letters), NEW r \in Seq(Letters), s # <<>>,
         NEW U, IsReplacing(U, t, s, r), NEW q \in 0..Len(t), q + Len(s) <= Len(t),
         Occurs(t, s, q), U[q].skip = 0
  PROVE  /\ q + Len(s) \in 0..Len(t) /\ q + Len(s) > q
         /\ PutsOut(U, q, q + Len(s), r)
<1> DEFINE m == Len(s)
<1>1. Len(t) \in Nat /\ m \in Nat /\ m # 0
  OBVIOUS
<1> HIDE DEF m
<1>2. q + m <= Len(t)
  BY DEF m
<1>3. /\ q < Len(t) /\ q + 1 \in 0..Len(t) /\ m - 1 \in Nat /\ (q + 1) + (m - 1) = q + m
      /\ q + m \in 0..Len(t) /\ q + m > q
  BY <1>1, <1>2
<1>4. U[q + 1].out = U[q].out \o r /\ U[q + 1].skip = m - 1
  <2>1. Replaces(t, s, r, q, U[q], U[q + 1])
    BY <1>3, ReplaceStep
  <2> QED
    BY <2>1 DEF Replaces, m
<1>5. (q + 1) + (m - 1) <= Len(t)
  BY <1>2, <1>3
<1> DEFINE j == q + 1
           d == m - 1
<1>6. U[j + d].skip = 0 /\ U[j + d].out = U[j].out
  <2>1. j \in 0..Len(t) /\ d \in Nat /\ j + d <= Len(t) /\ U[j].skip = d
    BY <1>3, <1>4, <1>5
  <2> HIDE DEF j, d
  <2> QED
    BY <2>1, SkipOver
<1> QED
  BY <1>3, <1>4, <1>6 DEF m, PutsOut

\* The loop of http2d_buffer_replace_string, with what it has copied up to p.
Copied(t, U, st) ==
  /\ st \in [p : 0..Len(t), out : Seq(Letters), end : BOOLEAN]
  /\ st.end => st.out = U[Len(t)].out
  /\ ~st.end => U[st.p].skip = 0 /\ st.out = U[st.p].out

\* A turn ends it, or goes on.
GoesOn(st, st1) == st1.end \/ (~st.end /\ st1.p > st.p)

\* The types of the state of the copying loop.
LEMMA CopiedFacts ==
  ASSUME NEW t \in Seq(Letters), NEW U, NEW st, Copied(t, U, st)
  PROVE  st.p \in 0..Len(t) /\ st.out \in Seq(Letters) /\ st.end \in BOOLEAN
BY DEF Copied

\* One turn of the loop.
LEMMA ReplaceOneCopied ==
  ASSUME NEW b, NEW t \in Seq(Letters), Holds(b, t, TRUE), NEW s \in Seq(Letters),
         NEW r \in Seq(Letters), s # <<>>, NEW U, IsReplacing(U, t, s, r),
         NEW st, Copied(t, U, st)
  PROVE  Copied(t, U, ReplaceOne(b, s, r, st)) /\ GoesOn(st, ReplaceOne(b, s, r, st))
<1> DEFINE p == st.p
           P == Places(t, s, p)
           st1 == ReplaceOne(b, s, r, st)
<1>1. p \in 0..Len(t) /\ st.out \in Seq(Letters) /\ st.end \in BOOLEAN
  BY CopiedFacts
<1>2. b.len = Len(t) /\ Len(t) \in Nat
  BY HoldsFacts
<1>3. StrStr(b, p, s) = IF P = {} THEN -1 ELSE Min(P)
  BY <1>1, StrStrFacts
<1>4. CASE st.end
  <2>1. st1 = st
    BY <1>4 DEF ReplaceOne
  <2> QED
    BY <1>4, <2>1 DEF GoesOn
<1>5. CASE ~st.end /\ P = {}
  <2> DEFINE x == Read(b, p, b.len - p)
  <2>1. st1 = [st EXCEPT !.out = @ \o x, !.end = TRUE]
    BY <1>3, <1>5 DEF ReplaceOne
  <2>2. x = SubSeq(t, p + 1, Len(t)) /\ x \in Seq(Letters)
    <3> DEFINE n == Len(t) - p
    <3>1. p \in Nat /\ n \in Nat /\ p + n <= Len(t)
      BY <1>1, <1>2
    <3>3. p + n = Len(t) /\ b.len - p = n
      BY <1>1, <1>2
    <3> HIDE DEF n, p, P, st1
    <3>2. Read(b, p, n) = SubSeq(t, p + 1, p + n) /\ SubSeq(t, p + 1, p + n) \in Seq(Letters)
      BY <3>1, ReadPart
    <3> QED
      BY <3>2, <3>3
  <2>3. U[p].skip = 0 /\ st.out = U[p].out
    BY <1>5 DEF Copied
  <2>4. U[Len(t)].out = U[p].out \o SubSeq(t, p + 1, Len(t))
    <3>1. NoneIn(t, s, p, Len(t))
      <4> SUFFICES ASSUME NEW i \in p..Len(t) - 1 PROVE ~Occurs(t, s, i)
        BY DEF NoneIn
      <4>1. i \in p..Len(t)
        BY <1>1, <1>2
      <4> QED
        BY <1>5, <4>1 DEF Places
    <3>2. Len(t) \in p..Len(t)
      BY <1>1, <1>2
    <3> HIDE DEF p
    <3>3. PutsOut(U, p, Len(t), SubSeq(t, p + 1, Len(t)))
      BY <1>1, <2>3, <3>1, <3>2, CopyRun
    <3> QED
      BY <3>3 DEF PutsOut
  <2> HIDE DEF x, st1
  <2>5. st.out \o x \in Seq(Letters)
    BY <1>1, <2>2
  <2>6. st.out \o x = U[Len(t)].out
    BY <2>2, <2>3, <2>4
  <2>7. /\ st1 \in [p : 0..Len(t), out : Seq(Letters), end : BOOLEAN]
        /\ st1.out = st.out \o x /\ st1.end = TRUE
    BY <2>1, <2>5 DEF Copied
  <2> QED
    BY <2>6, <2>7 DEF Copied, GoesOn, st1
<1>6. CASE ~st.end /\ P # {}
  <2> DEFINE at == Min(P)
             x == Read(b, p, at - p)
             q == at + Len(s)
  <2>1. at \in p..Len(t) /\ q <= Len(t) /\ Occurs(t, s, at) /\ \A i \in P : at <= i
    <3>1. at \in P /\ \A i \in P : at <= i
      BY <1>1, <1>6, PlacesFacts
    <3> HIDE DEF at
    <3> QED
      BY <1>1, <3>1, PlacesFacts
  <2>2. StrStr(b, p, s) = at
    BY <1>3, <1>6
  <2>3. NoneIn(t, s, p, at)
    <3> HIDE DEF at
    <3> SUFFICES ASSUME NEW i \in p..at - 1 PROVE ~Occurs(t, s, i)
      BY DEF NoneIn
    <3>1. i \in p..Len(t) /\ ~(at <= i)
      BY <1>1, <1>2, <2>1
    <3> QED
      BY <2>1, <3>1 DEF Places
  <2> HIDE DEF at
  <2>4. at # -1
    BY <1>1, <2>1
  <2>5. st1 = [st EXCEPT !.out = @ \o x \o r, !.p = q]
    BY <1>6, <2>2, <2>4 DEF ReplaceOne
  <2>6. x = SubSeq(t, p + 1, at) /\ x \in Seq(Letters)
    <3> DEFINE n == at - p
    <3>1. p \in Nat /\ n \in Nat /\ p + n <= Len(t) /\ p + n = at
      BY <1>1, <1>2, <2>1
    <3> HIDE DEF n, p
    <3>2. Read(b, p, n) = SubSeq(t, p + 1, p + n) /\ SubSeq(t, p + 1, p + n) \in Seq(Letters)
      BY <3>1, ReadPart
    <3> QED
      BY <3>1, <3>2 DEF n
  <2>7. U[p].skip = 0 /\ st.out = U[p].out
    BY <1>6 DEF Copied
  <2> HIDE DEF p, x, P, st1
  <2>8. U[at].skip = 0 /\ U[at].out = U[p].out \o SubSeq(t, p + 1, at)
    <3>1. PutsOut(U, p, at, SubSeq(t, p + 1, at))
      BY <1>1, <2>1, <2>3, <2>7, CopyRun
    <3> QED
      BY <3>1 DEF PutsOut
  <2>9. q \in 0..Len(t) /\ q > at /\ U[q].skip = 0 /\ U[q].out = U[at].out \o r
    <3>1. at \in 0..Len(t)
      BY <1>1, <2>1
    <3>2. at + Len(s) <= Len(t) /\ Occurs(t, s, at) /\ U[at].skip = 0
      BY <2>1, <2>8
    <3>3. q \in 0..Len(t) /\ q > at /\ PutsOut(U, at, q, r)
      BY <3>1, <3>2, PutReplacement
    <3> QED
      BY <3>3 DEF PutsOut
  <2> HIDE DEF q
  <2>10. st.out \o x \o r \in Seq(Letters)
    BY <1>1, <2>6
  <2>11. st.out \o x \o r = U[q].out
    BY <2>6, <2>7, <2>8, <2>9
  <2>12. /\ st1 \in [p : 0..Len(t), out : Seq(Letters), end : BOOLEAN]
         /\ st1.out = st.out \o x \o r /\ st1.end = FALSE /\ st1.p = q
    BY <1>6, <2>5, <2>9, <2>10 DEF Copied
  <2>13. q > p
    BY <1>1, <2>1, <2>9
  <2> QED
    BY <1>6, <2>9, <2>11, <2>12, <2>13 DEF Copied, GoesOn, st1, p
<1> QED
  BY <1>1, <1>4, <1>5, <1>6

\* What the loop goes through.
ReplaceLoop(A, b, s, r, n) ==
  /\ A[0] = [p |-> 0, out |-> <<>>, end |-> FALSE]
  /\ \A k \in 1..n : A[k] = ReplaceOne(b, s, r, A[k - 1])

\* The copying loop of http2d_buffer_replace_string turn by turn.
LEMMA ReplaceLoopTurns ==
  ASSUME NEW b, NEW t \in Seq(Letters), Holds(b, t, TRUE), NEW s \in Seq(Letters),
         NEW r \in Seq(Letters), s # <<>>, NEW U, IsReplacing(U, t, s, r)
  PROVE  \E A : ReplaceLoop(A, b, s, r, Len(t) + 1) /\ Replaced(b, s, r) = A[Len(t) + 1].out
                /\ Copied(t, U, A[0])
<1> DEFINE n == Len(t) + 1
           Y == [p : 0..Len(t), out : Seq(Letters), end : BOOLEAN]
           X == {st \in Y : Copied(t, U, st)}
           start == [p |-> 0, out |-> <<>>, end |-> FALSE]
           step == [i \in 1..n |-> [x \in X |-> ReplaceOne(b, s, r, x)]]
           F(u) == [k \in 0..n |-> IF k = 0 THEN start ELSE ReplaceOne(b, s, r, u[k - 1])]
<1>1. n \in Nat /\ n > 0
  OBVIOUS
<1>2. \A x \in X : ReplaceOne(b, s, r, x) \in X
  <2> TAKE x \in X
  <2>1. Copied(t, U, x)
    OBVIOUS
  <2>2. Copied(t, U, ReplaceOne(b, s, r, x))
    BY <2>1, ReplaceOneCopied
  <2>3. ReplaceOne(b, s, r, x) \in Y
    BY <2>2 DEF Copied
  <2> QED
    BY <2>2, <2>3
<1>3. Replaced(b, s, r) = (CHOOSE u : u = F(u))[n].out
  <2>1. b.len = Len(t)
    BY HoldsFacts
  <2> QED
    BY <2>1 DEF Replaced
<1>4. Copied(t, U, start)
  <2>1. <<>> \in Seq(Letters) /\ 0 \in 0..Len(t)
    OBVIOUS
  <2>2. start \in Y
    BY <2>1
  <2>3. start.end = FALSE /\ start.p = 0 /\ start.out = <<>>
    OBVIOUS
  <2>4. U[0].skip = 0 /\ U[0].out = <<>>
    BY DEF IsReplacing
  <2> HIDE DEF start
  <2> QED
    BY <2>2, <2>3, <2>4 DEF Copied
<1>5. start \in X
  BY <1>4 DEF Copied
<1> HIDE DEF n, X, start
<1>6. step \in [1..n -> [X -> X]] /\ \A x \in X, i \in 1..n : step[i][x] = ReplaceOne(b, s, r, x)
  BY <1>2
<1> HIDE DEF step
<1>7. PICK g : GoesBy(g, n, X, start, step)
  BY <1>1, <1>5, <1>6, Recursion
<1>8. g \in [0..n -> X] /\ g[0] = start /\ \A i \in 1..n : g[i] = step[i][g[i - 1]]
  BY <1>7 DEF GoesBy
<1>9. \A i \in 1..n : g[i] = ReplaceOne(b, s, r, g[i - 1])
  <2> TAKE i \in 1..n
  <2>1. i - 1 \in 0..n
    BY <1>1
  <2> QED
    BY <1>6, <1>8, <2>1
<1>10. g = F(g)
  <2>1. \A i \in 0..n : g[i] = F(g)[i]
    BY <1>1, <1>8, <1>9
  <2> QED
    BY <1>8, <2>1
<1> DEFINE A == CHOOSE u : u = F(u)
<1>11. A = F(A)
  <2> HIDE DEF F
  <2> QED
    BY <1>10
<1>12. Replaced(b, s, r) = A[n].out
  BY <1>3
<1> HIDE DEF A
<1>13. A[0] = start /\ \A i \in 1..n : A[i] = ReplaceOne(b, s, r, A[i - 1])
  BY <1>1, <1>11
<1>14. ReplaceLoop(A, b, s, r, n)
  BY <1>13 DEF ReplaceLoop, start
<1> QED
  BY <1>4, <1>12, <1>13, <1>14 DEF n

\* What the loop puts together.
LEMMA ReplacedFacts ==
  ASSUME NEW b, NEW t \in Seq(Letters), Holds(b, t, TRUE), NEW s \in Seq(Letters),
         NEW r \in Seq(Letters), s # <<>>
  PROVE  Replaced(b, s, r) = TextReplace(t, s, r) /\ TextReplace(t, s, r) \in Seq(Letters)
<1>1. PICK U : IsReplacing(U, t, s, r) /\ TextReplace(t, s, r) = U[Len(t)].out
  BY ReplaceTurns
<1>2. TextReplace(t, s, r) \in Seq(Letters)
  <2>1. Len(t) \in 0..Len(t)
    OBVIOUS
  <2> QED
    BY <1>1, <2>1 DEF IsReplacing, ReplaceState
<1> DEFINE n == Len(t) + 1
<1>3. PICK A : /\ ReplaceLoop(A, b, s, r, n) /\ Replaced(b, s, r) = A[n].out
               /\ Copied(t, U, A[0])
  BY <1>1, ReplaceLoopTurns
<1> DEFINE Q == {k \in 0..n : Copied(t, U, A[k]) /\ (A[k].end \/ A[k].p >= k)}
<1>4. n \in Nat
  OBVIOUS
<1>5. 0 \in Q
  <2>1. 0 \in 0..n
    BY <1>4
  <2>2. A[0].p = 0
    BY <1>3 DEF ReplaceLoop
  <2> QED
    BY <1>3, <2>1, <2>2
<1>6. ASSUME NEW k \in 1..n, k - 1 \in Q PROVE k \in Q
  <2> HIDE DEF n
  <2>1. Copied(t, U, A[k - 1]) /\ (A[k - 1].end \/ A[k - 1].p >= k - 1)
    BY <1>6
  <2>2. A[k] = ReplaceOne(b, s, r, A[k - 1])
    BY <1>3 DEF ReplaceLoop
  <2>3. Copied(t, U, A[k]) /\ GoesOn(A[k - 1], A[k])
    BY <1>1, <2>1, <2>2, ReplaceOneCopied
  <2>4. A[k].p \in Nat /\ A[k - 1].p \in Nat
    BY <2>1, <2>3, CopiedFacts
  <2>5. A[k].end \/ A[k].p >= k
    BY <2>1, <2>3, <2>4 DEF GoesOn
  <2>6. k \in 0..n
    BY <1>4
  <2> QED
    BY <2>3, <2>5, <2>6
<1> HIDE DEF Q
<1>7. \A k \in 0..n : k \in Q
  <2> HIDE DEF n
  <2> QED
    BY <1>4, <1>5, <1>6, InductionTo
<1>8. Copied(t, U, A[n]) /\ (A[n].end \/ A[n].p >= n)
  <2> HIDE DEF n
  <2>1. n \in Q
    BY <1>4, <1>7
  <2> QED
    BY <2>1 DEF Q
<1>9. A[n].end
  <2>1. A[n].p \in 0..Len(t)
    BY <1>8, CopiedFacts
  <2>2. ~(A[n].p >= n)
    BY <2>1
  <2> QED
    BY <1>8, <2>2
<1>10. A[n].out = U[Len(t)].out
  <2> HIDE DEF n
  <2> QED
    BY <1>8, <1>9 DEF Copied
<1> QED
  BY <1>1, <1>2, <1>3, <1>10

\* New memory with a text and its terminator.
LEMMA NewMemoryHolds ==
  ASSUME NEW b \in Buffers, ~b.overrun, NEW u \in Seq(Letters), NEW v \in BOOLEAN
  PROVE  Holds([b EXCEPT !.mem = u \o <<Nul>>, !.len = Len(u)], u, v)
<1> DEFINE m == u \o <<Nul>>
           p == [b EXCEPT !.mem = m, !.len = Len(u)]
<1>1. Len(u) \in Nat /\ <<Nul>> \in Seq(Cells) /\ u \in Seq(Cells)
  <2>1. \A i \in 1..Len(u) : u[i] \in Cells
    <3> TAKE i \in 1..Len(u)
    <3>1. u[i] \in Letters
      OBVIOUS
    <3> QED
      BY <3>1, LetterFacts
  <2>2. <<Nul>> \in Seq(Cells)
    <3>1. Nul \in Cells
      BY LetterFacts
    <3> QED
      BY <3>1
  <2> QED
    BY <2>1, <2>2
<1>2. /\ m \in Seq(Cells) /\ Len(m) = Len(u) + 1 /\ m[Len(u) + 1] = Nul
      /\ \A i \in 1..Len(u) : m[i] = u[i]
  BY <1>1
<1> HIDE DEF m
<1>3. p.mem = m /\ p.len = Len(u) /\ p.overrun = b.overrun /\ p \in Buffers
  BY <1>1, <1>2 DEF Buffers
<1> HIDE DEF p
<1>4. SizeOf(p) = Len(u) + 1
  BY <1>2, <1>3 DEF SizeOf
<1>5. \A i \in 1..Len(u) : p.mem[i] = u[i]
  BY <1>2, <1>3
<1>6. p.mem[Len(u) + 1] = Nul /\ ~p.overrun /\ Len(u) < SizeOf(p)
  BY <1>1, <1>2, <1>3, <1>4
<1>7. Holds(p, u, v)
  BY <1>1, <1>3, <1>5, <1>6, ShownEnded
<1> QED
  BY <1>7 DEF p, m

\* Where s does not occur, nothing is replaced.
LEMMA NothingReplaced ==
  ASSUME NEW t \in Seq(Letters), NEW s \in Seq(Letters), NEW r \in Seq(Letters), s # <<>>,
         Places(t, s, 0) = {}
  PROVE  TextReplace(t, s, r) = t
<1>1. PICK U : IsReplacing(U, t, s, r) /\ TextReplace(t, s, r) = U[Len(t)].out
  BY ReplaceTurns
<1>2. Len(t) \in Nat /\ 0 \in 0..Len(t) /\ Len(t) \in 0..Len(t)
  OBVIOUS
<1>3. NoneIn(t, s, 0, Len(t))
  <2> SUFFICES ASSUME NEW i \in 0..Len(t) - 1 PROVE ~Occurs(t, s, i)
    BY DEF NoneIn
  <2>1. i \in 0..Len(t)
    BY <1>2
  <2> QED
    BY <2>1 DEF Places
<1>4. U[0].skip = 0 /\ U[0].out = <<>>
  BY <1>1 DEF IsReplacing
<1>5. PutsOut(U, 0, Len(t), SubSeq(t, 0 + 1, Len(t)))
  BY <1>1, <1>2, <1>3, <1>4, CopyRun
<1>6. SubSeq(t, 0 + 1, Len(t)) = t /\ <<>> \o t = t
  OBVIOUS
<1> QED
  BY <1>1, <1>4, <1>5, <1>6 DEF PutsOut

\* http2d_buffer_replace_string
LEMMA ReplaceStringHolds ==
  ASSUME NEW b, NEW t \in Seq(Letters), NEW w \in BOOLEAN, Holds(b, t, w), SizeOf(b) > 0 => w,
         NEW s \in Seq(Letters), NEW r \in Seq(Letters), s # <<>>
  PROVE  TextReplace(t, s, r) \in Seq(Letters) /\ Holds(ReplaceString(b, s, r), TextReplace(t, s, r), w)
<1>1. b \in Buffers /\ ~b.overrun /\ Len(t) \in Nat /\ SizeOf(b) \in Nat /\ Len(t) <= SizeOf(b)
  BY HoldsFacts
<1>2. CASE SizeOf(b) = 0
  <2>1. t = <<>>
    BY <1>1, <1>2
  <2>2. Places(t, s, 0) = {}
    <3>1. Len(s) \in Nat /\ Len(s) # 0 /\ Len(t) = 0
      BY <2>1
    <3>2. \A i \in 0..Len(t) : ~(i + Len(s) <= Len(t))
      BY <3>1
    <3> QED
      BY <3>2 DEF Places, Occurs
  <2>3. TextReplace(t, s, r) = t
    BY <2>2, NothingReplaced
  <2>4. ReplaceString(b, s, r) = b
    BY <1>2 DEF ReplaceString
  <2> QED
    BY <2>3, <2>4
<1>3. CASE SizeOf(b) # 0
  <2>1. w = TRUE /\ Holds(b, t, TRUE)
    <3>1. SizeOf(b) > 0
      BY <1>1, <1>3
    <3>2. w = TRUE
      BY <3>1
    <3> QED
      BY <3>2
  <2> DEFINE P == Places(t, s, 0)
             u == TextReplace(t, s, r)
  <2>2. Replaced(b, s, r) = u /\ u \in Seq(Letters)
    BY <2>1, ReplacedFacts
  <2>3. 0 \in 0..Len(t)
    BY <1>1
  <2>4. StrStr(b, 0, s) = IF P = {} THEN -1 ELSE Min(P)
    BY <2>1, <2>3, StrStrFacts
  <2>5. P = {} => u = t
    BY NothingReplaced
  <2>6. P # {} => Min(P) # -1
    <3> SUFFICES ASSUME P # {} PROVE Min(P) # -1
      OBVIOUS
    <3>1. Min(P) \in P
      BY <2>3, PlacesFacts
    <3>2. Min(P) \in 0..Len(t)
      BY <2>3, <3>1, PlacesFacts
    <3> HIDE DEF P
    <3> QED
      BY <1>1, <3>2
  <2> HIDE DEF P, u
  <2>7. CASE P = {}
    BY <2>1, <2>2, <2>4, <2>5, <2>7 DEF ReplaceString, u
  <2>8. CASE P # {} /\ u = <<>>
    <3>1. ReplaceString(b, s, r) = Terminate(b, 0)
      BY <1>3, <2>2, <2>4, <2>6, <2>8 DEF ReplaceString
    <3>2. Len(u) = 0 /\ 0 < SizeOf(b) /\ \A i \in 1..0 : b.mem[i] = u[i]
      BY <1>1, <1>3, <2>8
    <3>3. Holds(Terminate(b, 0), u, w)
      BY <1>1, <2>2, <3>2, ShownHolds
    <3> QED
      BY <2>2, <3>1, <3>3 DEF u
  <2>9. CASE P # {} /\ u # <<>>
    <3>1. ReplaceString(b, s, r) = [b EXCEPT !.mem = u \o <<Nul>>, !.len = Len(u)]
      BY <1>3, <2>2, <2>4, <2>6, <2>9 DEF ReplaceString
    <3>2. Holds([b EXCEPT !.mem = u \o <<Nul>>, !.len = Len(u)], u, w)
      BY <1>1, <2>2, NewMemoryHolds
    <3> QED
      BY <2>2, <3>1, <3>2 DEF u
  <2> QED
    BY <2>7, <2>8, <2>9
<1> QED
  BY <1>2, <1>3

-----------------------------------------------------------------------------
(* http2d_buffer_remove_dups. *)

\* A byte of the memory.
LEMMA CharAtFacts ==
  ASSUME NEW b \in Buffers, NEW i \in Nat
  PROVE  CharAt(b, i) \in Cells /\ (i < SizeOf(b) => CharAt(b, i) = b.mem[i + 1])
<1>1. SizeOf(b) \in Nat /\ \A j \in 1..SizeOf(b) : b.mem[j] \in Cells
  BY BufferFields
<1>2. CASE i < SizeOf(b)
  <2>1. i + 1 \in 1..SizeOf(b)
    BY <1>1, <1>2
  <2> QED
    BY <1>1, <1>2, <2>1 DEF CharAt
<1>3. CASE ~(i < SizeOf(b))
  <2>1. CharAt(b, i) = Garbage
    BY <1>3 DEF CharAt
  <2> QED
    BY <1>3, <2>1 DEF Cells
<1> QED
  BY <1>2, <1>3

\* What TextRemoveDups goes through.
DedupStep(u, t, c, i) == IF i > 1 /\ t[i] = c /\ t[i - 1] = c THEN u ELSE Append(u, t[i])

IsDedup(D, t, c) ==
  /\ D[0] = <<>>
  /\ \A i \in 0..Len(t) : D[i] \in Seq(Letters)
  /\ \A i \in 1..Len(t) : D[i] = DedupStep(D[i - 1], t, c, i)

\* TextRemoveDups goes through the text character by character.
LEMMA DedupTexts ==
  ASSUME NEW t \in Seq(Letters), NEW c
  PROVE  \E D : IsDedup(D, t, c) /\ TextRemoveDups(t, c) = D[Len(t)]
<1> DEFINE n == Len(t)
           X == Seq(Letters)
           start == <<>>
           step == [i \in 1..n |-> [x \in X |-> DedupStep(x, t, c, i)]]
           F(u) == [i \in 0..n |-> IF i = 0 THEN start ELSE DedupStep(u[i - 1], t, c, i)]
<1>1. n \in Nat
  OBVIOUS
<1>2. \A x \in X, i \in 1..n : DedupStep(x, t, c, i) \in X
  <2> TAKE x \in X, i \in 1..n
  <2>1. t[i] \in Letters
    OBVIOUS
  <2>2. Append(x, t[i]) \in X
    BY <2>1
  <2> QED
    BY <2>2 DEF DedupStep
<1>3. TextRemoveDups(t, c) = (CHOOSE u : u = F(u))[n]
  BY DEF TextRemoveDups, DedupStep
<1>4. start \in X
  OBVIOUS
<1> HIDE DEF n, X, start
<1>5. step \in [1..n -> [X -> X]] /\ \A x \in X, i \in 1..n : step[i][x] = DedupStep(x, t, c, i)
  BY <1>2
<1> HIDE DEF step
<1>6. PICK g : GoesBy(g, n, X, start, step)
  BY <1>1, <1>4, <1>5, Recursion
<1>7. g \in [0..n -> X] /\ g[0] = start /\ \A i \in 1..n : g[i] = step[i][g[i - 1]]
  BY <1>6 DEF GoesBy
<1>8. \A i \in 1..n : g[i] = DedupStep(g[i - 1], t, c, i)
  <2> TAKE i \in 1..n
  <2>1. i - 1 \in 0..n
    BY <1>1
  <2> QED
    BY <1>5, <1>7, <2>1
<1>9. g = F(g)
  <2>1. \A i \in 0..n : g[i] = F(g)[i]
    BY <1>1, <1>7, <1>8
  <2> QED
    BY <1>7, <2>1
<1> DEFINE D == CHOOSE u : u = F(u)
<1>10. D = F(D)
  <2> HIDE DEF F
  <2> QED
    BY <1>9
<1>11. TextRemoveDups(t, c) = D[n]
  BY <1>3
<1> HIDE DEF D
<1>12. D[0] = start /\ \A i \in 1..n : D[i] = DedupStep(D[i - 1], t, c, i)
  BY <1>1, <1>10
<1> DEFINE Q == {i \in 0..n : D[i] \in X}
<1>13. 0 \in Q
  BY <1>1, <1>4, <1>12
<1>14. ASSUME NEW i \in 1..n, i - 1 \in Q PROVE i \in Q
  <2>1. D[i - 1] \in X
    BY <1>14
  <2>2. D[i] \in X
    BY <1>2, <1>12, <2>1
  <2> QED
    BY <1>1, <2>2
<1> HIDE DEF Q
<1>15. \A i \in 0..n : i \in Q
  BY <1>1, <1>13, <1>14, InductionTo
<1>16. \A i \in 0..n : D[i] \in X
  BY <1>15 DEF Q
<1>17. IsDedup(D, t, c)
  BY <1>12, <1>16 DEF IsDedup, n, X, start
<1> QED
  BY <1>11, <1>17 DEF n

\* What the loop of http2d_buffer_remove_dups goes through.
DupStates == [m : Buffers, a : Nat, offset : Nat]

\* A turn of http2d_buffer_remove_dups keeps the types of its state.
LEMMA DupTurnType ==
  ASSUME NEW st \in DupStates, NEW n, NEW c
  PROVE  DupTurn(st, n, c) \in DupStates
<1> DEFINE x == CharAt(st.m, st.a + 1 + st.offset)
           p == Put(st.m, st.a + 1, <<x>>)
<1>1. st.m \in Buffers /\ st.a \in Nat /\ st.offset \in Nat
  BY DEF DupStates
<1>2. st.a + 1 + st.offset \in Nat /\ st.a + 1 \in Nat /\ st.offset + 1 \in Nat
  BY <1>1
<1>3. x \in Cells
  BY <1>1, <1>2, CharAtFacts
<1> HIDE DEF x
<1>4. <<x>> \in Seq(Cells)
  BY <1>3
<1>5. p \in Buffers
  BY <1>1, <1>2, <1>4, PutFacts
<1> HIDE DEF p
<1>6. [st EXCEPT !.offset = @ + 1] \in DupStates
  BY <1>2 DEF DupStates
<1>7. [st EXCEPT !.m = p, !.a = @ + 1] \in DupStates
  BY <1>2, <1>5 DEF DupStates
<1>8. \/ DupTurn(st, n, c) = st
      \/ DupTurn(st, n, c) = [st EXCEPT !.offset = @ + 1]
      \/ DupTurn(st, n, c) = [st EXCEPT !.m = p, !.a = @ + 1]
  BY Zenon DEF DupTurn, p, x
<1> QED
  BY <1>6, <1>7, <1>8

IsDuping(A, b, c, n) ==
  /\ A[0] = [m |-> b, a |-> 0, offset |-> 0]
  /\ \A k \in 1..n : A[k] = DupTurn(A[k - 1], n, c)

\* The loop of http2d_buffer_remove_dups turn by turn.
LEMMA DupTurnsFacts ==
  ASSUME NEW b \in Buffers, NEW n \in Nat, b.len = n, NEW c
  PROVE  \E A : IsDuping(A, b, c, n) /\ DupTurns(b, c) = A[n]
<1> DEFINE X == DupStates
           start == [m |-> b, a |-> 0, offset |-> 0]
           step == [i \in 1..n |-> [x \in X |-> DupTurn(x, n, c)]]
           F(u) == [k \in 0..n |-> IF k = 0 THEN start ELSE DupTurn(u[k - 1], n, c)]
<1>2. \A x \in X : DupTurn(x, n, c) \in X
  BY DupTurnType
<1>3. DupTurns(b, c) = (CHOOSE u : u = F(u))[n]
  BY DEF DupTurns
<1>4. start \in X
  BY DEF DupStates
<1> HIDE DEF X, start
<1>5. step \in [1..n -> [X -> X]] /\ \A x \in X, i \in 1..n : step[i][x] = DupTurn(x, n, c)
  BY <1>2
<1> HIDE DEF step
<1>6. PICK g : GoesBy(g, n, X, start, step)
  BY <1>4, <1>5, Recursion
<1>7. g \in [0..n -> X] /\ g[0] = start /\ \A i \in 1..n : g[i] = step[i][g[i - 1]]
  BY <1>6 DEF GoesBy
<1>8. \A i \in 1..n : g[i] = DupTurn(g[i - 1], n, c)
  <2> TAKE i \in 1..n
  <2>1. i - 1 \in 0..n
    OBVIOUS
  <2> QED
    BY <1>5, <1>7, <2>1
<1>9. g = F(g)
  <2>1. \A i \in 0..n : g[i] = F(g)[i]
    BY <1>7, <1>8
  <2> QED
    BY <1>7, <2>1
<1> DEFINE A == CHOOSE u : u = F(u)
<1>10. A = F(A)
  <2> HIDE DEF F
  <2> QED
    BY <1>9
<1>11. DupTurns(b, c) = A[n]
  BY <1>3
<1> HIDE DEF A
<1>12. A[0] = start /\ \A i \in 1..n : A[i] = DupTurn(A[i - 1], n, c)
  BY <1>10
<1> QED
  BY <1>11, <1>12 DEF start, IsDuping

\* After k turns the memory begins with the first k + 1 characters without the
\* repeated ones, and what was not looked at is as it was.
Deduped(b, t, u, k, st) ==
  /\ st \in DupStates /\ ~st.m.overrun /\ SizeOf(st.m) = SizeOf(b)
  /\ st.a + st.offset = k /\ u \in Seq(Letters) /\ Len(u) = st.a + 1
  /\ \A i \in 1..(st.a + 1) : st.m.mem[i] = u[i]
  /\ u[st.a + 1] = t[k + 1]
  /\ \A i \in (k + 2)..(Len(t) + 1) : st.m.mem[i] = b.mem[i]

\* The turn that looks at the next character.
LEMMA DupStep ==
  ASSUME NEW b, NEW t \in Seq(Letters), Holds(b, t, TRUE), NEW c \in Letters,
         NEW k \in Nat, k + 2 <= Len(t), NEW u, NEW st, Deduped(b, t, u, k, st)
  PROVE  Deduped(b, t, DedupStep(u, t, c, k + 2), k + 1, DupTurn(st, Len(t), c))
<1> DEFINE n == Len(t)
           a == st.a
           o == st.offset
           m == st.m
           st1 == DupTurn(st, n, c)
           u1 == DedupStep(u, t, c, k + 2)
<1>1. /\ b \in Buffers /\ n \in Nat /\ SizeOf(b) \in Nat /\ n < SizeOf(b)
      /\ \A i \in 1..n : b.mem[i] = t[i]
  BY HoldsFacts
<1>2. m \in Buffers /\ a \in Nat /\ o \in Nat
  BY DEF Deduped, DupStates
<1>3. /\ ~m.overrun /\ SizeOf(m) = SizeOf(b) /\ a + o = k /\ u \in Seq(Letters) /\ Len(u) = a + 1
      /\ \A i \in 1..(a + 1) : m.mem[i] = u[i]
      /\ u[a + 1] = t[k + 1]
      /\ \A i \in (k + 2)..(n + 1) : m.mem[i] = b.mem[i]
  BY DEF Deduped
<1> HIDE DEF n
<1>4. /\ k + 2 <= n /\ k + 2 \in 1..n /\ k + 1 \in 1..n /\ k + 2 \in (k + 2)..(n + 1)
      /\ a + 1 \in 1..(a + 1) /\ a < SizeOf(m) /\ k + 1 < SizeOf(m) /\ k + 1 \in Nat
      /\ a + o < n /\ o + 1 < n /\ a + o + 1 = k + 1 /\ a + 1 + o = k + 1
  <2>1. SizeOf(m) = SizeOf(b) /\ a + o = k
    BY <1>3
  <2>2. k + 2 <= n
    BY DEF n
  <2> HIDE DEF a, o, m
  <2> QED
    BY <1>1, <1>2, <2>1, <2>2
<1>5. CharAt(m, a) = t[k + 1]
  BY <1>2, <1>3, <1>4, CharAtFacts
<1>6. CharAt(m, k + 1) = t[k + 2]
  <2>1. CharAt(m, k + 1) = m.mem[(k + 1) + 1]
    BY <1>2, <1>4, CharAtFacts
  <2>2. m.mem[k + 2] = t[k + 2] /\ (k + 1) + 1 = k + 2
    BY <1>1, <1>3, <1>4
  <2> QED
    BY <2>1, <2>2
<1>7. t[k + 2] \in Letters /\ t[k + 2] \in Cells
  <2>1. t[k + 2] \in Letters
    BY <1>4 DEF n
  <2> QED
    BY <2>1, LetterFacts
<1>8. k + 2 > 1 /\ (k + 2) - 1 = k + 1 /\ (k + 1) + 1 = k + 2
  OBVIOUS
<1>9. CASE t[k + 1] = c /\ t[k + 2] = c
  <2>1. u1 = u
    BY <1>8, <1>9 DEF DedupStep
  <2>2. st1 = [st EXCEPT !.offset = @ + 1]
    BY <1>4, <1>5, <1>6, <1>9 DEF DupTurn
  <2> HIDE DEF st1, u1
  <2>3. st1 \in DupStates /\ st1.m = m /\ st1.a = a /\ st1.offset = o + 1
    BY <1>2, <2>2 DEF DupStates, Deduped
  <2>4. a + (o + 1) = k + 1
    BY <1>2, <1>3
  <2>5. u[a + 1] = t[(k + 1) + 1]
    BY <1>3, <1>8, <1>9
  <2>6. \A i \in ((k + 1) + 2)..(n + 1) : m.mem[i] = b.mem[i]
    <3> TAKE i \in ((k + 1) + 2)..(n + 1)
    <3>1. i \in (k + 2)..(n + 1)
      BY <1>1
    <3> QED
      BY <1>3, <3>1
  <2> HIDE DEF m, a, o
  <2>7. Deduped(b, t, u, k + 1, st1)
    BY <1>3, <2>3, <2>4, <2>5, <2>6 DEF Deduped, n
  <2> QED
    BY <2>1, <2>7 DEF u1, st1, n
<1>10. CASE ~(t[k + 1] = c /\ t[k + 2] = c)
  <2> DEFINE e == t[k + 2]
             p == Put(m, a + 1, <<e>>)
  <2>1. u1 = Append(u, e)
    BY <1>8, <1>10 DEF DedupStep
  <2>2. st1 = [st EXCEPT !.m = p, !.a = @ + 1]
    BY <1>4, <1>5, <1>6, <1>10 DEF DupTurn
  <2>3. <<e>> \in Seq(Cells) /\ Len(<<e>>) = 1 /\ <<e>>[1] = e
    BY <1>7
  <2>4. e = t[(k + 1) + 1] /\ e \in Letters
    BY <1>7, <1>8
  <2> HIDE DEF st1, u1, e
  <2>5. Filled(m, p, a + 1, <<e>>)
    <3>1. a + 1 \in Nat /\ (a + 1) + Len(<<e>>) <= SizeOf(m)
      BY <1>1, <1>2, <1>3, <1>4, <2>3
    <3> QED
      BY <1>2, <2>3, <3>1, PutFilled
  <2>6. /\ p \in Buffers /\ SizeOf(p) = SizeOf(b) /\ ~p.overrun
        /\ \A i \in 1..SizeOf(b) : p.mem[i] = IF a + 1 < i /\ i <= (a + 1) + 1 THEN <<e>>[i - (a + 1)] ELSE m.mem[i]
    BY <1>3, <2>3, <2>5 DEF Filled
  <2> HIDE DEF p
  <2>7. st1 \in DupStates /\ st1.m = p /\ st1.a = a + 1 /\ st1.offset = o
    <3>1. st \in DupStates /\ st.a + 1 \in Nat
      BY <1>2 DEF Deduped
    <3> QED
      BY <2>2, <2>6, <3>1 DEF DupStates
  <2> HIDE DEF m, a, o
  <2>8. (a + 1) + o = k + 1
    BY <1>2, <1>3
  <2>9. /\ u1 \in Seq(Letters) /\ Len(u1) = (a + 1) + 1 /\ u1[(a + 1) + 1] = e
        /\ \A i \in 1..(a + 1) : u1[i] = u[i]
    BY <1>2, <1>3, <2>1, <2>4
  <2>10. \A i \in 1..((a + 1) + 1) : p.mem[i] = u1[i]
    <3> TAKE i \in 1..((a + 1) + 1)
    <3>1. i \in 1..SizeOf(b)
      BY <1>1, <1>2, <1>3, <1>4
    <3>2. CASE i = (a + 1) + 1
      <4>1. a + 1 < i /\ i <= (a + 1) + 1 /\ i - (a + 1) = 1
        BY <1>2, <3>2
      <4> QED
        BY <2>3, <2>6, <2>9, <3>1, <3>2, <4>1
    <3>3. CASE i # (a + 1) + 1
      <4>1. i \in 1..(a + 1) /\ ~(a + 1 < i)
        BY <1>2, <3>3
      <4> QED
        BY <1>3, <2>6, <2>9, <3>1, <4>1
    <3> QED
      BY <3>2, <3>3
  <2>11. \A i \in ((k + 1) + 2)..(n + 1) : p.mem[i] = b.mem[i]
    <3> TAKE i \in ((k + 1) + 2)..(n + 1)
    <3>1. i \in (k + 2)..(n + 1) /\ i \in 1..SizeOf(b) /\ ~(i <= (a + 1) + 1)
      BY <1>1, <1>2, <2>8
    <3> QED
      BY <1>3, <2>6, <3>1
  <2>12. Deduped(b, t, u1, k + 1, st1)
    BY <2>4, <2>6, <2>7, <2>8, <2>9, <2>10, <2>11 DEF Deduped, n
  <2> QED
    BY <2>12 DEF u1, st1, n
<1> QED
  BY <1>9, <1>10

\* The turn that looks at the terminator, and the end.
LEMMA DupEnd ==
  ASSUME NEW b, NEW t \in Seq(Letters), Holds(b, t, TRUE), NEW c \in Letters, Len(t) >= 2,
         NEW u, NEW st, Deduped(b, t, u, Len(t) - 1, st), NEW st1, st1 = DupTurn(st, Len(t), c)
  PROVE  u \in Seq(Letters) /\ Holds(Terminate(st1.m, Len(t) - st1.offset), u, TRUE)
<1> DEFINE n == Len(t)
           a == st.a
           o == st.offset
           m == st.m
<1>1. /\ b \in Buffers /\ n \in Nat /\ SizeOf(b) \in Nat /\ n < SizeOf(b)
      /\ b.mem[n + 1] = Nul
  BY HoldsFacts
<1>2. m \in Buffers /\ a \in Nat /\ o \in Nat
  BY DEF Deduped, DupStates
<1>3. /\ ~m.overrun /\ SizeOf(m) = SizeOf(b) /\ a + o = n - 1 /\ u \in Seq(Letters) /\ Len(u) = a + 1
      /\ \A i \in 1..(a + 1) : m.mem[i] = u[i]
  BY DEF Deduped
<1>4. \A i \in ((n - 1) + 2)..(n + 1) : m.mem[i] = b.mem[i]
  BY DEF Deduped
<1>5. n >= 2
  OBVIOUS
<1> HIDE DEF n
<1>6. /\ n + 1 \in ((n - 1) + 2)..(n + 1) /\ n < SizeOf(m) /\ a + o + 1 = n /\ a + 1 + o = n
      /\ n - o = a + 1 /\ a + 1 < SizeOf(m)
  <2>1. SizeOf(m) = SizeOf(b) /\ a + o = n - 1
    BY <1>3
  <2> HIDE DEF a, o, m
  <2> QED
    BY <1>1, <1>2, <1>5, <2>1
<1>7. CharAt(m, n) = Nul
  BY <1>1, <1>2, <1>4, <1>6, CharAtFacts
<1>8. Nul # c /\ Nul \in Cells
  BY LetterFacts
<1> DEFINE p == Put(m, a + 1, <<Nul>>)
<1>9. st1 = st \/ st1 = [st EXCEPT !.m = p, !.a = @ + 1]
  <2>1. ~(CharAt(m, a + o + 1) = c)
    BY <1>6, <1>7, <1>8
  <2>2. CharAt(m, a + 1 + o) = Nul
    BY <1>6, <1>7
  <2> QED
    BY <2>1, <2>2, Zenon DEF DupTurn, n
<1>10. <<Nul>> \in Seq(Cells) /\ Len(<<Nul>>) = 1
  BY <1>8
<1>11. Filled(m, p, a + 1, <<Nul>>)
  <2>1. a + 1 \in Nat /\ (a + 1) + Len(<<Nul>>) <= SizeOf(m)
    BY <1>1, <1>2, <1>3, <1>6, <1>10
  <2> QED
    BY <1>2, <1>10, <2>1, PutFilled
<1>12. /\ p \in Buffers /\ SizeOf(p) = SizeOf(m) /\ ~p.overrun
       /\ \A i \in 1..(a + 1) : p.mem[i] = m.mem[i]
  <2>1. \A i \in 1..(a + 1) : i \in 1..SizeOf(m) /\ ~(a + 1 < i)
    BY <1>1, <1>2, <1>3, <1>6
  <2> QED
    BY <1>3, <1>11, <2>1 DEF Filled
<1> HIDE DEF p
<1>13. st1.offset = o /\ (st1.m = m \/ st1.m = p)
  BY <1>2, <1>9 DEF Deduped, DupStates
<1> DEFINE z == st1.m
<1>14. /\ z \in Buffers /\ ~z.overrun /\ a + 1 < SizeOf(z)
  BY <1>2, <1>3, <1>6, <1>12, <1>13
<1>15. \A i \in 1..(a + 1) : z.mem[i] = u[i]
  BY <1>3, <1>12, <1>13
<1> HIDE DEF z, a, o, m
<1>16. Holds(Terminate(z, a + 1), u, TRUE)
  <2>1. a + 1 = Len(u)
    BY <1>3
  <2> DEFINE l == a + 1
  <2> HIDE DEF l
  <2>2. l = Len(u) /\ l < SizeOf(z) /\ \A i \in 1..l : z.mem[i] = u[i]
    BY <1>14, <1>15, <2>1 DEF l
  <2>3. Holds(Terminate(z, l), u, TRUE)
    BY <1>3, <1>14, <2>2, ShownHolds
  <2> QED
    BY <2>3 DEF l
<1> QED
  BY <1>3, <1>6, <1>13, <1>16 DEF z, n

\* http2d_buffer_remove_dups
LEMMA RemoveDupsHolds ==
  ASSUME NEW b, NEW t \in Seq(Letters), NEW w \in BOOLEAN, Holds(b, t, w), Marked(t, w),
         NEW c \in Letters
  PROVE  TextRemoveDups(t, c) \in Seq(Letters) /\ Holds(RemoveDups(b, c), TextRemoveDups(t, c), w)
<1> DEFINE n == Len(t)
<1>1. b \in Buffers /\ b.len = n /\ n \in Nat /\ SizeOf(b) \in Nat /\ n <= SizeOf(b)
  BY HoldsFacts
<1>2. PICK D : IsDedup(D, t, c) /\ TextRemoveDups(t, c) = D[n]
  BY DedupTexts
<1>3. n >= 1 => D[1] = <<t[1]>>
  <2> SUFFICES ASSUME n >= 1 PROVE D[1] = <<t[1]>>
    OBVIOUS
  <2>1. 1 \in 1..n /\ 1 - 1 = 0
    BY <1>1
  <2>2. D[1] = DedupStep(D[0], t, c, 1) /\ D[0] = <<>>
    BY <1>2, <2>1 DEF IsDedup
  <2>3. DedupStep(<<>>, t, c, 1) = Append(<<>>, t[1])
    BY DEF DedupStep
  <2>4. Append(<<>>, t[1]) = <<t[1]>>
    OBVIOUS
  <2> QED
    BY <2>2, <2>3, <2>4
<1>4. CASE n < 2
  <2>1. RemoveDups(b, c) = b
    BY <1>1, <1>4 DEF RemoveDups
  <2>2. D[n] = t
    <3>1. CASE n = 0
      <4>1. t = <<>> /\ D[n] = <<>>
        BY <1>2, <3>1 DEF IsDedup
      <4> QED
        BY <4>1
    <3>2. CASE n = 1
      <4>1. D[n] = <<t[1]>>
        BY <1>3, <3>2
      <4>2. t = <<t[1]>>
        BY <3>2
      <4> QED
        BY <4>1, <4>2
    <3>3. n = 0 \/ n = 1
      <4>1. n \in Nat /\ n < 2
        BY <1>1, <1>4
      <4> HIDE DEF n
      <4> QED
        BY <4>1
    <3> QED
      BY <3>1, <3>2, <3>3
  <2> QED
    BY <1>2, <2>1, <2>2
<1>5. CASE ~(n < 2)
  <2>1. t # <<>> /\ n >= 2 /\ n - 1 \in Nat /\ n \in 1..n
    BY <1>1, <1>5
  <2>2. w = TRUE /\ Holds(b, t, TRUE)
    BY <2>1 DEF Marked
  <2>3. PICK A : IsDuping(A, b, c, n) /\ DupTurns(b, c) = A[n]
    BY <1>1, DupTurnsFacts
  <2> DEFINE Q == {k \in 0..(n - 1) : Deduped(b, t, D[k + 1], k, A[k])}
  <2>4. 0 \in Q
    <3>1. A[0] = [m |-> b, a |-> 0, offset |-> 0]
      BY <2>3 DEF IsDuping
    <3>2. A[0] \in DupStates /\ A[0].m = b /\ A[0].a = 0 /\ A[0].offset = 0
      BY <1>1, <3>1 DEF DupStates
    <3>3. D[0 + 1] = <<t[1]>> /\ t[1] \in Letters /\ 1 \in 1..n
      BY <1>1, <1>3, <2>1
    <3>4. ~b.overrun /\ \A i \in 1..n : b.mem[i] = t[i]
      BY HoldsFacts
    <3>5. D[0 + 1] \in Seq(Letters) /\ Len(D[0 + 1]) = 1 /\ D[0 + 1][1] = t[1]
      BY <3>3
    <3>6. Deduped(b, t, D[0 + 1], 0, A[0])
      BY <3>2, <3>3, <3>4, <3>5 DEF Deduped
    <3>7. 0 \in 0..(n - 1)
      BY <1>1, <2>1
    <3> QED
      BY <3>6, <3>7
  <2>5. ASSUME NEW k \in 1..(n - 1), k - 1 \in Q PROVE k \in Q
    <3> DEFINE j == k - 1
    <3>1. j \in Nat /\ j + 2 <= Len(t) /\ j + 1 = k /\ j + 2 = k + 1
      BY <1>1
    <3>2. Deduped(b, t, D[j + 1], j, A[j])
      BY <2>5
    <3> HIDE DEF j
    <3>3. Deduped(b, t, DedupStep(D[j + 1], t, c, j + 2), j + 1, DupTurn(A[j], Len(t), c))
      BY <2>2, <3>1, <3>2, DupStep
    <3>4. D[k + 1] = DedupStep(D[k], t, c, k + 1)
      <4>1. k + 1 \in 1..Len(t) /\ (k + 1) - 1 = k
        BY <1>1
      <4> QED
        BY <1>2, <4>1 DEF IsDedup
    <3>5. A[k] = DupTurn(A[j], Len(t), c)
      <4>1. k \in 1..n
        BY <1>1
      <4> QED
        BY <2>3, <4>1 DEF IsDuping, j
    <3>6. Deduped(b, t, D[k + 1], k, A[k])
      BY <3>1, <3>3, <3>4, <3>5
    <3>7. k \in 0..(n - 1)
      BY <1>1
    <3> QED
      BY <3>6, <3>7
  <2> HIDE DEF Q, n
  <2>6. \A k \in 0..(n - 1) : k \in Q
    BY <2>1, <2>4, <2>5, InductionTo
  <2>7. Deduped(b, t, D[(n - 1) + 1], n - 1, A[n - 1])
    <3>1. n - 1 \in 0..(n - 1)
      BY <2>1
    <3>2. n - 1 \in Q
      BY <2>6, <3>1
    <3> QED
      BY <3>2 DEF Q
  <2>8. A[n] = DupTurn(A[n - 1], n, c) /\ (n - 1) + 1 = n
    BY <1>1, <2>1, <2>3 DEF IsDuping
  <2>9. D[n] \in Seq(Letters) /\ Holds(Terminate(A[n].m, n - A[n].offset), D[n], TRUE)
    BY <2>1, <2>2, <2>7, <2>8, DupEnd DEF n
  <2>10. RemoveDups(b, c) = Terminate(A[n].m, n - A[n].offset)
    BY <1>1, <1>5, <2>3 DEF RemoveDups
  <2> QED
    BY <1>2, <2>2, <2>9, <2>10
<1> QED
  BY <1>4, <1>5

-----------------------------------------------------------------------------
(* http2d_buffer_add_comma_marks. *)

\* memmove leaves the length alone.
LEMMA MoveLen ==
  ASSUME NEW b \in Buffers, NEW to \in Nat, NEW from \in Nat, NEW n \in Nat
  PROVE  Move(b, to, from, n) \in Buffers /\ Move(b, to, from, n).len = b.len
BY MoveFacts

\* memmove gives a buffer, whatever it is told to move.
LEMMA MoveType ==
  ASSUME NEW b \in Buffers, NEW to \in Nat, NEW from \in Nat, NEW n \in Int
  PROVE  Move(b, to, from, n) \in Buffers
<1>1. CASE n >= 0
  <2>1. n \in Nat
    BY <1>1
  <2> QED
    BY <2>1, MoveFacts
<1>2. CASE ~(n >= 0)
  <2>1. 1..n = 1..0
    BY <1>2
  <2>2. Read(b, from, n) = Read(b, from, 0)
    BY <2>1, Zenon DEF Read
  <2>3. Read(b, from, n) \in Seq(Cells)
    BY <2>2, ReadFacts
  <2> QED
    BY <2>3, PutFacts DEF Move
<1> QED
  BY <1>1, <1>2

\* One and two elements.
LEMMA OneSeq ==
  ASSUME NEW S, NEW x \in S
  PROVE  <<x>> \in Seq(S) /\ Len(<<x>>) = 1
OBVIOUS

\* A pair as a concatenation.
LEMMA TwoSeq ==
  ASSUME NEW S, NEW x \in S, NEW y \in S
  PROVE  <<x, y>> \in Seq(S) /\ <<x, y>> = <<x>> \o <<y>>
<1> DEFINE p == <<x, y>>
           q == <<x>> \o <<y>>
<1>1. p \in Seq(S) /\ Len(p) = 2 /\ p[1] = x /\ p[2] = y
  OBVIOUS
<1>2. q \in Seq(S) /\ Len(q) = 2 /\ q[1] = x /\ q[2] = y
  OBVIOUS
<1> HIDE DEF p, q
<1>3. Len(p) = Len(q) /\ \A i \in 1..Len(p) : p[i] = q[i]
  BY <1>1, <1>2
<1>4. p = q
  BY <1>1, <1>2, <1>3, SameSeq
<1> QED
  BY <1>1, <1>4 DEF p, q

\* The type of a mark.
LEMMA CommaFacts == <<",">> \in Seq(Letters) /\ <<",">> \in Seq(Cells) /\ Len(<<",">>) = 1
<1> DEFINE c == ","
<1>1. c \in Letters /\ c \in Cells
  BY LetterFacts
<1> HIDE DEF c
<1>2. <<c>> \in Seq(Letters) /\ <<c>> \in Seq(Cells) /\ Len(<<c>>) = 1
  BY <1>1, OneSeq
<1> QED
  BY <1>2 DEF c

\* Adding a mark gives a buffer.
LEMMA CommaType ==
  ASSUME NEW b \in Buffers, NEW p \in Nat
  PROVE  CommaAt(b, p) \in Buffers
<1> DEFINE q == Put(Move(b, p + 1, p, b.len - p), p, <<",">>)
<1>1. b.len - p \in Int /\ p + 1 \in Nat
  BY BufferFields
<1>2. Move(b, p + 1, p, b.len - p) \in Buffers
  BY <1>1, MoveType
<1>3. q \in Buffers
  BY <1>2, CommaFacts, PutFacts
<1> HIDE DEF q
<1>4. q.len + 1 \in Nat
  BY <1>3, BufferFields
<1>5. [q EXCEPT !.len = @ + 1] \in Buffers
  BY <1>3, <1>4 DEF Buffers
<1> QED
  BY <1>5 DEF CommaAt, q

\* A mark is put in where there is room for it.
LEMMA CommaAtCarries ==
  ASSUME NEW r, NEW x \in Seq(Letters), Carries(r, x), NEW p \in 0..Len(x), Len(x) + 1 < SizeOf(r)
  PROVE  /\ PutIn(x, <<",">>, p) \in Seq(Letters)
         /\ Carries(CommaAt(r, p), PutIn(x, <<",">>, p)) /\ SizeOf(CommaAt(r, p)) = SizeOf(r)
<1> DEFINE n == Len(x)
           s == <<",">>
           q == Put(Move(r, p + 1, p, n - p), p, s)
           y == PutIn(x, s, p)
           z == CommaAt(r, p)
<1>1. n \in Nat /\ p \in Nat /\ p <= n
  OBVIOUS
<1>2. r \in Buffers /\ ~r.overrun /\ r.len = n /\ \A i \in 1..n : r.mem[i] = x[i]
  BY DEF Carries
<1>3. s \in Seq(Letters) /\ s \in Seq(Cells) /\ Len(s) = 1
  BY CommaFacts
<1> HIDE DEF s
<1>4. /\ y \in Seq(Letters) /\ Len(y) = n + 1
      /\ \A i \in 1..(n + 1) : y[i] = IF i <= p THEN x[i] ELSE IF i <= p + 1 THEN s[i - p] ELSE x[i - 1]
  <2>1. /\ y \in Seq(Letters) /\ Len(y) = Len(x) + Len(s)
        /\ \A i \in 1..(Len(x) + Len(s)) :
             y[i] = IF i <= p THEN x[i] ELSE IF i <= p + Len(s) THEN s[i - p] ELSE x[i - Len(s)]
    BY <1>3, PutInFacts
  <2> HIDE DEF y
  <2> QED
    BY <1>3, <2>1
<1> HIDE DEF y
<1>5. Opened(r, q, s, n, 1, p)
  <2>1. n + 1 < SizeOf(r)
    OBVIOUS
  <2> HIDE DEF n
  <2>2. 1 \in Nat
    OBVIOUS
  <2> QED
    BY <1>1, <1>2, <1>3, <2>1, <2>2, OpenFacts
<1>6. q.len = n
  <2> DEFINE o == Move(r, p + 1, p, n - p)
             d == n - p
             g == p + 1
  <2>1. g \in Nat /\ d \in Nat
    BY <1>1
  <2> HIDE DEF d, g
  <2>2. Move(r, g, p, d) \in Buffers /\ Move(r, g, p, d).len = r.len
    BY <1>1, <1>2, <2>1, MoveLen
  <2>4. o \in Buffers /\ o.len = r.len
    BY <2>2 DEF d, g
  <2> HIDE DEF o, n
  <2>3. Put(o, p, s).len = o.len
    BY <1>1, <1>3, <2>4, PutFacts
  <2> QED
    BY <1>2, <2>4, <2>3 DEF o
<1>7. z = [q EXCEPT !.len = @ + 1]
  BY <1>2 DEF CommaAt, s
<1> HIDE DEF q, z
<1>8. /\ q \in Buffers /\ SizeOf(q) = SizeOf(r) /\ q.overrun = r.overrun
      /\ \A i \in 1..(n + 1) : q.mem[i] = IF i <= p THEN r.mem[i] ELSE IF i <= p + 1 THEN s[i - p] ELSE r.mem[i - 1]
  BY <1>5 DEF Opened
<1>9. z \in Buffers /\ z.len = n + 1 /\ z.mem = q.mem /\ z.overrun = q.overrun /\ SizeOf(z) = SizeOf(q)
  <2>1. z = [q EXCEPT !.len = n + 1] /\ n + 1 \in Nat
    BY <1>1, <1>6, <1>7
  <2> HIDE DEF n
  <2> QED
    BY <1>8, <2>1, LenFacts
<1>10. \A i \in 1..(n + 1) : z.mem[i] = y[i]
  <2> HIDE DEF n
  <2> TAKE i \in 1..(n + 1)
  <2>1. CASE i <= p
    <3>1. i \in 1..n
      BY <1>1, <2>1
    <3> QED
      BY <1>2, <1>4, <1>8, <1>9, <2>1, <3>1
  <2>2. CASE ~(i <= p) /\ i <= p + 1
    BY <1>4, <1>8, <1>9, <2>2
  <2>3. CASE ~(i <= p) /\ ~(i <= p + 1)
    <3>1. i - 1 \in 1..n
      BY <1>1, <2>3
    <3> QED
      BY <1>2, <1>4, <1>8, <1>9, <2>3, <3>1
  <2> QED
    BY <2>1, <2>2, <2>3
<1>11. Carries(z, y)
  <2> HIDE DEF n
  <2> QED
    BY <1>2, <1>4, <1>8, <1>9, <1>10 DEF Carries
<1> QED
  BY <1>4, <1>8, <1>9, <1>11 DEF z, y, s

\* What TextCommas goes through.
CommaStep(u, t, i) ==
  u \o IF i > 1 /\ (Len(t) - i + 1) % 3 = 0 THEN <<",", t[i]>> ELSE <<t[i]>>

IsMarking(C, t) ==
  /\ C[0] = <<>>
  /\ \A i \in 0..Len(t) : C[i] \in Seq(Letters)
  /\ \A i \in 1..Len(t) : C[i] = CommaStep(C[i - 1], t, i)

\* TextCommas goes through the text character by character.
LEMMA CommaTexts ==
  ASSUME NEW t \in Seq(Letters)
  PROVE  \E C : IsMarking(C, t) /\ TextCommas(t) = C[Len(t)]
<1> DEFINE n == Len(t)
           X == Seq(Letters)
           start == <<>>
           step == [i \in 1..n |-> [x \in X |-> CommaStep(x, t, i)]]
           F(u) == [i \in 0..n |-> IF i = 0 THEN start ELSE CommaStep(u[i - 1], t, i)]
<1>1. n \in Nat
  OBVIOUS
<1>2. \A x \in X, i \in 1..n : CommaStep(x, t, i) \in X
  <2> TAKE x \in X, i \in 1..n
  <2>1. t[i] \in Letters /\ "," \in Letters
    <3>1. t[i] \in Letters
      OBVIOUS
    <3> QED
      BY <3>1, LetterFacts
  <2> DEFINE c == ","
             e == t[i]
  <2> HIDE DEF c, e
  <2>2. <<c, e>> \in X /\ <<e>> \in X
    BY <2>1, OneSeq, TwoSeq DEF c, e
  <2>3. x \o <<c, e>> \in X /\ x \o <<e>> \in X
    BY <2>2
  <2> QED
    BY <2>3, Zenon DEF CommaStep, c, e
<1>3. TextCommas(t) = (CHOOSE u : u = F(u))[n]
  BY DEF TextCommas, CommaStep
<1>4. start \in X
  OBVIOUS
<1> HIDE DEF n, X, start
<1>5. step \in [1..n -> [X -> X]] /\ \A x \in X, i \in 1..n : step[i][x] = CommaStep(x, t, i)
  BY <1>2
<1> HIDE DEF step
<1>6. PICK g : GoesBy(g, n, X, start, step)
  BY <1>1, <1>4, <1>5, Recursion
<1>7. g \in [0..n -> X] /\ g[0] = start /\ \A i \in 1..n : g[i] = step[i][g[i - 1]]
  BY <1>6 DEF GoesBy
<1>8. \A i \in 1..n : g[i] = CommaStep(g[i - 1], t, i)
  <2> TAKE i \in 1..n
  <2>1. i - 1 \in 0..n
    BY <1>1
  <2> QED
    BY <1>5, <1>7, <2>1
<1>9. g = F(g)
  <2>1. \A i \in 0..n : g[i] = F(g)[i]
    BY <1>1, <1>7, <1>8
  <2> QED
    BY <1>7, <2>1
<1> DEFINE C == CHOOSE u : u = F(u)
<1>10. C = F(C)
  <2> HIDE DEF F
  <2> QED
    BY <1>9
<1>11. TextCommas(t) = C[n]
  BY <1>3
<1> HIDE DEF C
<1>12. C[0] = start /\ \A i \in 1..n : C[i] = CommaStep(C[i - 1], t, i)
  BY <1>1, <1>10
<1> DEFINE Q == {i \in 0..n : C[i] \in X}
<1>13. 0 \in Q
  BY <1>1, <1>4, <1>12
<1>14. ASSUME NEW i \in 1..n, i - 1 \in Q PROVE i \in Q
  <2>1. C[i - 1] \in X
    BY <1>14
  <2>2. C[i] \in X
    BY <1>2, <1>12, <2>1
  <2> QED
    BY <1>1, <2>2
<1> HIDE DEF Q
<1>15. \A i \in 0..n : i \in Q
  BY <1>1, <1>13, <1>14, InductionTo
<1>16. \A i \in 0..n : C[i] \in X
  BY <1>15 DEF Q
<1>17. IsMarking(C, t)
  BY <1>12, <1>16 DEF IsMarking, n, X, start
<1> QED
  BY <1>11, <1>17 DEF n

\* Concatenation is associative.
LEMMA Associative ==
  ASSUME NEW x \in Seq(Letters), NEW y \in Seq(Letters), NEW z \in Seq(Letters)
  PROVE  (x \o y) \o z = x \o (y \o z)
OBVIOUS

\* Between u and v.
LEMMA PutInConcat ==
  ASSUME NEW u \in Seq(Letters), NEW v \in Seq(Letters), NEW s \in Seq(Letters)
  PROVE  PutIn(u \o v, s, Len(u)) = (u \o s) \o v
<1> DEFINE a == Len(u)
           l == Len(v)
           d == Len(s)
           w == u \o v
           x == PutIn(w, s, a)
           y == (u \o s) \o v
<1>1. a \in Nat /\ l \in Nat /\ d \in Nat
  OBVIOUS
<1>2. w \in Seq(Letters) /\ Len(w) = a + l /\ \A i \in 1..(a + l) : w[i] = IF i <= a THEN u[i] ELSE v[i - a]
  BY ConcatFacts
<1>3. a \in 0..Len(w)
  BY <1>1, <1>2
<1> HIDE DEF w
<1>4. /\ x \in Seq(Letters) /\ Len(x) = Len(w) + d
      /\ \A i \in 1..(Len(w) + d) : x[i] = IF i <= a THEN w[i] ELSE IF i <= a + d THEN s[i - a] ELSE w[i - d]
  BY <1>2, <1>3, PutInFacts
<1>5. /\ u \o s \in Seq(Letters) /\ Len(u \o s) = a + d
      /\ \A i \in 1..(a + d) : (u \o s)[i] = IF i <= a THEN u[i] ELSE s[i - a]
  BY ConcatFacts
<1> DEFINE q == u \o s
<1> HIDE DEF q
<1>6. /\ y \in Seq(Letters) /\ Len(y) = Len(q) + l
      /\ \A i \in 1..(Len(q) + l) : y[i] = IF i <= Len(q) THEN q[i] ELSE v[i - Len(q)]
  BY <1>5, ConcatFacts DEF q
<1> HIDE DEF x, y, a, l, d
<1>7. \A i \in 1..(a + l + d) : x[i] = y[i]
  <2> TAKE i \in 1..(a + l + d)
  <2>1. i \in 1..(Len(w) + d) /\ i \in 1..(Len(q) + l) /\ Len(q) = a + d
    BY <1>1, <1>2, <1>5 DEF q
  <2>2. CASE i <= a
    <3>1. i \in 1..(a + l) /\ i \in 1..(a + d) /\ i <= a + d
      BY <1>1, <2>2
    <3>2. x[i] = w[i]
      BY <1>4, <2>1, <2>2
    <3>3. w[i] = u[i]
      BY <1>2, <2>2, <3>1
    <3>4. y[i] = q[i]
      BY <1>6, <2>1, <3>1
    <3>5. q[i] = u[i]
      BY <1>5, <2>2, <3>1 DEF q
    <3> QED
      BY <3>2, <3>3, <3>4, <3>5
  <2>3. CASE ~(i <= a) /\ i <= a + d
    <3>1. i \in 1..(a + d)
      BY <2>3
    <3> QED
      BY <1>1, <1>4, <1>5, <1>6, <2>1, <2>3, <3>1 DEF q
  <2>4. CASE ~(i <= a + d)
    <3>1. i - d \in 1..(a + l) /\ ~(i <= a) /\ ~(i - d <= a) /\ (i - d) - a = i - (a + d)
      BY <1>1, <2>4
    <3> QED
      BY <1>1, <1>2, <1>4, <1>6, <2>1, <2>4, <3>1
  <2> QED
    BY <2>2, <2>3, <2>4
<1>8. Len(x) = a + l + d /\ Len(y) = a + l + d
  BY <1>1, <1>2, <1>4, <1>5, <1>6 DEF q
<1>9. x = y
  BY <1>4, <1>6, <1>7, <1>8, SameSeq
<1> QED
  BY <1>9 DEF x, y, w, a

\* The characters behind the first i.
Rest(t, i) == SubSeq(t, i + 1, Len(t))

\* The elements of the rest of a text.
LEMMA RestFacts ==
  ASSUME NEW t \in Seq(Letters), NEW i \in 0..Len(t)
  PROVE  /\ Rest(t, i) \in Seq(Letters) /\ Len(Rest(t, i)) = Len(t) - i
         /\ \A k \in 1..(Len(t) - i) : Rest(t, i)[k] = t[i + k]
BY DEF Rest

\* The rest of a text begins with its next character.
LEMMA RestOne ==
  ASSUME NEW t \in Seq(Letters), NEW i \in 0..Len(t), i < Len(t)
  PROVE  /\ t[i + 1] \in Letters /\ Rest(t, i + 1) \in Seq(Letters)
         /\ Rest(t, i) = <<t[i + 1]>> \o Rest(t, i + 1)
<1> DEFINE n == Len(t)
           e == t[i + 1]
           x == Rest(t, i)
           v == Rest(t, i + 1)
           y == <<e>> \o v
<1>1. n \in Nat /\ i + 1 \in 1..n /\ i + 1 \in 0..n
  OBVIOUS
<1>2. e \in Letters
  BY <1>1
<1>3. x \in Seq(Letters) /\ Len(x) = n - i /\ \A k \in 1..(n - i) : x[k] = t[i + k]
  BY RestFacts
<1>4. v \in Seq(Letters) /\ Len(v) = n - (i + 1) /\ \A k \in 1..(n - (i + 1)) : v[k] = t[(i + 1) + k]
  BY <1>1, RestFacts
<1> HIDE DEF x, v, e, n
<1>5. <<e>> \in Seq(Letters) /\ Len(<<e>>) = 1 /\ <<e>>[1] = e
  BY <1>2
<1>6. y \in Seq(Letters) /\ Len(y) = n - i
  BY <1>1, <1>4, <1>5
<1>7. \A k \in 1..(n - i) : x[k] = y[k]
  <2> TAKE k \in 1..(n - i)
  <2>1. CASE k = 1
    <3>1. y[1] = e
      BY <1>4, <1>5
    <3> QED
      BY <1>3, <2>1, <3>1 DEF e
  <2>2. CASE k # 1
    <3>1. k - 1 \in 1..(n - (i + 1)) /\ (i + 1) + (k - 1) = i + k
      BY <1>1, <2>2
    <3>2. y[k] = v[k - 1]
      BY <1>1, <1>4, <1>5, <2>2, <3>1
    <3> QED
      BY <1>3, <1>4, <3>1, <3>2
  <2> QED
    BY <2>1, <2>2
<1>8. x = y
  BY <1>3, <1>6, <1>7, SameSeq
<1> QED
  BY <1>2, <1>4, <1>8 DEF x, v, e

\* The text with the marks up to its first i characters.
Half(t, C, i) == C[i] \o Rest(t, i)

\* The text half marked: its length and that of the part done.
LEMMA HalfFacts ==
  ASSUME NEW t \in Seq(Letters), NEW C, IsMarking(C, t), NEW i \in 0..Len(t)
  PROVE  /\ C[i] \in Seq(Letters) /\ Half(t, C, i) \in Seq(Letters)
         /\ Len(Half(t, C, i)) = Len(C[i]) + (Len(t) - i) /\ Len(C[i]) \in Nat
<1>1. C[i] \in Seq(Letters)
  BY DEF IsMarking
<1>2. Rest(t, i) \in Seq(Letters) /\ Len(Rest(t, i)) = Len(t) - i
  BY RestFacts
<1> DEFINE x == C[i]
           y == Rest(t, i)
<1> HIDE DEF x, y
<1>3. x \o y \in Seq(Letters) /\ Len(x \o y) = Len(x) + Len(y) /\ Len(x) \in Nat
  BY <1>1, <1>2 DEF x, y
<1> QED
  BY <1>1, <1>2, <1>3 DEF Half, x, y

MarkBefore(t, i) == i > 1 /\ (Len(t) - i + 1) % 3 = 0

\* A character without a mark, and one with it.
LEMMA PlainStep ==
  ASSUME NEW t \in Seq(Letters), NEW C, IsMarking(C, t), NEW i \in 0..Len(t), i < Len(t),
         ~MarkBefore(t, i + 1)
  PROVE  Half(t, C, i + 1) = Half(t, C, i) /\ Len(C[i + 1]) = Len(C[i]) + 1
<1> DEFINE e == t[i + 1]
           x == C[i]
           v == Rest(t, i + 1)
<1>1. e \in Letters /\ v \in Seq(Letters) /\ Rest(t, i) = <<e>> \o v
  BY RestOne
<1>2. x \in Seq(Letters)
  BY HalfFacts
<1>3. C[i + 1] = x \o <<e>>
  <2>1. i + 1 \in 1..Len(t) /\ (i + 1) - 1 = i
    OBVIOUS
  <2>2. C[i + 1] = CommaStep(x, t, i + 1)
    BY <2>1 DEF IsMarking
  <2> QED
    BY <2>2, Zenon DEF CommaStep, MarkBefore
<1> HIDE DEF e, x, v
<1>4. <<e>> \in Seq(Letters) /\ Len(<<e>>) = 1
  BY <1>1, OneSeq
<1>5. (x \o <<e>>) \o v = x \o (<<e>> \o v)
  BY <1>1, <1>2, <1>4, Associative
<1>6. Len(x \o <<e>>) = Len(x) + 1
  BY <1>2, <1>4
<1>7. Half(t, C, i) = x \o (<<e>> \o v)
  BY <1>1 DEF Half, x
<1>8. Half(t, C, i + 1) = (x \o <<e>>) \o v
  BY <1>3 DEF Half, v
<1> QED
  BY <1>3, <1>5, <1>6, <1>7, <1>8 DEF x

\* A character with a mark before it: the mark is put in behind the part done.
LEMMA MarkStep ==
  ASSUME NEW t \in Seq(Letters), NEW C, IsMarking(C, t), NEW i \in 0..Len(t), i < Len(t),
         MarkBefore(t, i + 1)
  PROVE  /\ Half(t, C, i + 1) = PutIn(Half(t, C, i), <<",">>, Len(C[i]))
         /\ Len(C[i + 1]) = Len(C[i]) + 2
<1> DEFINE e == t[i + 1]
           x == C[i]
           v == Rest(t, i + 1)
           c == ","
           m == <<c>>
<1>1. e \in Letters /\ v \in Seq(Letters) /\ Rest(t, i) = <<e>> \o v
  BY RestOne
<1>2. x \in Seq(Letters) /\ c \in Letters
  <2>1. x \in Seq(Letters)
    BY HalfFacts
  <2> QED
    BY <2>1, LetterFacts
<1>3. C[i + 1] = x \o <<c, e>>
  <2>1. i + 1 \in 1..Len(t) /\ (i + 1) - 1 = i
    OBVIOUS
  <2>2. C[i + 1] = CommaStep(x, t, i + 1)
    BY <2>1 DEF IsMarking
  <2> QED
    BY <2>2, Zenon DEF CommaStep, MarkBefore
<1> HIDE DEF e, x, v, c
<1>4. <<e>> \in Seq(Letters) /\ Len(<<e>>) = 1 /\ m \in Seq(Letters) /\ Len(m) = 1 /\ <<c, e>> = m \o <<e>>
  BY <1>1, <1>2, OneSeq, TwoSeq
<1> DEFINE f == <<e>>
           y == f \o v
<1> HIDE DEF m, f
<1>5. f \in Seq(Letters) /\ Len(f) = 1 /\ C[i + 1] = x \o (m \o f)
  BY <1>3, <1>4 DEF f
<1>6. y \in Seq(Letters) /\ x \o (m \o f) = (x \o m) \o f /\ x \o m \in Seq(Letters)
  BY <1>1, <1>2, <1>4, <1>5
<1>7. ((x \o m) \o f) \o v = (x \o m) \o y
  BY <1>1, <1>5, <1>6, Associative
<1>8. Len(x \o (m \o f)) = Len(x) + 2
  BY <1>2, <1>4, <1>5
<1> HIDE DEF y
<1>9. PutIn(x \o y, m, Len(x)) = (x \o m) \o y
  BY <1>2, <1>4, <1>6, PutInConcat
<1>10. Half(t, C, i) = x \o y
  BY <1>1 DEF Half, x, y, f
<1>11. Half(t, C, i + 1) = ((x \o m) \o f) \o v
  BY <1>5, <1>6 DEF Half, v
<1> QED
  BY <1>5, <1>7, <1>8, <1>9, <1>10, <1>11 DEF x, m, c

\* Marks before the first character of every group of three, and no others.
LEMMA MarkPlaces ==
  ASSUME NEW t \in Seq(Letters), NEW first \in 1..3, NEW num \in Nat, Len(t) = first + 3 * num
  PROVE  /\ \A i \in 1..first : ~MarkBefore(t, i)
         /\ \A k \in 0..num : k < num =>
              /\ MarkBefore(t, first + 3 * k + 1)
              /\ ~MarkBefore(t, first + 3 * k + 2) /\ ~MarkBefore(t, first + 3 * k + 3)
<1> DEFINE n == Len(t)
<1>1. n \in Nat /\ n = first + 3 * num
  OBVIOUS
<1> HIDE DEF n
<1>2. ASSUME NEW i \in 1..first PROVE ~(i > 1 /\ (n - i + 1) % 3 = 0)
  BY <1>1
<1>3. ASSUME NEW k \in 0..num, k < num
      PROVE  /\ first + 3 * k + 1 > 1 /\ (n - (first + 3 * k + 1) + 1) % 3 = 0
             /\ (n - (first + 3 * k + 2) + 1) % 3 # 0 /\ (n - (first + 3 * k + 3) + 1) % 3 # 0
  <2> DEFINE d == num - k
  <2>1. /\ n - (first + 3 * k + 1) + 1 = 3 * d
        /\ n - (first + 3 * k + 2) + 1 = 3 * d - 1
        /\ n - (first + 3 * k + 3) + 1 = 3 * d - 2
    BY <1>1
  <2>2. d \in Nat /\ d > 0
    BY <1>3
  <2> HIDE DEF d
  <2>3. (3 * d) % 3 = 0 /\ (3 * d - 1) % 3 # 0 /\ (3 * d - 2) % 3 # 0
    BY <2>2
  <2>4. first + 3 * k + 1 > 1
    OBVIOUS
  <2> QED
    BY <2>1, <2>3, <2>4
<1> QED
  BY <1>2, <1>3 DEF MarkBefore, n

\* Up to the first mark.
LEMMA FirstPart ==
  ASSUME NEW t \in Seq(Letters), NEW C, IsMarking(C, t), NEW first \in 1..3, first <= Len(t),
         \A i \in 1..first : ~MarkBefore(t, i)
  PROVE  Half(t, C, first) = t /\ Len(C[first]) = first
<1> DEFINE Q == {i \in 0..first : Half(t, C, i) = t /\ Len(C[i]) = i}
<1>1. Len(t) \in Nat
  OBVIOUS
<1>2. 0 \in Q
  <2>1. C[0] = <<>>
    BY DEF IsMarking
  <2>2. Rest(t, 0) = t
    BY DEF Rest
  <2>3. <<>> \o t = t /\ Len(<<>>) = 0 /\ 0 \in 0..first
    OBVIOUS
  <2>4. Half(t, C, 0) = t
    BY <2>1, <2>2, <2>3 DEF Half
  <2> QED
    BY <2>1, <2>3, <2>4
<1>3. ASSUME NEW i \in 1..first, i - 1 \in Q PROVE i \in Q
  <2> DEFINE j == i - 1
  <2>1. j \in 0..Len(t) /\ j < Len(t) /\ j + 1 = i
    BY <1>1
  <2>2. Half(t, C, j) = t /\ Len(C[j]) = j
    BY <1>3
  <2> HIDE DEF j
  <2>3. ~MarkBefore(t, j + 1)
    BY <2>1
  <2>4. Half(t, C, j + 1) = Half(t, C, j) /\ Len(C[j + 1]) = Len(C[j]) + 1
    BY <2>1, <2>3, PlainStep
  <2>5. Half(t, C, i) = t /\ Len(C[i]) = i
    BY <2>1, <2>2, <2>4
  <2>6. i \in 0..first
    OBVIOUS
  <2> QED
    BY <2>5, <2>6
<1> HIDE DEF Q
<1>4. \A i \in 0..first : i \in Q
  <2>1. first \in Nat
    OBVIOUS
  <2> QED
    BY <1>2, <1>3, <2>1, InductionTo
<1>5. first \in Q
  BY <1>4
<1> QED
  BY <1>5 DEF Q

\* The group of three behind j characters: one mark more.
Marks(t, C, j) ==
  /\ Half(t, C, j + 3) = PutIn(Half(t, C, j), <<",">>, Len(C[j]))
  /\ Len(C[j + 3]) = Len(C[j]) + 4

\* Three characters of which only the first has a mark before it.
LEMMA GroupOfThree ==
  ASSUME NEW t \in Seq(Letters), NEW C, IsMarking(C, t), NEW j \in Nat, j + 3 <= Len(t),
         MarkBefore(t, j + 1), ~MarkBefore(t, j + 2), ~MarkBefore(t, j + 3)
  PROVE  Marks(t, C, j)
<1>1. /\ j \in 0..Len(t) /\ j < Len(t) /\ j + 1 \in 0..Len(t) /\ j + 1 < Len(t)
      /\ j + 2 \in 0..Len(t) /\ j + 2 < Len(t) /\ (j + 1) + 1 = j + 2 /\ (j + 2) + 1 = j + 3
  OBVIOUS
<1>2. Len(C[j]) \in Nat
  BY <1>1, HalfFacts
<1>3. /\ Half(t, C, j + 1) = PutIn(Half(t, C, j), <<",">>, Len(C[j]))
      /\ Len(C[j + 1]) = Len(C[j]) + 2
  BY <1>1, MarkStep
<1>4. Half(t, C, (j + 1) + 1) = Half(t, C, j + 1) /\ Len(C[(j + 1) + 1]) = Len(C[j + 1]) + 1
  BY <1>1, PlainStep
<1>5. Half(t, C, (j + 2) + 1) = Half(t, C, j + 2) /\ Len(C[(j + 2) + 1]) = Len(C[j + 2]) + 1
  BY <1>1, PlainStep
<1>6. Half(t, C, j + 3) = Half(t, C, j + 1)
  BY <1>1, <1>4, <1>5
<1>7. Len(C[j + 3]) = Len(C[j + 2]) + 1 /\ Len(C[j + 2]) = Len(C[j + 1]) + 1
  BY <1>1, <1>4, <1>5
<1>8. Len(C[j + 3]) = Len(C[j]) + 4
  <2> DEFINE l == Len(C[j])
             x == Len(C[j + 1])
             y == Len(C[j + 2])
             z == Len(C[j + 3])
  <2>1. l \in Nat /\ x = l + 2 /\ y = x + 1 /\ z = y + 1
    BY <1>2, <1>3, <1>7
  <2> HIDE DEF l, x, y, z
  <2>2. z = l + 4
    BY <2>1
  <2> QED
    BY <2>2 DEF l, z
<1> QED
  BY <1>3, <1>6, <1>8 DEF Marks

\* The buffers after every mark.
LEMMA CommaTurns ==
  ASSUME NEW b \in Buffers, NEW first \in Nat, NEW num \in Nat
  PROVE  \E A : /\ CommaMarks(b, first, num) = A[num] /\ A[0] = EnsureSize(b, b.len + b.len \div 3 + 2)
                /\ \A k \in 1..num : A[k] = CommaAt(A[k - 1], first + 4 * (k - 1))
<1> DEFINE X == Buffers
           start == EnsureSize(b, b.len + b.len \div 3 + 2)
           step == [i \in 1..num |-> [x \in X |-> CommaAt(x, first + 4 * (i - 1))]]
           F(u) == [k \in 0..num |-> IF k = 0 THEN start ELSE CommaAt(u[k - 1], first + 4 * (k - 1))]
<1>1. \A x \in X, i \in 1..num : CommaAt(x, first + 4 * (i - 1)) \in X
  <2> TAKE x \in X, i \in 1..num
  <2>1. first + 4 * (i - 1) \in Nat
    OBVIOUS
  <2> QED
    BY <2>1, CommaType
<1>2. start \in X
  <2>1. b.len \in Nat
    BY BufferFields
  <2>2. b.len + b.len \div 3 + 2 \in Nat
    BY <2>1
  <2>3. Grown(b, start, b.len + b.len \div 3 + 2)
    BY <2>2, EnsureSizeGrown
  <2> QED
    BY <2>3 DEF Grown
<1>3. CommaMarks(b, first, num) = (CHOOSE u : u = F(u))[num]
  BY DEF CommaMarks
<1> HIDE DEF X, start
<1>5. step \in [1..num -> [X -> X]] /\ \A x \in X, i \in 1..num : step[i][x] = CommaAt(x, first + 4 * (i - 1))
  BY <1>1
<1> HIDE DEF step
<1>6. PICK g : GoesBy(g, num, X, start, step)
  BY <1>2, <1>5, Recursion
<1>7. g \in [0..num -> X] /\ g[0] = start /\ \A i \in 1..num : g[i] = step[i][g[i - 1]]
  BY <1>6 DEF GoesBy
<1>8. \A i \in 1..num : g[i] = CommaAt(g[i - 1], first + 4 * (i - 1))
  <2> TAKE i \in 1..num
  <2>1. i - 1 \in 0..num
    OBVIOUS
  <2> QED
    BY <1>5, <1>7, <2>1
<1>9. g = F(g)
  <2>1. \A i \in 0..num : g[i] = F(g)[i]
    BY <1>7, <1>8
  <2> QED
    BY <1>7, <2>1
<1> DEFINE A == CHOOSE u : u = F(u)
<1>10. A = F(A)
  <2> HIDE DEF F
  <2> QED
    BY <1>9
<1>11. CommaMarks(b, first, num) = A[num]
  BY <1>3
<1> HIDE DEF A
<1>12. A[0] = start /\ \A i \in 1..num : A[i] = CommaAt(A[i - 1], first + 4 * (i - 1))
  BY <1>10
<1> QED
  BY <1>11, <1>12 DEF start

\* The buffer after k marks.
HasMarks(t, C, first, k, size, r) ==
  /\ Carries(r, Half(t, C, first + 3 * k)) /\ Len(C[first + 3 * k]) = first + 4 * k
  /\ SizeOf(r) = size

\* The marks of http2d_buffer_add_comma_marks.
LEMMA CommaMarksCarries ==
  ASSUME NEW b, NEW t \in Seq(Letters), NEW w, Holds(b, t, w), NEW first \in 1..3, NEW num \in Nat,
         Len(t) = first + 3 * num, num <= Len(t) \div 3
  PROVE  /\ TextCommas(t) \in Seq(Letters) /\ Carries(CommaMarks(b, first, num), TextCommas(t))
         /\ Len(TextCommas(t)) < SizeOf(CommaMarks(b, first, num))
<1> DEFINE n == Len(t)
           room == n + n \div 3 + 2
<1>1. /\ b \in Buffers /\ b.len = n /\ n \in Nat /\ ~b.overrun /\ SizeOf(b) \in Nat /\ n <= SizeOf(b)
      /\ \A i \in 1..n : b.mem[i] = t[i]
  BY HoldsFacts
<1>2. room \in Nat
  BY <1>1
<1>3. PICK C : IsMarking(C, t) /\ TextCommas(t) = C[n]
  BY CommaTexts
<1>4. PICK A : /\ CommaMarks(b, first, num) = A[num] /\ A[0] = EnsureSize(b, b.len + b.len \div 3 + 2)
               /\ \A k \in 1..num : A[k] = CommaAt(A[k - 1], first + 4 * (k - 1))
  <2>1. first \in Nat
    OBVIOUS
  <2> QED
    BY <1>1, <2>1, CommaTurns
<1> DEFINE size == SizeOf(A[0])
<1>5. Grown(b, A[0], room)
  <2> HIDE DEF room, n
  <2>1. A[0] = EnsureSize(b, room)
    BY <1>1, <1>4 DEF room
  <2> QED
    BY <1>1, <1>2, <2>1, EnsureSizeGrown
<1>6. Carries(A[0], t) /\ room <= size /\ size \in Nat
  <2>1. /\ A[0] \in Buffers /\ A[0].len = b.len /\ A[0].overrun = b.overrun
        /\ room <= SizeOf(A[0]) /\ SizeOf(b) <= SizeOf(A[0])
        /\ \A i \in 1..SizeOf(b) : A[0].mem[i] = b.mem[i]
    BY <1>5 DEF Grown
  <2>2. \A i \in 1..n : i \in 1..SizeOf(b)
    BY <1>1
  <2>3. \A i \in 1..n : A[0].mem[i] = t[i]
    BY <1>1, <2>1, <2>2
  <2>4. SizeOf(A[0]) \in Nat
    BY <2>1, BufferFields
  <2> HIDE DEF room
  <2> QED
    BY <1>1, <2>1, <2>3, <2>4 DEF Carries
<1>7. /\ \A i \in 1..first : ~MarkBefore(t, i)
      /\ \A k \in 0..num : k < num =>
           /\ MarkBefore(t, first + 3 * k + 1)
           /\ ~MarkBefore(t, first + 3 * k + 2) /\ ~MarkBefore(t, first + 3 * k + 3)
  BY MarkPlaces
<1>8. Half(t, C, first) = t /\ Len(C[first]) = first
  <2>1. first <= Len(t)
    OBVIOUS
  <2> QED
    BY <1>3, <1>7, <2>1, FirstPart
<1> DEFINE Q == {k \in 0..num : HasMarks(t, C, first, k, size, A[k])}
<1> HIDE DEF room, size
<1>9. 0 \in Q
  <2>1. first + 3 * 0 = first /\ first + 4 * 0 = first /\ 0 \in 0..num
    OBVIOUS
  <2>2. HasMarks(t, C, first, 0, size, A[0])
    BY <1>6, <1>8, <2>1 DEF HasMarks, size
  <2> QED
    BY <2>1, <2>2
<1>10. n + num + 2 <= size
  <2>1. num <= n \div 3 /\ room <= size /\ room = n + n \div 3 + 2
    BY <1>6 DEF room
  <2> DEFINE d == n \div 3
  <2>2. d \in Nat
    BY <1>1
  <2> HIDE DEF d, n
  <2> QED
    BY <1>1, <1>6, <2>1, <2>2 DEF d
<1>11. ASSUME NEW k \in 1..num, k - 1 \in Q PROVE k \in Q
  <2> DEFINE h == k - 1
             j == first + 3 * h
             p == first + 4 * h
             x == Half(t, C, j)
             r == A[h]
  <2>1. /\ h \in 0..num /\ h < num /\ j \in Nat /\ j + 3 <= Len(t) /\ j \in 0..Len(t)
        /\ j + 3 = first + 3 * k /\ p + 4 = first + 4 * k /\ p \in Nat
        /\ p + (n - j) = n + h
    OBVIOUS
  <2>2. HasMarks(t, C, first, h, size, r)
    BY <1>11
  <2>3. Carries(r, x) /\ Len(C[j]) = p /\ SizeOf(r) = size
    BY <2>2 DEF HasMarks
  <2>4. A[k] = CommaAt(r, p)
    BY <1>4
  <2>5. MarkBefore(t, j + 1) /\ ~MarkBefore(t, j + 2) /\ ~MarkBefore(t, j + 3)
    <3> HIDE DEF h
    <3> QED
      BY <1>7, <2>1
  <2> HIDE DEF j, p, r, n
  <2>6. Marks(t, C, j)
    BY <1>3, <2>1, <2>5, GroupOfThree
  <2>7. x \in Seq(Letters) /\ Len(x) = Len(C[j]) + (Len(t) - j)
    BY <1>3, <2>1, HalfFacts
  <2>8. Half(t, C, j + 3) = PutIn(x, <<",">>, p) /\ Len(C[j + 3]) = p + 4
    BY <2>3, <2>6 DEF Marks
  <2> HIDE DEF x
  <2>9. Len(x) = n + h
    BY <2>1, <2>3, <2>7 DEF n
  <2>10. p \in 0..Len(x) /\ Len(x) + 1 < SizeOf(r)
    <3>1. p <= n + h /\ n + h + 1 < size
      <4>1. p + (n - j) = n + h /\ n - j >= 0 /\ n - j \in Nat
        BY <1>1, <2>1 DEF n
      <4>2. h < num /\ h \in Nat
        BY <2>1
      <4> HIDE DEF h
      <4> QED
        BY <1>1, <1>6, <1>10, <2>1, <4>1, <4>2
    <3> QED
      BY <1>1, <2>1, <2>3, <2>9, <3>1
  <2>11. Carries(CommaAt(r, p), PutIn(x, <<",">>, p)) /\ SizeOf(CommaAt(r, p)) = SizeOf(r)
    BY <2>3, <2>7, <2>10, CommaAtCarries
  <2>12. HasMarks(t, C, first, k, size, A[k])
    BY <2>1, <2>3, <2>4, <2>8, <2>11 DEF HasMarks
  <2>13. k \in 0..num
    OBVIOUS
  <2> QED
    BY <2>12, <2>13
<1> HIDE DEF Q
<1>12. \A k \in 0..num : k \in Q
  BY <1>9, <1>11, InductionTo
<1>13. HasMarks(t, C, first, num, size, A[num])
  <2>1. num \in Q
    BY <1>12
  <2> QED
    BY <2>1 DEF Q
<1>14. first + 3 * num = n /\ first + 4 * num = n + num /\ n \in 0..Len(t)
  BY <1>1
<1>15. Carries(A[num], Half(t, C, n)) /\ Len(C[n]) = n + num /\ SizeOf(A[num]) = size
  <2> HIDE DEF n
  <2> QED
    BY <1>13, <1>14 DEF HasMarks
<1>16. C[n] \in Seq(Letters)
  BY <1>3, <1>14, HalfFacts
<1>17. Half(t, C, n) = C[n]
  <2>1. Rest(t, n) = <<>>
    BY DEF Rest
  <2>2. C[n] \o <<>> = C[n]
    BY <1>16
  <2> QED
    BY <2>1, <2>2 DEF Half
<1> HIDE DEF n
<1>18. Len(C[n]) < SizeOf(A[num])
  BY <1>1, <1>6, <1>10, <1>15
<1> QED
  BY <1>3, <1>4, <1>15, <1>16, <1>17, <1>18

\* http2d_buffer_add_comma_marks
LEMMA AddCommaMarksHolds ==
  ASSUME NEW b, NEW t \in Seq(Letters), NEW w \in BOOLEAN, Holds(b, t, w), Marked(t, w)
  PROVE  TextCommas(t) \in Seq(Letters) /\ Holds(AddCommaMarks(b), TextCommas(t), w)
<1> DEFINE n == Len(t)
           u == TextCommas(t)
<1>1. b.len = n /\ n \in Nat
  BY HoldsFacts
<1>2. CASE n <= 3
  <2>1. AddCommaMarks(b) = b
    BY <1>1, <1>2 DEF AddCommaMarks
  <2>2. u = t
    <3>1. PICK C : IsMarking(C, t) /\ u = C[n]
      BY CommaTexts
    <3>2. CASE n = 0
      <4>1. t = <<>> /\ u = <<>>
        BY <3>1, <3>2 DEF IsMarking
      <4> QED
        BY <4>1
    <3>3. CASE n # 0
      <4>1. n \in 1..3 /\ 0 \in Nat /\ n = n + 3 * 0
        <5>1. n \in Nat /\ n <= 3 /\ n # 0
          BY <1>1, <1>2, <3>3
        <5> HIDE DEF n
        <5> QED
          BY <5>1
      <4> HIDE DEF u
      <4>2. \A i \in 1..n : ~MarkBefore(t, i)
        BY <4>1, MarkPlaces
      <4>3. n <= Len(t)
        BY <1>1
      <4> HIDE DEF n
      <4>4. Half(t, C, n) = t
        BY <3>1, <4>1, <4>2, <4>3, FirstPart
      <4>5. Rest(t, n) = <<>>
        BY DEF Rest, n
      <4>6. C[n] \in Seq(Letters)
        <5>1. n \in 0..Len(t)
          BY <1>1 DEF n
        <5> QED
          BY <3>1, <5>1, HalfFacts
      <4>7. C[n] \o <<>> = C[n]
        BY <4>6
      <4> QED
        BY <3>1, <4>4, <4>5, <4>7 DEF Half
    <3> QED
      BY <3>2, <3>3
  <2> QED
    BY <2>1, <2>2
<1>3. CASE ~(n <= 3)
  <2> DEFINE off == n % 3
             first == IF off = 0 THEN 3 ELSE off
             num == IF off = 0 THEN n \div 3 - 1 ELSE n \div 3
             r == CommaMarks(b, first, num)
  <2>1. w = TRUE
    <3>1. t # <<>>
      BY <1>3
    <3> QED
      BY <3>1 DEF Marked
  <2>2. first \in 1..3 /\ num \in Nat /\ n = first + 3 * num /\ num <= n \div 3
    <3>1. n \in Nat /\ n > 3
      BY <1>1, <1>3
    <3> HIDE DEF n
    <3> QED
      BY <3>1
  <2>3. AddCommaMarks(b) = Terminate(r, r.len)
    BY <1>1, <1>3 DEF AddCommaMarks
  <2> HIDE DEF off, first, num
  <2>4. u \in Seq(Letters) /\ Carries(r, u) /\ Len(u) < SizeOf(r)
    BY <2>2, CommaMarksCarries
  <2>5. r \in Buffers /\ ~r.overrun /\ r.len = Len(u) /\ \A i \in 1..Len(u) : r.mem[i] = u[i]
    BY <2>4 DEF Carries
  <2> HIDE DEF r, u
  <2>6. Holds(Terminate(r, Len(u)), u, w)
    BY <2>4, <2>5, TerminateHolds
  <2> QED
    BY <2>3, <2>4, <2>5, <2>6 DEF u
<1> QED
  BY <1>2, <1>3

-----------------------------------------------------------------------------
(* All calls. *)

\* The inductive invariant.
BufInv ==
  /\ text \in Seq(Letters) /\ written \in BOOLEAN
  /\ Holds(buffer, text, written) /\ Marked(text, written)

\* A call whose result holds the text meant keeps the invariant.
LEMMA CallKeeps ==
  ASSUME BufInv, NEW b, NEW t \in Seq(Letters), Call(b, t), Holds(b, t, written \/ t # <<>>)
  PROVE  BufInv'
<1>1. buffer' = b /\ text' = t /\ written' = (written \/ t # <<>>)
  BY DEF Call
<1>2. written' \in BOOLEAN
  BY <1>1
<1>3. Marked(t, written \/ t # <<>>)
  BY DEF Marked
<1> QED
  BY <1>1, <1>2, <1>3, Zenon DEF BufInv, Holds, Carries, Marked, SizeOf

\* A call that makes no text out of nothing.
LEMMA CallKeepsMark ==
  ASSUME BufInv, NEW b, NEW t \in Seq(Letters), Call(b, t), Holds(b, t, written),
         text = <<>> => t = <<>>
  PROVE  BufInv'
<1>1. (written \/ t # <<>>) = written
  BY DEF BufInv, Marked
<1>2. Holds(b, t, written \/ t # <<>>)
  BY <1>1
<1> QED
  BY <1>2, CallKeeps

\* A text of no length is empty.
LEMMA NoText ==
  ASSUME NEW t \in Seq(Letters), Len(t) = 0
  PROVE  t = <<>>
OBVIOUS

\* The arguments of the calls.
LEMMA ArgumentFacts ==
  /\ \A t \in Texts \cup Given : t \in Seq(Letters)
  /\ \A c \in Chars : c \in Letters
  /\ \A n \in 0..MaxLen : n \in Nat
  /\ \A n \in 0..3 : n \in Nat
<1>1. \A c \in Chars : c \in Letters
  BY DEF Letters
<1>2. \A n \in 0..MaxLen : n \in Nat
  BY BufferAssumption
<1>3. \A n \in 0..3 : n \in Nat
  OBVIOUS
<1>4. \A t \in Texts \cup Given : t \in Seq(Letters)
  BY BufferAssumption
<1> QED
  BY <1>1, <1>2, <1>3, <1>4

\* The first call.
LEMMA BufferStarts == BufferInit => BufInv
<1> SUFFICES ASSUME BufferInit PROVE BufInv
  OBVIOUS
<1>1. PICK t \in Given : buffer = BufAdd(Empty, t) /\ text = t /\ written = (t # <<>>)
  BY DEF BufferInit
<1>2. t \in Seq(Letters) /\ <<>> \in Seq(Letters)
  <2>1. <<>> \in Seq(Letters)
    OBVIOUS
  <2> QED
    BY <2>1, ArgumentFacts
<1>3. Holds(BufAdd(Empty, t), <<>> \o t, FALSE \/ <<>> \o t # <<>>)
  BY <1>2, EmptyHolds, AddHolds
<1>4. <<>> \o t = t
  BY <1>2
<1>5. Holds(BufAdd(Empty, t), t, t # <<>>)
  BY <1>3, <1>4
<1> QED
  BY <1>1, <1>2, <1>5 DEF BufInv, Marked

\* What each call keeps.
LEMMA AddKeeps == ASSUME BufInv, NEW t \in Seq(Letters), AddText(t) PROVE BufInv'
<1>1. text \in Seq(Letters) /\ written \in BOOLEAN /\ Holds(buffer, text, written) /\ Marked(text, written)
  BY DEF BufInv
<1>2. text \o t \in Seq(Letters)
  BY <1>1
<1>3. Holds(BufAdd(buffer, t), text \o t, written \/ text \o t # <<>>)
  BY <1>1, AddHolds
<1> QED
  BY <1>2, <1>3, CallKeeps DEF AddText

\* One lemma for every call that BufferNext makes.
LEMMA PrependKeeps == ASSUME BufInv, NEW t \in Seq(Letters), Prepend(t) PROVE BufInv'
<1>1. text \in Seq(Letters) /\ written \in BOOLEAN /\ Holds(buffer, text, written)
  BY DEF BufInv
<1>2. t \o text \in Seq(Letters)
  BY <1>1
<1> DEFINE v == written \/ t \o text # <<>>
<1>3. v \in BOOLEAN
  OBVIOUS
<1> HIDE DEF v
<1>4. Holds(BufPrepend(buffer, t), t \o text, v)
  BY <1>1, <1>3, PrependHolds
<1> QED
  BY <1>2, <1>4, CallKeeps DEF Prepend, v

LEMMA InsertKeeps == ASSUME BufInv, NEW t \in Seq(Letters), NEW n \in Nat, Insert(t, n) PROVE BufInv'
<1>1. text \in Seq(Letters) /\ written \in BOOLEAN /\ Holds(buffer, text, written)
  BY DEF BufInv
<1>2. n \in 0..Len(text)
  BY <1>1 DEF Insert
<1>3. buffer \in Buffers /\ buffer.len = Len(text) /\ Len(text) \in Nat
  BY <1>1, HoldsFacts
<1> DEFINE u == PutIn(text, t, n)
           v == written \/ u # <<>>
           r == EnsureSize(buffer, Len(text) + Len(t) + 1)
           b == Terminate(Put(Move(r, n + Len(t), n, buffer.len - n), n, t), buffer.len + Len(t))
<1>4. v \in BOOLEAN /\ Len(text) + Len(t) + 1 \in Nat
  BY <1>3
<1> HIDE DEF v
<1>5. Grown(buffer, r, Len(text) + Len(t) + 1)
  BY <1>3, <1>4, EnsureSizeGrown
<1> HIDE DEF r
<1>6. u \in Seq(Letters) /\ Holds(b, u, v)
  BY <1>1, <1>2, <1>4, <1>5, InsertHolds
<1>7. Call(b, u)
  BY <1>3 DEF Insert, PutIn, BufInsert, r
<1> HIDE DEF b, u
<1> QED
  BY <1>6, <1>7, CallKeeps DEF v

LEMMA ReadFdKeeps == ASSUME BufInv, NEW t \in Seq(Letters), NEW n \in Nat, ReadFd(n, t) PROVE BufInv'
<1>1. text \in Seq(Letters) /\ written \in BOOLEAN /\ Holds(buffer, text, written) /\ Marked(text, written)
  BY DEF BufInv
<1>2. text \o t \in Seq(Letters)
  BY <1>1
<1>3. Len(t) <= n /\ Call(ReadFromFd(buffer, n, t), text \o t)
  BY DEF ReadFd
<1>4. Holds(ReadFromFd(buffer, n, t), text \o t, written \/ text \o t # <<>>)
  BY <1>1, <1>3, ReadFromFdHolds
<1> QED
  BY <1>2, <1>3, <1>4, CallKeeps

LEMMA AddCharKeeps == ASSUME BufInv, NEW c \in Letters, AddChar(c) PROVE BufInv'
<1>1. text \in Seq(Letters) /\ written \in BOOLEAN /\ Holds(buffer, text, written)
  BY DEF BufInv
<1>2. Append(text, c) \in Seq(Letters) /\ Append(text, c) # <<>>
  BY <1>1
<1>3. Holds(BufAddChar(buffer, c), Append(text, c), TRUE)
  BY <1>1, AddCharHolds
<1>4. (written \/ Append(text, c) # <<>>) = TRUE
  BY <1>2
<1>5. Holds(BufAddChar(buffer, c), Append(text, c), written \/ Append(text, c) # <<>>)
  BY <1>3, <1>4
<1> QED
  BY <1>2, <1>5, CallKeeps DEF AddChar

LEMMA AddCharNKeeps == ASSUME BufInv, NEW c \in Letters, NEW n \in Nat, AddCharN(c, n) PROVE BufInv'
<1>1. text \in Seq(Letters) /\ written \in BOOLEAN /\ Holds(buffer, text, written) /\ Marked(text, written)
  BY DEF BufInv
<1> DEFINE s == Repeat(c, n)
<1>2. Holds(BufAddCharN(buffer, c, n), text \o s, written \/ text \o s # <<>>) /\ s \in Seq(Letters)
  BY <1>1, AddCharNHolds
<1>3. Call(BufAddCharN(buffer, c, n), text \o s)
  BY DEF AddCharN, Repeat
<1> HIDE DEF s
<1>4. text \o s \in Seq(Letters)
  BY <1>1, <1>2
<1> QED
  BY <1>2, <1>3, <1>4, CallKeeps

LEMMA SliceKeeps ==
  ASSUME BufInv, NEW src \in Seq(Letters), NEW f \in {SliceNone} \cup 0..Len(src),
         NEW n \in {SliceNone} \cup 1..Len(src), Slice(src, f, n)
  PROVE  BufInv'
<1>1. text \in Seq(Letters) /\ written \in BOOLEAN /\ Holds(buffer, text, written) /\ Marked(text, written)
  BY DEF BufInv
<1> DEFINE s == SliceOf(src, f, n)
<1>2. s \in Seq(Letters) /\ Holds(AddSlice(buffer, src, f, n), text \o s, written \/ text \o s # <<>>)
  BY <1>1, AddSliceHolds
<1>3. Call(AddSlice(buffer, src, f, n), text \o s)
  BY DEF Slice, SliceOf
<1> HIDE DEF s
<1>4. text \o s \in Seq(Letters)
  BY <1>1, <1>2
<1> QED
  BY <1>2, <1>3, <1>4, CallKeeps

LEMMA CleanKeeps == ASSUME BufInv, Clean PROVE BufInv'
<1>1. text \in Seq(Letters) /\ written \in BOOLEAN /\ Holds(buffer, text, written)
  BY DEF BufInv
<1>2. <<>> \in Seq(Letters)
  OBVIOUS
<1>3. Holds(BufClean(buffer), <<>>, written)
  BY <1>1, CleanHolds
<1> QED
  BY <1>2, <1>3, CallKeepsMark DEF Clean

LEMMA MoveBeginKeeps == ASSUME BufInv, NEW n \in Nat, MoveBegin(n) PROVE BufInv'
<1>1. text \in Seq(Letters) /\ written \in BOOLEAN /\ Holds(buffer, text, written) /\ Marked(text, written)
  BY DEF BufInv
<1> DEFINE u == SubSeq(text, n + 1, Len(text))
<1>2. u \in Seq(Letters) /\ Holds(MoveToBegin(buffer, n), u, written)
  BY <1>1, MoveToBeginHolds
<1>3. text = <<>> => u = <<>>
  OBVIOUS
<1>4. Call(MoveToBegin(buffer, n), u)
  BY DEF MoveBegin
<1> HIDE DEF u
<1> QED
  BY <1>2, <1>3, <1>4, CallKeepsMark

LEMMA DropEndKeeps == ASSUME BufInv, NEW n \in Nat, DropEnd(n) PROVE BufInv'
<1>1. text \in Seq(Letters) /\ written \in BOOLEAN /\ Holds(buffer, text, written) /\ Marked(text, written)
  BY DEF BufInv
<1> DEFINE u == SubSeq(text, 1, Len(text) - n)
<1>2. u \in Seq(Letters) /\ Holds(DropEnding(buffer, n), u, written)
  BY <1>1, DropEndingHolds
<1>3. text = <<>> => u = <<>>
  OBVIOUS
<1>4. Call(DropEnding(buffer, n), u)
  BY DEF DropEnd
<1> HIDE DEF u
<1> QED
  BY <1>2, <1>3, <1>4, CallKeepsMark

LEMMA EnsureKeeps == ASSUME BufInv, NEW n \in Nat, Ensure(n) PROVE BufInv'
<1>1. text \in Seq(Letters) /\ written \in BOOLEAN /\ Holds(buffer, text, written)
  BY DEF BufInv
<1>2. buffer \in Buffers
  BY <1>1, HoldsFacts
<1>3. Grown(buffer, EnsureAddlen(buffer, n), buffer.len + n + 1)
  BY <1>2, EnsureAddlenGrown
<1>4. Holds(EnsureAddlen(buffer, n), text, written)
  BY <1>1, <1>3, GrownHolds
<1> QED
  BY <1>1, <1>4, CallKeepsMark DEF Ensure

LEMMA ChunkKeeps == ASSUME BufInv, NEW f \in Nat, NEW n \in Nat, CutChunk(f, n) PROVE BufInv'
<1>1. text \in Seq(Letters) /\ written \in BOOLEAN /\ Holds(buffer, text, written) /\ Marked(text, written)
  BY DEF BufInv
<1>2. f + n <= Len(text) /\ Call(RemoveChunk(buffer, f, n), Drop(text, f, n))
  BY DEF CutChunk
<1>3. Drop(text, f, n) \in Seq(Letters) /\ Holds(RemoveChunk(buffer, f, n), Drop(text, f, n), written)
  BY <1>1, <1>2, RemoveChunkHolds
<1>4. text = <<>> => Drop(text, f, n) = <<>>
  <2>1. Len(Drop(text, f, n)) = Len(text) - n
    BY <1>1, <1>2, DropFacts
  <2> SUFFICES ASSUME text = <<>> PROVE Drop(text, f, n) = <<>>
    OBVIOUS
  <2>2. Len(text) = 0 /\ n = 0
    BY <1>2
  <2>3. Len(Drop(text, f, n)) = 0
    BY <2>1, <2>2
  <2> QED
    BY <1>3, <2>3, NoText
<1> QED
  BY <1>2, <1>3, <1>4, CallKeepsMark

LEMMA SwapKeeps == ASSUME BufInv, NEW c \in Letters, NEW d \in Letters, SwapChars(c, d) PROVE BufInv'
<1>1. text \in Seq(Letters) /\ written \in BOOLEAN /\ Holds(buffer, text, written)
  BY DEF BufInv
<1> DEFINE u == Swapped(text, c, d)
<1>2. u \in Seq(Letters) /\ Holds(SwapIn(buffer, c, d), u, written)
  BY <1>1, SwapInHolds
<1>3. text = <<>> => u = <<>>
  BY DEF Swapped
<1>4. Call(SwapIn(buffer, c, d), u)
  BY DEF SwapChars, Swapped
<1> HIDE DEF u
<1> QED
  BY <1>2, <1>3, <1>4, CallKeepsMark

LEMMA LowcaseKeeps == ASSUME BufInv, ToLowcase PROVE BufInv'
<1>1. text \in Seq(Letters) /\ written \in BOOLEAN /\ Holds(buffer, text, written)
  BY DEF BufInv
<1> DEFINE u == Lowered(text)
<1>2. u \in Seq(Letters) /\ Holds(LowerIn(buffer), u, written)
  BY <1>1, LowerInHolds
<1>3. text = <<>> => u = <<>>
  BY DEF Lowered
<1>4. Call(LowerIn(buffer), u)
  BY DEF ToLowcase, Lowered
<1> HIDE DEF u
<1> QED
  BY <1>2, <1>3, <1>4, CallKeepsMark

LEMMA DedupKeeps == ASSUME BufInv, NEW c \in Letters, Dedup(c) PROVE BufInv'
<1>1. text \in Seq(Letters) /\ written \in BOOLEAN /\ Holds(buffer, text, written) /\ Marked(text, written)
  BY DEF BufInv
<1> DEFINE u == TextRemoveDups(text, c)
<1>2. u \in Seq(Letters) /\ Holds(RemoveDups(buffer, c), u, written)
  BY <1>1, RemoveDupsHolds
<1>3. text = <<>> => u = <<>>
  <2> SUFFICES ASSUME text = <<>> PROVE u = <<>>
    OBVIOUS
  <2>1. PICK D : IsDedup(D, text, c) /\ u = D[Len(text)]
    BY <1>1, DedupTexts
  <2>2. Len(text) = 0 /\ D[0] = <<>>
    BY <2>1 DEF IsDedup
  <2> QED
    BY <2>1, <2>2
<1>4. Call(RemoveDups(buffer, c), u)
  BY DEF Dedup
<1> HIDE DEF u
<1> QED
  BY <1>2, <1>3, <1>4, CallKeepsMark

LEMMA CommasKeeps == ASSUME BufInv, Commas PROVE BufInv'
<1>1. text \in Seq(Letters) /\ written \in BOOLEAN /\ Holds(buffer, text, written) /\ Marked(text, written)
  BY DEF BufInv
<1> DEFINE u == TextCommas(text)
<1>2. u \in Seq(Letters) /\ Holds(AddCommaMarks(buffer), u, written)
  BY <1>1, AddCommaMarksHolds
<1>3. text = <<>> => u = <<>>
  <2> SUFFICES ASSUME text = <<>> PROVE u = <<>>
    OBVIOUS
  <2>1. PICK C : IsMarking(C, text) /\ u = C[Len(text)]
    BY <1>1, CommaTexts
  <2>2. Len(text) = 0 /\ C[0] = <<>>
    BY <2>1 DEF IsMarking
  <2> QED
    BY <2>1, <2>2
<1>4. Call(AddCommaMarks(buffer), u)
  BY DEF Commas
<1> HIDE DEF u
<1> QED
  BY <1>2, <1>3, <1>4, CallKeepsMark

LEMMA TrimKeeps == ASSUME BufInv, Trim PROVE BufInv'
<1>1. text \in Seq(Letters) /\ written \in BOOLEAN /\ Holds(buffer, text, written) /\ Marked(text, written)
  BY DEF BufInv
<1> DEFINE u == TextTrim(text)
<1>2. u \in Seq(Letters) /\ Holds(BufTrim(buffer), u, written)
  BY <1>1, TrimHolds
<1>3. text = <<>> => u = <<>>
  <2> SUFFICES ASSUME text = <<>> PROVE u = <<>>
    OBVIOUS
  <2>1. {i \in 1..Len(text) : text[i] \notin Blanks} = {}
    OBVIOUS
  <2> QED
    BY <2>1, Zenon DEF TextTrim
<1>4. Call(BufTrim(buffer), u)
  BY DEF Trim
<1> HIDE DEF u
<1> QED
  BY <1>2, <1>3, <1>4, CallKeepsMark

LEMMA StripKeeps == ASSUME BufInv, NEW s \in Seq(Letters), Strip(s) PROVE BufInv'
<1>1. text \in Seq(Letters) /\ written \in BOOLEAN /\ Holds(buffer, text, written) /\ Marked(text, written)
  BY DEF BufInv
<1> DEFINE u == TextStrip(text, s)
<1>2. u \in Seq(Letters) /\ Holds(RemoveString(buffer, s), u, written)
  BY <1>1, RemoveStringHolds
<1>3. text = <<>> => u = <<>>
  <2> SUFFICES ASSUME text = <<>> PROVE u = <<>>
    OBVIOUS
  <2>1. PICK A : /\ u = A[Len(text)] /\ A[0] = text
                 /\ \A i \in 1..Len(text) : A[i] = StripOne(A[i - 1], s)
    BY <1>1, StripTurns
  <2>2. Len(text) = 0
    OBVIOUS
  <2> QED
    BY <2>1, <2>2
<1>4. Call(RemoveString(buffer, s), u)
  BY DEF Strip
<1> HIDE DEF u
<1> QED
  BY <1>2, <1>3, <1>4, CallKeepsMark

LEMMA ReplaceKeeps ==
  ASSUME BufInv, NEW s \in Seq(Letters), s # <<>>, NEW r \in Seq(Letters), Replace(s, r)
  PROVE  BufInv'
<1>1. text \in Seq(Letters) /\ written \in BOOLEAN /\ Holds(buffer, text, written)
  BY DEF BufInv
<1> DEFINE u == TextReplace(text, s, r)
<1>2. SizeOf(buffer) > 0 => written
  BY DEF Replace
<1>3. Call(ReplaceString(buffer, s, r), u)
  BY DEF Replace
<1>4. u \in Seq(Letters) /\ Holds(ReplaceString(buffer, s, r), u, written)
  BY <1>1, <1>2, ReplaceStringHolds
<1>5. text = <<>> => u = <<>>
  <2> SUFFICES ASSUME text = <<>> PROVE u = <<>>
    OBVIOUS
  <2>1. PICK U : IsReplacing(U, text, s, r) /\ u = U[Len(text)].out
    BY <1>1, ReplaceTurns
  <2>2. Len(text) = 0 /\ U[0].out = <<>>
    BY <2>1 DEF IsReplacing
  <2> QED
    BY <2>1, <2>2
<1> HIDE DEF u
<1> QED
  BY <1>3, <1>4, <1>5, CallKeepsMark

LEMMA MrproperKeeps == ASSUME BufInv, MrproperBuffer PROVE BufInv'
<1>1. buffer' = Empty /\ text' = <<>> /\ written' = FALSE
  BY DEF MrproperBuffer
<1>2. <<>> \in Seq(Letters)
  OBVIOUS
<1>3. Holds(Empty, <<>>, FALSE) /\ Marked(<<>>, FALSE)
  BY EmptyHolds
<1> QED
  BY <1>1, <1>2, <1>3, Zenon DEF BufInv, Holds, Carries, Marked, SizeOf

LEMMA DupKeeps == ASSUME BufInv, Dup PROVE BufInv'
<1>1. text \in Seq(Letters) /\ written \in BOOLEAN /\ Holds(buffer, text, written) /\ Marked(text, written)
  BY DEF BufInv
<1> DEFINE r == [buffer EXCEPT !.mem = Read(buffer, 0, buffer.len + 1)]
<1>2. buffer' = r /\ text' = text /\ written' = written /\ SizeOf(buffer) > 0
  BY DEF Dup
<1>3. Holds(r, text, written)
  BY <1>1, <1>2, DupHolds
<1> HIDE DEF r
<1> QED
  BY <1>1, <1>2, <1>3, Zenon DEF BufInv, Holds, Carries, Marked, SizeOf

\* Every step keeps the invariant.
LEMMA BufferSteps == BufInv /\ [BufferNext]_bufferVars => BufInv'
<1> SUFFICES ASSUME BufInv, [BufferNext]_bufferVars PROVE BufInv'
  OBVIOUS
<1>1. ASSUME NEW t \in Texts, AddText(t) \/ Prepend(t) \/ \E n \in 0..MaxLen : Insert(t, n) \/ ReadFd(n, t)
      PROVE  BufInv'
  <2>1. t \in Seq(Letters)
    BY ArgumentFacts
  <2> QED
    BY <1>1, <2>1, ArgumentFacts, AddKeeps, PrependKeeps, InsertKeeps, ReadFdKeeps
<1>2. ASSUME NEW c \in Chars, AddChar(c) \/ Dedup(c) PROVE BufInv'
  BY <1>2, ArgumentFacts, AddCharKeeps, DedupKeeps
<1>3. ASSUME NEW c \in Chars, NEW n \in 0..3, AddCharN(c, n) PROVE BufInv'
  BY <1>3, ArgumentFacts, AddCharNKeeps
<1>4. ASSUME NEW c \in Chars, NEW d \in Chars, SwapChars(c, d) PROVE BufInv'
  BY <1>4, ArgumentFacts, SwapKeeps
<1>5. ASSUME NEW n \in 0..MaxLen,
             MoveBegin(n) \/ DropEnd(n) \/ Ensure(n) \/ \E f \in 0..MaxLen : CutChunk(f, n)
      PROVE  BufInv'
  <2>1. n \in Nat
    BY ArgumentFacts
  <2> QED
    BY <1>5, <2>1, ArgumentFacts, MoveBeginKeeps, DropEndKeeps, EnsureKeeps, ChunkKeeps
<1>6. ASSUME NEW s \in Texts \ {<<>>}, Strip(s) \/ \E r \in Texts : Replace(s, r) PROVE BufInv'
  <2>1. s \in Seq(Letters) /\ s # <<>>
    BY ArgumentFacts
  <2> QED
    BY <1>6, <2>1, ArgumentFacts, StripKeeps, ReplaceKeeps
<1>7. ASSUME NEW t \in Texts, NEW f \in {SliceNone} \cup 0..Len(t), NEW n \in {SliceNone} \cup 1..Len(t),
             Slice(t, f, n)
      PROVE  BufInv'
  <2>1. t \in Seq(Letters)
    BY ArgumentFacts
  <2> QED
    BY <1>7, <2>1, SliceKeeps
<1>8. CASE Clean \/ Commas \/ Trim \/ ToLowcase \/ MrproperBuffer \/ Dup
  BY <1>8, CleanKeeps, CommasKeeps, TrimKeeps, LowcaseKeeps, MrproperKeeps, DupKeeps
<1>9. CASE UNCHANGED bufferVars
  BY <1>9, Zenon DEF bufferVars, BufInv, Holds, Carries, Marked, SizeOf
<1> QED
  BY <1>1, <1>2, <1>3, <1>4, <1>5, <1>6, <1>7, <1>8, <1>9, Zenon DEF BufferNext

\* The invariant implies the property.
LEMMA BufferInvShows == BufInv => HoldsText
<1> SUFFICES ASSUME BufInv PROVE HoldsText
  OBVIOUS
<1> DEFINE n == Len(text)
<1>1. text \in Seq(Letters) /\ written \in BOOLEAN /\ Holds(buffer, text, written)
  BY DEF BufInv
<1>2. /\ buffer \in Buffers /\ ~buffer.overrun /\ buffer.len = n /\ n \in Nat /\ SizeOf(buffer) \in Nat
      /\ written => n < SizeOf(buffer) /\ buffer.mem[n + 1] = Nul
  BY <1>1, HoldsFacts
<1>3. Read(buffer, 0, n) = SubSeq(text, 0 + 1, 0 + n)
  <2> DEFINE z == 0
  <2>1. z \in Nat /\ n \in Nat /\ z + n <= Len(text)
    BY <1>2
  <2> HIDE DEF n, z
  <2>2. Read(buffer, z, n) = SubSeq(text, z + 1, z + n)
    BY <1>1, <2>1, ReadPart
  <2> QED
    BY <2>2 DEF z
<1>4. SubSeq(text, 0 + 1, 0 + n) = text
  BY <1>1
<1>5. SizeOf(buffer) > 0 => n < SizeOf(buffer)
  BY <1>1 DEF Holds
<1>6. written => CharAt(buffer, n) = Nul
  BY <1>2, CharAtFacts
<1> QED
  BY <1>2, <1>3, <1>4, <1>5, <1>6 DEF HoldsText

\* In every order of calls and for texts of any length, the buffer holds the
\* text that the calls make on sequences, terminated; no copy of buffer.c runs
\* over the memory or takes a byte that was never set.
THEOREM BufferAlwaysHolds == BufferSpec => []HoldsText
BY BufferStarts, BufferSteps, BufferInvShows, PTL DEF BufferSpec
=============================================================================
