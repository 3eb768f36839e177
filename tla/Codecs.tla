-------------------------------- MODULE Codecs --------------------------------
(***************************************************************************)
(* The conversions of buffer.c, as functions on sequences of bytes: URI and *)
(* HTML escapes, base64, hexadecimal, decimal numbers, file sizes and the   *)
(* substitution of strings.  Each that sets buf->len from an estimate of its*)
(* own returns both what it wrote and the length that it claims.  The state *)
(* only enumerates the inputs.                                              *)
(***************************************************************************)
EXTENDS Integers, Sequences, SequencesExt

CONSTANTS
  Bytes,       \* the bytes that inputs are made of
  MaxBytes,    \* bound on the length of an input
  Width,       \* the bits of a number
  FileSizes,   \* the sizes that add_fsize is called with
  Chunk,       \* the bytes that decode_base64 collects before it writes: 127
  Subs         \* the pairs <<substring, replacement>> of substitute_string

VARIABLES bytes, number, fsize

vars == <<bytes, number, fsize>>

Percent == 37
Written(out, len) == [out |-> out, len |-> len]

\* The byte at position i (from 1) of a C string: '\0' ends it.
At(s, i) == IF i \in DOMAIN s THEN s[i] ELSE 0

\* The part of s that a loop over a C string sees.
CString(s) == SubSeq(s, 1, IF Contains(s, 0) THEN SelectInSeq(s, LAMBDA c : c = 0) - 1 ELSE Len(s))

-----------------------------------------------------------------------------
(* UTF-8 and URI escapes. *)

\* utf8_get_next_char: a '\0' cuts the character short.
CharLen(s, i) ==
  LET lead == At(s, i)
      full == CASE lead \div 32 = 6 -> 2 [] lead \div 16 = 14 -> 3
                [] lead \div 8 = 30 -> 4 [] OTHER -> 1
      cuts == {k \in 1..full - 1 : At(s, i + k) = 0}
  IN  IF cuts = {} THEN full ELSE CHOOSE k \in cuts : \A j \in cuts : k <= j

\* The characters of s from position i on; the loops test for the end last.
CharsFrom(s, from) ==
  LET chars[i \in Nat] ==
        LET n    == CharLen(s, i)
            this == [k \in 1..n |-> At(s, i + k - 1)]
        IN  IF i + n > Len(s) THEN <<this>> ELSE <<this>> \o chars[i + n]
  IN  chars[from]

Utf8Len(s) == IF s = <<>> THEN 0 ELSE Len(CharsFrom(s, 1))

EscapeUri       == 0..31 \cup 127..255 \cup {32, 35, 37, 63}   \* space # % ?
EscapeUriDelims == EscapeUri \cup {58, 64, 91, 93}            \* : @ [ ]
EscapeArg       == EscapeUri \cup {38, 43, 59}                \* & + ;

Hex(d) == IF d > 9 THEN d + 87 ELSE d + 48

\* hex2dec_tab, hex_to_bin
HexValue(c) == CASE c \in 48..57 -> c - 48 [] c \in 65..70 -> c - 55
                 [] c \in 97..102 -> c - 87 [] OTHER -> -1

Escaped(char, table) == Len(char) = 1 /\ char[1] \in table

\* Mutant: the first byte of a longer character is escaped as well.
EscapeWithTableMulti(src, table) ==
  LET one(char) == IF char[1] \in table
                   THEN <<Percent, Hex(char[1] \div 16), Hex(char[1] % 16)>> \o Tail(char)
                   ELSE char
      chars     == CharsFrom(src, 1)
  IN  Written(FlattenSeq([i \in DOMAIN chars |-> one(chars[i])]),
              Len(src) + 2 * Len(SelectSeq(chars, LAMBDA c : Escaped(c, table))))

\* Only characters of one byte are escaped.
EscapeWithTable(src, table) ==
  LET one(char) == IF Escaped(char, table)
                   THEN <<Percent, Hex(char[1] \div 16), Hex(char[1] % 16)>>
                   ELSE char
      chars     == CharsFrom(src, 1)
  IN  Written(FlattenSeq([i \in DOMAIN chars |-> one(chars[i])]),
              Len(src) + 2 * Len(SelectSeq(chars, LAMBDA c : Escaped(c, table))))

\* %00 becomes a space.
UnescapeUri(s) ==
  LET hexPair(i) == HexValue(At(s, i + 1)) >= 0 /\ HexValue(At(s, i + 2)) >= 0
      from[i \in Nat] ==
        IF At(s, i) = 0 THEN Written(<<>>, 0)
        ELSE IF s[i] = Percent /\ hexPair(i)
        THEN LET c == HexValue(s[i + 1]) * 16 + HexValue(s[i + 2])
                 r == from[i + 3]
             IN  Written(<<IF c = 0 THEN 32 ELSE c>> \o r.out, r.len - 2)
        ELSE LET r == from[i + 1] IN Written(<<s[i]>> \o r.out, r.len)
      all == from[1]
  IN  Written(all.out, Len(s) + all.len)

-----------------------------------------------------------------------------
(* HTML escapes. *)

Entity(c) ==
  CASE c = 60 -> <<38, 108, 116, 59>>                 \* &lt;
    [] c = 62 -> <<38, 103, 116, 59>>                 \* &gt;
    [] c = 38 -> <<38, 97, 109, 112, 59>>             \* &amp;
    [] c = 34 -> <<38, 113, 117, 111, 116, 59>>       \* &quot;
    [] c = 35 -> <<38, 35, 51, 53, 59>>               \* &#35;
    [] c = 39 -> <<38, 35, 51, 57, 59>>               \* &#39;
    [] OTHER  -> <<c>>

EntityExtra(c) == CASE c \in {60, 62} -> 3 [] c \in {38, 35, 39} -> 4 [] c = 34 -> 5 [] OTHER -> 0

Specials == {60, 62, 38, 34}

\* Escapes from the first of < > & " on; refuses what has a '\0' inside.
AddEscapeHtml(s) ==
  LET p == SelectInSeq(CString(s), LAMBDA c : c \in Specials)
  IN  IF p = 0 THEN [ret |-> "ok", out |-> s, len |-> Len(s)]
      ELSE IF CString(s) # s THEN [ret |-> "error", out |-> <<>>, len |-> 0]
      ELSE [ret |-> "ok",
            out |-> SubSeq(s, 1, p - 1)
                    \o FlattenSeq([i \in 1..Len(s) - p + 1 |-> Entity(s[p + i - 1])]),
            len |-> Len(s) + FoldLeft(LAMBDA n, c : n + EntityExtra(c), 0, SubSeq(s, p, Len(s)))]

-----------------------------------------------------------------------------
(* Base64 and hexadecimal. *)

\* base64tab
Base64(d) == CASE d \in 0..25 -> d + 65 [] d \in 26..51 -> d + 71
               [] d \in 52..61 -> d - 4 [] d = 62 -> 43 [] OTHER -> 47

\* b64_decode_tab
Base64Value(c) == CASE c \in 65..90 -> c - 65 [] c \in 97..122 -> c - 71
                    [] c \in 48..57 -> c + 4 [] c = 43 -> 62 [] c = 47 -> 63
                    [] OTHER -> -1

EncodeBase64(s) ==
  LET group(k) ==
        LET i == 3 * k + 1
            a == s[i]
            b == At(s, i + 1)
            c == At(s, i + 2)
        IN  <<Base64(a \div 4),
              Base64((a % 4) * 16 + b \div 16),
              IF i + 1 > Len(s) THEN 61 ELSE Base64((b % 16) * 4 + c \div 64),
              IF i + 2 > Len(s) THEN 61 ELSE Base64(c % 64)>>
  IN  FlattenSeq([k \in 1..(Len(s) + 2) \div 3 |-> group(k - 1)])

\* ensure_size (encoded, ...)
EncodeBase64Room(s) == ((Len(s) + 4) * 4) \div 3 + 1

\* bytes overwrites mem from position pos (from 0) on.
Overwrite(mem, pos, new) ==
  [i \in DOMAIN mem |-> IF i \in pos + 1..pos + Len(new) THEN new[i - pos] ELSE mem[i]]

\* The byte that a digit d completes.
Completed(phase, prev, d) ==
  CASE phase = 0 -> <<>>
    [] phase = 1 -> <<prev * 4 + d \div 16>>
    [] phase = 2 -> <<(prev % 16) * 16 + d \div 4>>
    [] phase = 3 -> <<(prev % 4) * 64 + d>>

\* decode_base64 decodes in place, a chunk at a time; other bytes are skipped.
\* The code finds a byte in its table with a signed index: bytes from 128 on, which
\* no encoder writes, read outside the table and are not among the inputs here.
DecodeBase64(s) ==
  LET step(st, i) ==
        LET d     == Base64Value(st.mem[i])
            space == IF d = -1 THEN st.space
                     ELSE st.space \o Completed(st.phase, st.prev, d)
            full  == Len(space) = Chunk
        IN  [phase |-> IF d = -1 THEN st.phase ELSE (st.phase + 1) % 4,
             prev  |-> IF d = -1 THEN st.prev ELSE d,
             space |-> IF full THEN <<>> ELSE space,
             mem   |-> IF full THEN Overwrite(st.mem, st.pos, space) ELSE st.mem,
             pos   |-> IF full THEN st.pos + Chunk ELSE st.pos]
      end == FoldLeft(step, [mem |-> s, space |-> <<>>, phase |-> 0, prev |-> 0, pos |-> 0],
                      [i \in DOMAIN s |-> i])
  IN  SubSeq(Overwrite(end.mem, end.pos, end.space), 1, end.pos + Len(end.space))

EncodeHex(s) == FlattenSeq([i \in DOMAIN s |-> <<Hex(s[i] \div 16), Hex(s[i] % 16)>>])

\* decode_hex stops at a byte that is no digit, and halves the length anyway.
DecodeHex(s) ==
  LET digit(i) == HexValue(s[i] % 128)
      good(i)  == \A k \in 1..2 * i : digit(k) >= 0
  IN  [i \in 1..Len(s) \div 2 |->
        IF good(i) THEN digit(2 * i - 1) * 16 + digit(2 * i) ELSE s[i]]

-----------------------------------------------------------------------------
(* Numbers. *)

\* The digits of an unsigned number: there is always one.
Digits(n, base) ==
  LET d[k \in Nat] ==
        LET low == <<IF base = 16 THEN Hex(k % 16) ELSE (k % 10) + 48>>
        IN  IF k \div base = 0 THEN low ELSE d[k \div base] \o low
  IN  d[n]

\* add_long10, add_llong10: a negative number is negated as an unsigned one.
AddLong10(v) ==
  LET u == v % 2^Width
  IN  (IF v < 0 THEN <<45>> ELSE <<>>)
      \o Digits(IF v < 0 THEN (2^Width - u) % 2^Width ELSE u, 10)

AddULong10(n) == Digits(n, 10)
AddULong16(n) == Digits(n, 16)

\* add_fsize: the number shown, in tenths where those are shown, and its unit.
AddFsize(size) ==
  LET show(n, rest, unit) ==
        IF n < 9 \/ (n = 9 /\ rest < 973)
        THEN LET tenth == (rest * 5 + 256) \div 512
             IN  [unit |-> unit, tenths |-> TRUE,
                  n |-> IF tenth >= 10 THEN 10 * (n + 1) ELSE 10 * n + tenth]
        ELSE [unit |-> unit, tenths |-> FALSE, n |-> IF rest >= 512 THEN n + 1 ELSE n]
      from[k \in 1..6] ==
        LET n == size \div 1024^k
            rest == (size \div 1024^(k - 1)) % 1024
        IN  IF n >= 973 THEN from[k + 1] ELSE show(n, rest, 1024^k)
  IN  IF size < 973 THEN [unit |-> 1, tenths |-> FALSE, n |-> size] ELSE from[1]

-----------------------------------------------------------------------------
(* substitute_string. *)

\* strstr from position i on; 0 if there is none.
Find(s, sub, i) ==
  LET at == {k \in i..Len(s) - Len(sub) + 1 : SubSeq(s, k, k + Len(sub) - 1) = sub}
  IN  IF at = {} THEN 0 ELSE CHOOSE k \in at : \A j \in at : k <= j

\* One pass adds up the length, another one writes.
SubstituteString(s, sub, new) ==
  LET len[i \in Nat] == LET k == Find(s, sub, i)
                        IN  IF k = 0 THEN 0 ELSE Len(new) - Len(sub) + len[k + Len(sub)]
      out[i \in Nat] == LET k == Find(s, sub, i)
                        IN  IF k = 0 THEN SubSeq(s, i, Len(s))
                            ELSE SubSeq(s, i, k - 1) \o new \o out[k + Len(sub)]
      total == Len(s) + len[1]
  IN  IF Find(s, sub, 1) = 0 THEN Written(<<>>, 0)
      ELSE IF total < 1 THEN Written(<<>>, 0)
      ELSE Written(out[1], total)

-----------------------------------------------------------------------------
(* The inputs: the strings over Bytes, the numbers of Width bits, FileSizes. *)

Init == bytes = <<>> /\ number = 0 /\ fsize = 0

NextBytes  == /\ number = 0 /\ fsize = 0 /\ Len(bytes) < MaxBytes
              /\ \E b \in Bytes : bytes' = Append(bytes, b)
              /\ UNCHANGED <<number, fsize>>
NextNumber == /\ bytes = <<>> /\ fsize = 0 /\ number < 2^Width - 1
              /\ number' = number + 1
              /\ UNCHANGED <<bytes, fsize>>
NextFsize  == /\ bytes = <<>> /\ number = 0
              /\ fsize' \in FileSizes
              /\ UNCHANGED <<bytes, number>>

Next == NextBytes \/ NextNumber \/ NextFsize
Spec == Init /\ [][Next]_vars

-----------------------------------------------------------------------------
(* Properties. *)

\* No character has an ASCII byte behind its lead byte.
WellFormed(s) == \A char \in Range(CharsFrom(s, 1)) : \A k \in 2..Len(char) : char[k] >= 128

Exact(w) == w.len = Len(w.out)

\* What HTML makes of escaped text.
HtmlText(s) ==
  LET from[i \in Nat] ==
        IF i > Len(s) THEN <<>>
        ELSE LET hit == {c \in Specials \cup {35, 39} :
                           IsPrefix(Entity(c), SubSeq(s, i, Len(s)))}
             IN  IF hit = {} THEN <<s[i]>> \o from[i + 1]
                 ELSE LET c == CHOOSE c \in hit : TRUE IN <<c>> \o from[i + Len(Entity(c))]
  IN  from[1]

\* The number that digits stand for.
ValueOf(s, base) == FoldLeft(LAMBDA n, c : n * base + HexValue(c), 0, s)

\* A text and its length are what an empty source leaves: the do-while loops
\* escape its terminating '\0', which the length does not count.
EmptyEscaped(w) == w.out = <<Percent, 48, 48>> /\ w.len = 2

\* buffer.c, the codecs: decoding what was encoded gives the text back, for URIs
\* with a space for each '\0', and unless a broken UTF-8 character is in it;
\* each length that a codec computes before it writes is the length it writes,
\* within the room it made.  Escaping an empty buffer for a URI is the exception
\* to both: it writes %00 and claims two bytes.
ComesBack ==
  /\ \A table \in {EscapeUri, EscapeUriDelims, EscapeArg} :
       LET w    == EscapeWithTable(bytes, table)
           back == UnescapeUri(w.out)
       IN  IF bytes = <<>> THEN EmptyEscaped(w)
           ELSE /\ Exact(w) /\ Exact(back)
                /\ WellFormed(bytes) =>
                     back.out = [i \in DOMAIN bytes |-> IF bytes[i] = 0 THEN 32 ELSE bytes[i]]
  /\ Utf8Len(bytes) <= Len(bytes)
  /\ LET w == AddEscapeHtml(bytes)
     IN  /\ Exact(w)
         /\ w.ret = "ok" /\ 0 \notin Range(bytes) =>
              HtmlText(w.out) = bytes /\ Range(w.out) \cap {60, 62, 34} = {}
  /\ DecodeBase64(EncodeBase64(bytes)) = bytes
  /\ Len(EncodeBase64(bytes)) < EncodeBase64Room(bytes)
  /\ DecodeHex(EncodeHex(bytes)) = bytes
  /\ \A sub \in Subs : Exact(SubstituteString(CString(bytes), sub[1], sub[2]))

\* buffer.c, add_long10 and its siblings, add_fsize: the digits stand for the
\* number, the smallest negative number included.  Of a file size, what is less
\* than a 1024th of the unit is dropped; the rest is shown to within half of the
\* last place.
NumbersShown ==
  /\ ValueOf(AddULong10(number), 10) = number /\ ValueOf(AddULong16(number), 16) = number
  /\ LET v == IF number < 2^(Width - 1) THEN number ELSE number - 2^Width
         s == AddLong10(v)
     IN  IF v < 0 THEN s[1] = 45 /\ ValueOf(Tail(s), 10) = -v ELSE ValueOf(s, 10) = v
  /\ LET f     == AddFsize(fsize)
         kept  == IF f.unit = 1 THEN fsize ELSE fsize - (fsize % (f.unit \div 1024))
         error == (IF f.tenths THEN 10 * kept ELSE kept) - f.n * f.unit
         half  == f.unit \div 2
     IN  error \in -half..half /\ f.n < 974
=============================================================================
