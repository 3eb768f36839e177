-------------------------- MODULE SpdyFramingProofs --------------------------
(***************************************************************************)
(* Proofs about SpdyFraming, for streams of any length and every way to cut *)
(* them into reads.                                                         *)
(*                                                                         *)
(* The loop of spdy_process_buffer does not reset pos when the buffer is    *)
(* moved, so that it looks for headers in the middle of what is left, or    *)
(* behind it.  What it finds there is nevertheless never older than what it *)
(* has handled: a cell behind the buffer's length that pos can point to     *)
(* still holds the word right behind the last frame.                        *)
(***************************************************************************)
EXTENDS SpdyFraming, SequenceFacts

\* The stream word in cell 0: the first that is not consumed yet.
Base == arrived - len + 1

\* The buffer holds the words that were read and not consumed, in order.
Live == \A i \in 0..(len - 1) : i \in DOMAIN mem /\ mem[i] = Base + i

\* Where the loop looks for a header it finds a word of the buffer, or, behind
\* its end, the first word that is not consumed.
AtPos ==
  /\ pc = "frame" => len > 2 /\ Cell(pos) = IF pos < len THEN Base + pos ELSE Base
  /\ pc = "read" => len <= 2

\* The frames that were handled have been consumed.
Consumed == \A i \in DOMAIN handled : script[handled[i]].start < Base

\* handle_SPDY_GOAWAY was called before: going_away is set.
GoawaySeen ==
  \A i \in DOMAIN handled : script[handled[i]].type = "GOAWAY" => going_away

\* While no read holds more than one frame the buffer starts with a frame,
\* holds no more than that, and pos is 0.
OneFrame ==
  segments \in {"frames", "split"} =>
    /\ whole
    /\ pc \in {"read", "frame"} =>
         /\ Base = Total + 1 \/ \E k \in DOMAIN script : Base = script[k].start
         /\ \A k \in DOMAIN script : EndOf(k) - 1 \notin Base..(arrived - 1)
    /\ pc = "frame" => pos = 0 /\ ~going_away

FrameInv ==
  /\ HandledInOrder
  /\ Live /\ AtPos /\ Consumed
  /\ GoawaySeen /\ NoStreamAfterGoaway
  /\ OneFrame

-----------------------------------------------------------------------------
(* The stream. *)

\* The frames of a script, where they start and where they end.
LEMMA ScriptFacts ==
  ASSUME script \in Scripts
  PROVE  /\ script \in Seq(Frames) /\ Len(script) \in Nat /\ Len(script) >= 1
         /\ DOMAIN script = 1..Len(script)
         /\ Total \in Nat
         /\ \A k \in DOMAIN script :
              /\ k \in Nat /\ script[k] \in Frames /\ script[k].start \in Nat
              /\ Words(script[k].type) \in 3..6
              /\ EndOf(k) = script[k].start + Words(script[k].type)
              /\ EndOf(k) <= Total + 1
         /\ \A i, j \in DOMAIN script : i < j => EndOf(i) <= script[j].start
         /\ \A k \in DOMAIN script :
              EndOf(k) = Total + 1 \/ \E j \in DOMAIN script : EndOf(k) = script[j].start
<1>1. /\ script \in Seq(Frames) /\ Len(script) >= 1 /\ script[1].start = 1
      /\ \A i \in 1..(Len(script) - 1) :
           script[i + 1].start = script[i].start + Words(script[i].type)
  BY ScriptsAssumption
<1>2. Len(script) \in Nat /\ Len(script) >= 1 /\ DOMAIN script = 1..Len(script)
  BY <1>1
<1>3. ASSUME NEW k \in 1..Len(script)
      PROVE  /\ k \in Nat /\ script[k] \in Frames /\ script[k].start \in Nat
             /\ Words(script[k].type) \in 3..6
             /\ EndOf(k) = script[k].start + Words(script[k].type)
  <2>1. script[k] \in Frames
    BY <1>1
  <2> QED
    BY <2>1 DEF Frames, Words, EndOf
<1>4. Total \in Nat /\ Total + 1 = EndOf(Len(script))
  <2>1. Len(script) \in 1..Len(script)
    BY <1>1, <1>2
  <2>2. EndOf(Len(script)) \in Nat /\ EndOf(Len(script)) >= 1
    BY <1>3, <2>1
  <2> QED
    BY <2>2 DEF Total
<1>5. \A i, j \in 1..Len(script) : i < j => EndOf(i) <= script[j].start
  <2> DEFINE Q == {j \in 0..Len(script) :
                     \A i \in 1..Len(script) : i < j => EndOf(i) <= script[j].start}
  <2>1. 0 \in Q
    BY <1>2
  <2>2. ASSUME NEW j \in 1..Len(script), j - 1 \in Q PROVE j \in Q
    <3> SUFFICES ASSUME NEW i \in 1..Len(script), i < j
                 PROVE  EndOf(i) <= script[j].start
      BY <1>2
    <3>1. j - 1 \in 1..(Len(script) - 1) /\ j - 1 \in 1..Len(script) /\ (j - 1) + 1 = j
      BY <1>2
    <3>2. EndOf(j - 1) = script[j].start
      BY <1>1, <3>1 DEF EndOf
    <3>3. /\ EndOf(i) \in Int /\ script[j].start \in Int /\ script[j - 1].start \in Int
          /\ script[j - 1].start <= EndOf(j - 1)
      <4>1. /\ EndOf(i) = script[i].start + Words(script[i].type)
            /\ script[i].start \in Nat /\ Words(script[i].type) \in 3..6
        BY <1>3
      <4>2. /\ EndOf(j - 1) = script[j - 1].start + Words(script[j - 1].type)
            /\ script[j - 1].start \in Nat /\ Words(script[j - 1].type) \in 3..6
        BY <1>3, <3>1
      <4>3. script[j].start \in Nat
        BY <1>3
      <4> QED
        BY <4>1, <4>2, <4>3
    <3>4. CASE i = j - 1
      BY <3>2, <3>3, <3>4
    <3>5. CASE i < j - 1
      <4>1. EndOf(i) <= script[j - 1].start
        BY <2>2, <3>5
      <4> QED
        BY <3>2, <3>3, <4>1
    <3> QED
      BY <1>2, <3>4, <3>5
  <2> HIDE DEF Q
  <2>3. \A j \in 0..Len(script) : j \in Q
    BY <1>2, <2>1, <2>2, InductionTo
  <2> QED
    BY <1>2, <2>3 DEF Q
<1>6. ASSUME NEW k \in 1..Len(script)
      PROVE  /\ EndOf(k) <= Total + 1
             /\ EndOf(k) = Total + 1 \/ \E j \in 1..Len(script) : EndOf(k) = script[j].start
  <2>1. CASE k = Len(script)
    BY <1>3, <1>4, <2>1
  <2>2. CASE k < Len(script)
    <3>1. /\ k \in 1..(Len(script) - 1) /\ k + 1 \in 1..Len(script)
          /\ Len(script) \in 1..Len(script)
      BY <1>2, <2>2
    <3>2. EndOf(k) = script[k + 1].start
      BY <1>1, <3>1 DEF EndOf
    <3>4. EndOf(k) <= script[Len(script)].start
      BY <1>5, <3>1, <2>2
    <3>5. /\ script[Len(script)].start \in Nat
          /\ Words(script[Len(script)].type) \in 3..6
          /\ EndOf(Len(script))
               = script[Len(script)].start + Words(script[Len(script)].type)
      BY <1>3, <3>1
    <3>6. EndOf(k) \in Nat
      <4>1. /\ script[k].start \in Nat /\ Words(script[k].type) \in 3..6
            /\ EndOf(k) = script[k].start + Words(script[k].type)
        BY <1>3
      <4> QED
        BY <4>1
    <3>7. EndOf(k) <= Total + 1
      BY <1>4, <3>4, <3>5, <3>6
    <3> QED
      BY <3>1, <3>2, <3>7
  <2>3. k \in Nat /\ k <= Len(script)
    BY <1>2
  <2>4. \A m, n \in Nat : m <= n => m < n \/ m = n
    OBVIOUS
  <2>5. k < Len(script) \/ k = Len(script)
    BY <1>2, <2>3, <2>4, Zenon
  <2> QED
    BY <2>1, <2>2, <2>5, Zenon
<1> QED
  BY <1>1, <1>2, <1>3, <1>4, <1>5, <1>6

\* Frames that start earlier come earlier, and no two start at one word.
LEMMA StartOrder ==
  ASSUME script \in Scripts, NEW i \in DOMAIN script, NEW j \in DOMAIN script
  PROVE  /\ script[i].start < script[j].start => i < j
         /\ script[i].start = script[j].start => i = j
<1>1. /\ i \in Nat /\ j \in Nat /\ script[i].start \in Nat /\ script[j].start \in Nat
      /\ Words(script[i].type) \in 3..6 /\ Words(script[j].type) \in 3..6
      /\ EndOf(i) = script[i].start + Words(script[i].type)
      /\ EndOf(j) = script[j].start + Words(script[j].type)
  BY ScriptFacts
<1>2. /\ i < j => EndOf(i) <= script[j].start
      /\ j < i => EndOf(j) <= script[i].start
  BY ScriptFacts
<1> QED
  BY <1>1, <1>2

-----------------------------------------------------------------------------
(* The buffer. *)

\* What TypeOK says of the buffer.
BufferOK ==
  /\ arrived \in 0..Total
  /\ DOMAIN mem \subseteq 0..(Total - 1)
  /\ \A i \in DOMAIN mem : mem[i] \in 0..Total
  /\ len \in 0..arrived
  /\ pos \in Nat
  /\ pc \in {"read", "frame", "recycled", "exit"}

\* A frame leaves the stream as it is.
LEMMA SameScript ==
  ASSUME script' = script
  PROVE  Total' = Total /\ \A k : EndOf(k)' = EndOf(k)
BY DEF Total, EndOf

\* http2d_buffer_move_to_begin drops the words in front of p and keeps the
\* others in order; the cell at p then holds a word of the buffer or, unless
\* the copy reached it, still the word that is now the first.
LEMMA Moved ==
  ASSUME script \in Scripts, BufferOK, Live, AtPos, pc = "frame",
         NEW p \in Nat, MoveToBegin(p), pos' = p, UNCHANGED <<script, arrived>>
  PROVE  /\ BufferOK' /\ Live' /\ AtPos'
         /\ p < len  => Base' = Base + p /\ len' = len - p
         /\ p >= len => Base' = arrived + 1 /\ len' = 0 /\ pc' = "read"
         /\ Base' \in Int /\ Base \in Int /\ Base' >= Base
<1>1. /\ Total \in Nat /\ Total' = Total
      /\ arrived \in Nat /\ arrived <= Total /\ len \in Nat /\ len <= arrived /\ len > 2
  BY ScriptFacts, SameScript DEF BufferOK, AtPos
<1>2. CASE p >= len
  <2>1. /\ len' = 0 /\ mem' = mem /\ arrived' = arrived
        /\ pc' = "read"
    BY <1>2, <1>1 DEF MoveToBegin, HeadWords
  <2>2. Base' = arrived + 1 /\ Base \in Int /\ Base' >= Base
    BY <1>1, <2>1 DEF Base
  <2>3. BufferOK'
    BY <1>1, <2>1 DEF BufferOK
  <2>4. Live' /\ AtPos'
    BY <2>1 DEF Live, AtPos
  <2> QED
    BY <1>1, <1>2, <2>1, <2>2, <2>3, <2>4
<1>3. CASE p < len
  <2>1. /\ len' = len - p /\ arrived' = arrived
        /\ mem' = [i \in DOMAIN mem |-> IF i < len - p THEN mem[i + p] ELSE mem[i]]
        /\ pc' = IF len' > 2 THEN "frame" ELSE "read"
    BY <1>3, <1>1 DEF MoveToBegin, HeadWords
  <2>2. Base' = Base + p /\ Base \in Int /\ Base' >= Base
    BY <1>1, <2>1 DEF Base
  <2>3. \A i \in 0..(len - 1) : i \in DOMAIN mem /\ mem[i] = Base + i
    BY DEF Live
  <2>4. \A i \in DOMAIN mem : i \in 0..(Total - 1) /\ mem[i] \in 0..Total
    BY DEF BufferOK
  <2>5. DOMAIN mem' = DOMAIN mem
    BY <2>1
  <2>6. ASSUME NEW i \in DOMAIN mem
        PROVE  /\ i < len - p => mem'[i] = Base' + i
               /\ i >= len - p => mem'[i] = mem[i]
               /\ mem'[i] \in 0..Total
    <3>1. i \in Nat
      BY <2>4, <1>1
    <3>2. CASE i < len - p
      <4>1. i + p \in 0..(len - 1)
        BY <1>1, <3>1, <3>2
      <4>2. i + p \in DOMAIN mem /\ mem[i + p] = Base + (i + p)
        BY <2>3, <4>1
      <4>3. mem'[i] = mem[i + p]
        BY <2>1, <3>2
      <4>4. mem[i + p] \in 0..Total
        BY <2>4, <4>2
      <4>5. Base + (i + p) = Base' + i
        BY <2>2, <3>1
      <4> QED
        BY <1>1, <3>1, <3>2, <4>2, <4>3, <4>4, <4>5
    <3>3. CASE ~(i < len - p)
      <4>1. mem'[i] = mem[i]
        BY <2>1, <3>3
      <4> QED
        BY <2>4, <3>3, <4>1
    <3> QED
      BY <3>2, <3>3
  <2>7. BufferOK'
    <3>1. len' \in 0..arrived'
      BY <1>1, <1>3, <2>1
    <3>2. pc' \in {"read", "frame", "recycled", "exit"}
      BY <2>1
    <3>3. DOMAIN mem' \subseteq 0..(Total' - 1) /\ \A i \in DOMAIN mem' : mem'[i] \in 0..Total'
      BY <1>1, <2>4, <2>5, <2>6
    <3> QED
      BY <1>1, <2>1, <3>1, <3>2, <3>3 DEF BufferOK
  <2>8. Live'
    <3>1. ASSUME NEW i \in 0..(len' - 1)
          PROVE  i \in DOMAIN mem' /\ mem'[i] = Base' + i
      <4>1. i \in 0..(len - 1) /\ i < len - p
        BY <1>1, <1>3, <2>1
      <4>2. i \in DOMAIN mem
        BY <2>3, <4>1
      <4> QED
        BY <2>5, <2>6, <4>1, <4>2
    <3> QED
      BY <3>1 DEF Live
  <2>9. AtPos'
    <3>1. p \in 0..(len - 1)
      BY <1>1, <1>3
    <3>2. p \in DOMAIN mem /\ mem[p] = Base + p
      BY <2>3, <3>1
    <3>3. Cell(pos)' = mem'[p]
      BY <2>5, <3>2 DEF Cell
    <3>4. mem'[p] = IF p < len - p THEN Base' + p ELSE Base'
      BY <1>1, <2>2, <2>6, <3>2
    <3> QED
      BY <1>1, <1>3, <2>1, <3>3, <3>4 DEF AtPos
  <2> QED
    BY <1>1, <1>3, <2>1, <2>2, <2>7, <2>8, <2>9
<1> QED
  BY <1>1, <1>2, <1>3

\* A frame whose header the loop finds is not consumed yet.
LEMMA Found ==
  ASSUME script \in Scripts, BufferOK, AtPos, pc = "frame", NEW k \in HeaderAt(pos)
  PROVE  /\ k \in DOMAIN script
         /\ script[k].start = IF pos < len THEN Base + pos ELSE Base
         /\ script[k].start >= Base /\ script[k].start <= arrived
         /\ Base \in Int /\ Base <= arrived /\ len > 2
<1>1. k \in DOMAIN script /\ script[k].start = Cell(pos)
  BY DEF HeaderAt
<1>2. Cell(pos) = (IF pos < len THEN Base + pos ELSE Base) /\ len > 2
  BY DEF AtPos
<1>3. arrived \in Nat /\ len \in Nat /\ len <= arrived /\ pos \in Nat
  <2>1. Total \in Nat
    BY ScriptFacts
  <2> QED
    BY <2>1 DEF BufferOK
<1> QED
  BY <1>1, <1>2, <1>3 DEF Base

\* Typing as the buffer's part and the rest.
LEMMA Typing ==
  TypeOK <=> /\ script \in Scripts /\ segments \in Segments
             /\ BufferOK
             /\ going_away \in BOOLEAN /\ in_sync \in BOOLEAN /\ whole \in BOOLEAN
             /\ handled \in Seq(DOMAIN script)
BY DEF TypeOK, BufferOK

-----------------------------------------------------------------------------
(* A frame that is taken. *)

\* What every handler does to the history: the frame comes behind the ones that
\* were handled before.
LEMMA HistoryGrows ==
  ASSUME FrameInv, pc = "frame", NEW k \in HeaderAt(pos), UNCHANGED script,
         handled' = Append(handled, k),
         Base' \in Int, Base' >= Base, script[k].start < Base',
         going_away \in BOOLEAN, going_away => going_away',
         script[k].type = "SYN_STREAM" => ~going_away,
         script[k].type = "GOAWAY" => going_away'
  PROVE  /\ handled' \in Seq(DOMAIN script')
         /\ \A i, j \in DOMAIN handled' : i < j => handled'[i] < handled'[j]
         /\ Consumed' /\ GoawaySeen' /\ NoStreamAfterGoaway'
<1>1. /\ TypeOK /\ AtPos /\ Consumed /\ GoawaySeen /\ NoStreamAfterGoaway
      /\ \A i, j \in DOMAIN handled : i < j => handled[i] < handled[j]
  BY DEF FrameInv, HandledInOrder
<1>2. script \in Scripts /\ BufferOK /\ handled \in Seq(DOMAIN script)
  BY <1>1, Typing
<1>3. /\ k \in DOMAIN script /\ script[k].start >= Base /\ Base \in Int
  BY <1>1, <1>2, Found
<1>4. /\ handled' \in Seq(DOMAIN script) /\ Len(handled) \in Nat
      /\ DOMAIN handled = 1..Len(handled) /\ DOMAIN handled' = 1..(Len(handled) + 1)
      /\ \A i \in 1..Len(handled) : handled'[i] = handled[i]
      /\ handled'[Len(handled) + 1] = k
  BY <1>2, <1>3
<1>5. \A i \in 1..Len(handled) :
        /\ handled[i] \in DOMAIN script
        /\ script[handled[i]].start \in Int /\ script[handled[i]].start < Base
  <2> SUFFICES ASSUME NEW i \in 1..Len(handled)
               PROVE  /\ handled[i] \in DOMAIN script
                      /\ script[handled[i]].start \in Int
                      /\ script[handled[i]].start < Base
    OBVIOUS
  <2>1. handled[i] \in DOMAIN script
    BY <1>2, <1>4
  <2>2. script[handled[i]].start \in Nat
    BY <1>2, <2>1, ScriptFacts
  <2> QED
    BY <1>1, <1>4, <2>1, <2>2 DEF Consumed
<1>6. script[k].start \in Int
  BY <1>2, <1>3, ScriptFacts
<1>7. \A i \in 1..Len(handled) : handled[i] < k
  <2> SUFFICES ASSUME NEW i \in 1..Len(handled)
               PROVE  handled[i] < k
    OBVIOUS
  <2>1. script[handled[i]].start < script[k].start
    BY <1>3, <1>5, <1>6
  <2> QED
    BY <1>2, <1>3, <1>5, <2>1, StartOrder
<1>8. \A i, j \in DOMAIN handled' : i < j => handled'[i] < handled'[j]
  <2> SUFFICES ASSUME NEW i \in DOMAIN handled', NEW j \in DOMAIN handled', i < j
               PROVE  handled'[i] < handled'[j]
    OBVIOUS
  <2>1. i \in 1..Len(handled)
    BY <1>4
  <2>2. CASE j \in 1..Len(handled)
    BY <1>1, <1>4, <2>1, <2>2
  <2>3. CASE j = Len(handled) + 1
    BY <1>4, <1>7, <2>1, <2>3
  <2> QED
    BY <1>4, <2>2, <2>3
<1>9. Consumed'
  <2>1. ASSUME NEW i \in DOMAIN handled'
        PROVE  script[handled'[i]].start < Base'
    <3>1. CASE i \in 1..Len(handled)
      BY <1>3, <1>4, <1>5, <3>1
    <3>2. CASE i = Len(handled) + 1
      BY <1>4, <3>2
    <3> QED
      BY <1>4, <3>1, <3>2
  <2> QED
    BY <2>1 DEF Consumed
<1>10. GoawaySeen'
  <2>1. ASSUME NEW i \in DOMAIN handled', script[handled'[i]].type = "GOAWAY"
        PROVE  going_away'
    <3>1. CASE i \in 1..Len(handled)
      BY <1>1, <1>4, <2>1, <3>1 DEF GoawaySeen
    <3>2. CASE i = Len(handled) + 1
      BY <1>4, <2>1, <3>2
    <3> QED
      BY <1>4, <3>1, <3>2
  <2> QED
    BY <2>1 DEF GoawaySeen
<1>11. NoStreamAfterGoaway'
  <2>1. ASSUME NEW i \in DOMAIN handled', NEW j \in DOMAIN handled', i < j,
               script[handled'[i]].type = "GOAWAY"
        PROVE  script[handled'[j]].type # "SYN_STREAM"
    <3>1. i \in 1..Len(handled) /\ handled'[i] = handled[i]
      BY <1>4, <2>1
    <3>2. CASE j \in 1..Len(handled)
      BY <1>1, <1>4, <2>1, <3>1, <3>2 DEF NoStreamAfterGoaway
    <3>3. CASE j = Len(handled) + 1
      BY <1>1, <1>4, <2>1, <3>1, <3>3 DEF GoawaySeen
    <3> QED
      BY <1>4, <3>2, <3>3
  <2> QED
    BY <2>1 DEF NoStreamAfterGoaway
<1> QED
  BY <1>4, <1>8, <1>9, <1>10, <1>11

\* A buffer that holds one frame, which is complete, is consumed with it.
LEMMA OneFrameTaken ==
  ASSUME FrameInv, segments \in {"frames", "split"}, pc = "frame",
         NEW k \in HeaderAt(pos), ~Incomplete(k)
  PROVE  /\ pos = 0 /\ Words(script[k].type) = len
         /\ EndOf(k) = arrived + 1
<1>1. /\ TypeOK /\ AtPos /\ pos = 0
      /\ \A j \in DOMAIN script : EndOf(j) - 1 \notin Base..(arrived - 1)
  BY DEF FrameInv, HandledInOrder, OneFrame
<1>2. script \in Scripts /\ BufferOK
  BY <1>1, Typing
<1>3. /\ k \in DOMAIN script /\ script[k].start = Base /\ Base \in Int
      /\ len > 2
  BY <1>1, <1>2, Found
<1>4. /\ Words(script[k].type) \in 3..6 /\ EndOf(k) = Base + Words(script[k].type)
  BY <1>2, <1>3, ScriptFacts
<1>5. arrived \in Nat /\ len \in Nat
  <2>1. Total \in Nat
    BY <1>2, ScriptFacts
  <2> QED
    BY <1>2, <2>1 DEF BufferOK
<1>6. Words(script[k].type) <= len
  <2>1. ~(Words(script[k].type) - 2 > (len - 2) % 1073741824)
    BY <1>1, <1>5 DEF Incomplete, Unsigned, HeadWords
  <2>2. (len - 2) % 1073741824 <= len - 2
    BY <1>3, <1>5
  <2>3. (len - 2) % 1073741824 \in Int
    BY <1>3, <1>5
  <2> QED
    BY <1>4, <1>5, <2>1, <2>2, <2>3
<1>7. EndOf(k) - 1 \notin Base..(arrived - 1)
  BY <1>1, <1>3
<1> QED
  BY <1>1, <1>3, <1>4, <1>5, <1>6, <1>7 DEF Base

\* A handler that takes its frame keeps the invariant.
LEMMA TakesFrame ==
  ASSUME FrameInv, pc = "frame", NEW k \in HeaderAt(pos), ~Incomplete(k), Handled(k),
         UNCHANGED <<script, segments, arrived>>,
         going_away' \in BOOLEAN, in_sync' \in BOOLEAN, going_away => going_away',
         script[k].type = "SYN_STREAM" => ~going_away,
         script[k].type = "GOAWAY" => going_away'
  PROVE  FrameInv'
<1>1. /\ TypeOK /\ Live /\ AtPos /\ OneFrame
  BY DEF FrameInv, HandledInOrder
<1>2. /\ script \in Scripts /\ segments \in Segments /\ BufferOK
      /\ going_away \in BOOLEAN /\ whole \in BOOLEAN
  BY <1>1, Typing
<1>3. /\ k \in DOMAIN script /\ script[k].start >= Base /\ script[k].start <= arrived
      /\ Base \in Int /\ script[k].start = IF pos < len THEN Base + pos ELSE Base
  BY <1>1, <1>2, Found
<1>4. /\ Words(script[k].type) \in 3..6 /\ script[k].start \in Nat
  BY <1>2, <1>3, ScriptFacts
<1>5. /\ pos \in Nat /\ len \in Nat /\ arrived \in Nat
      /\ pos + Words(script[k].type) \in Nat
  <2>1. Total \in Nat
    BY <1>2, ScriptFacts
  <2> QED
    BY <1>2, <1>4, <2>1 DEF BufferOK
<1>6. /\ handled' = Append(handled, k)
      /\ whole' = (whole /\ pos + Words(script[k].type) <= len)
      /\ pos' = pos + Words(script[k].type)
      /\ MoveToBegin(pos + Words(script[k].type))
  BY DEF Handled
<1>7. /\ BufferOK' /\ Live' /\ AtPos'
      /\ pos + Words(script[k].type) < len => Base' = Base + (pos + Words(script[k].type))
      /\ pos + Words(script[k].type) >= len =>
           Base' = arrived + 1 /\ len' = 0 /\ pc' = "read"
      /\ Base' \in Int /\ Base' >= Base
  <2> DEFINE p == pos + Words(script[k].type)
  <2>1. p \in Nat /\ MoveToBegin(p) /\ pos' = p
    BY <1>5, <1>6
  <2> HIDE DEF p
  <2>2. /\ BufferOK' /\ Live' /\ AtPos'
        /\ p < len => Base' = Base + p /\ len' = len - p
        /\ p >= len => Base' = arrived + 1 /\ len' = 0 /\ pc' = "read"
        /\ Base' \in Int /\ Base \in Int /\ Base' >= Base
    BY <1>1, <1>2, <2>1, Moved
  <2> QED
    BY <2>2 DEF p
<1>8. script[k].start < Base'
  BY <1>3, <1>4, <1>5, <1>7
<1>9. /\ handled' \in Seq(DOMAIN script')
      /\ \A i, j \in DOMAIN handled' : i < j => handled'[i] < handled'[j]
      /\ Consumed' /\ GoawaySeen' /\ NoStreamAfterGoaway'
  BY <1>2, <1>6, <1>7, <1>8, HistoryGrows
<1>10. whole' \in BOOLEAN
  BY <1>6, Zenon
<1>11. TypeOK'
  BY <1>2, <1>7, <1>9, <1>10 DEF TypeOK, BufferOK
<1>12. OneFrame'
  <2> SUFFICES ASSUME segments \in {"frames", "split"}
               PROVE  OneFrame'
    BY DEF OneFrame
  <2>1. /\ pos = 0 /\ Words(script[k].type) = len /\ EndOf(k) = arrived + 1
    BY OneFrameTaken
  <2>2. whole /\ pos + Words(script[k].type) <= len /\ pos + Words(script[k].type) >= len
    BY <1>1, <1>5, <2>1 DEF OneFrame
  <2>3. whole' /\ pc' = "read" /\ Base' = EndOf(k) /\ Base' = arrived + 1
    BY <1>6, <1>7, <2>1, <2>2
  <2>4. EndOf(k) = Total + 1 \/ \E j \in DOMAIN script : EndOf(k) = script[j].start
    BY <1>2, <1>3, ScriptFacts
  <2>5. Base' = Total' + 1 \/ \E j \in DOMAIN script' : Base' = script'[j].start
    BY <2>3, <2>4, SameScript
  <2>6. \A j \in DOMAIN script' : EndOf(j)' - 1 \notin Base'..(arrived' - 1)
    BY <1>5, <2>3
  <2> QED
    BY <2>3, <2>5, <2>6 DEF OneFrame
<1> QED
  BY <1>7, <1>9, <1>11, <1>12 DEF FrameInv, HandledInOrder

-----------------------------------------------------------------------------
(* The other steps. *)

\* What keeps the history keeps what is said of it.
LEMMA SameHistory ==
  ASSUME FrameInv, UNCHANGED <<script, handled, going_away>>, Base' \in Int, Base \in Int,
         Base' >= Base
  PROVE  /\ handled' \in Seq(DOMAIN script')
         /\ \A i, j \in DOMAIN handled' : i < j => handled'[i] < handled'[j]
         /\ Consumed' /\ GoawaySeen' /\ NoStreamAfterGoaway'
<1>1. /\ TypeOK /\ Consumed /\ GoawaySeen /\ NoStreamAfterGoaway
      /\ \A i, j \in DOMAIN handled : i < j => handled[i] < handled[j]
  BY DEF FrameInv, HandledInOrder
<1>2. script \in Scripts /\ handled \in Seq(DOMAIN script)
  BY <1>1, Typing
<1>3. ASSUME NEW i \in DOMAIN handled
      PROVE  script[handled[i]].start < Base'
  <2>1. handled[i] \in DOMAIN script
    BY <1>2
  <2>2. script[handled[i]].start \in Nat
    BY <1>2, <2>1, ScriptFacts
  <2>3. script[handled[i]].start < Base
    BY <1>1 DEF Consumed
  <2> QED
    BY <2>2, <2>3
<1>4. Consumed'
  BY <1>3 DEF Consumed
<1>5. GoawaySeen' /\ NoStreamAfterGoaway'
  BY <1>1 DEF GoawaySeen, NoStreamAfterGoaway
<1> QED
  BY <1>1, <1>2, <1>4, <1>5

\* An incomplete frame: the buffer is moved to pos, which is not reset.
LEMMA Incompletes == FrameInv /\ FrameIncomplete => FrameInv'
<1> SUFFICES ASSUME FrameInv, FrameIncomplete
             PROVE  FrameInv'
  OBVIOUS
<1>1. TypeOK /\ Live /\ AtPos /\ OneFrame
  BY DEF FrameInv, HandledInOrder
<1>2. /\ script \in Scripts /\ segments \in Segments /\ BufferOK
      /\ going_away \in BOOLEAN /\ in_sync \in BOOLEAN /\ whole \in BOOLEAN
  BY <1>1, Typing
<1>3. /\ pc = "frame" /\ MoveToBegin(pos) /\ pos' = pos
      /\ UNCHANGED <<script, segments, arrived, going_away, in_sync, handled, whole>>
  BY DEF FrameIncomplete
<1>4. pos \in Nat /\ len > 2 /\ Total' = Total
  BY <1>1, <1>2, <1>3, SameScript DEF BufferOK, AtPos
<1>5. /\ BufferOK' /\ Live' /\ AtPos'
      /\ pos < len => Base' = Base + pos /\ len' = len - pos
      /\ Base' \in Int /\ Base \in Int /\ Base' >= Base
  BY <1>1, <1>2, <1>3, <1>4, Moved
<1>6. /\ handled' \in Seq(DOMAIN script')
      /\ \A i, j \in DOMAIN handled' : i < j => handled'[i] < handled'[j]
      /\ Consumed' /\ GoawaySeen' /\ NoStreamAfterGoaway'
  BY <1>3, <1>5, SameHistory
<1>7. TypeOK'
  BY <1>2, <1>3, <1>5, <1>6 DEF TypeOK, BufferOK
<1>8. OneFrame'
  <2> SUFFICES ASSUME segments \in {"frames", "split"}
               PROVE  OneFrame'
    BY <1>3 DEF OneFrame
  <2>1. /\ whole /\ pos = 0 /\ ~going_away
        /\ Base = Total + 1 \/ \E k \in DOMAIN script : Base = script[k].start
        /\ \A k \in DOMAIN script : EndOf(k) - 1 \notin Base..(arrived - 1)
    BY <1>1, <1>3 DEF OneFrame
  <2>2. pos < len /\ Base + pos = Base
    <3>1. Total \in Nat
      BY <1>2, ScriptFacts
    <3> QED
      BY <1>2, <1>4, <1>5, <2>1, <3>1 DEF BufferOK
  <2>3. Base' = Base
    BY <1>5, <2>2
  <2> QED
    BY <1>3, <1>4, <2>1, <2>3 DEF OneFrame, EndOf
<1> QED
  BY <1>5, <1>6, <1>7, <1>8 DEF FrameInv, HandledInOrder

\* A SYN_STREAM behind a GOAWAY: only its header is skipped.
LEMMA Ignores == ASSUME FrameInv, NEW k, SynIgnored(k) PROVE FrameInv'
<1>1. TypeOK /\ Live /\ AtPos /\ OneFrame
  BY DEF FrameInv, HandledInOrder
<1>2. /\ script \in Scripts /\ segments \in Segments /\ BufferOK
      /\ going_away \in BOOLEAN /\ in_sync \in BOOLEAN /\ whole \in BOOLEAN
  BY <1>1, Typing
<1>3. /\ pc = "frame" /\ pos' = pos + 2 /\ MoveToBegin(pos + 2) /\ going_away
      /\ UNCHANGED <<script, segments, arrived, going_away, in_sync, handled, whole>>
  BY DEF SynIgnored, Dispatched, HeadWords
<1>4. pos + 2 \in Nat
  BY <1>2 DEF BufferOK
<1>5. /\ BufferOK' /\ Live' /\ AtPos'
      /\ Base' \in Int /\ Base \in Int /\ Base' >= Base
  BY <1>1, <1>2, <1>3, <1>4, Moved
<1>6. /\ handled' \in Seq(DOMAIN script')
      /\ \A i, j \in DOMAIN handled' : i < j => handled'[i] < handled'[j]
      /\ Consumed' /\ GoawaySeen' /\ NoStreamAfterGoaway'
  BY <1>3, <1>5, SameHistory
<1>7. TypeOK'
  BY <1>2, <1>3, <1>5, <1>6 DEF TypeOK, BufferOK
<1>8. OneFrame'
  BY <1>1, <1>3 DEF OneFrame
<1> QED
  BY <1>5, <1>6, <1>7, <1>8 DEF FrameInv, HandledInOrder

\* A step after which no frame of this connection is read any more.
LEMMA Failures ==
  ASSUME FrameInv, NEW how \in {"recycled", "exit"}, Fails(how)
  PROVE  FrameInv'
<1>1. /\ pc' = how /\ pc' \notin {"read", "frame"}
      /\ UNCHANGED <<script, segments, arrived, mem, len, pos, going_away, in_sync,
                     handled, whole>>
  BY DEF Fails
<1>2. /\ TypeOK' /\ \A i, j \in DOMAIN handled' : i < j => handled'[i] < handled'[j]
  BY <1>1 DEF FrameInv, HandledInOrder, TypeOK, Total, EndOf
<1>3. Live' /\ AtPos' /\ Consumed'
  BY <1>1 DEF FrameInv, Live, AtPos, Consumed, Base
<1>4. GoawaySeen' /\ NoStreamAfterGoaway' /\ OneFrame'
  BY <1>1 DEF FrameInv, GoawaySeen, NoStreamAfterGoaway, OneFrame
<1> QED
  BY <1>2, <1>3, <1>4 DEF FrameInv, HandledInOrder

\* A read puts its words behind the ones that are there.
LEMMA Reads == ASSUME FrameInv, NEW n, Read(n) PROVE FrameInv'
<1>1. TypeOK /\ Live /\ AtPos /\ OneFrame
  BY DEF FrameInv, HandledInOrder
<1>2. /\ script \in Scripts /\ segments \in Segments /\ BufferOK
      /\ going_away \in BOOLEAN /\ in_sync \in BOOLEAN /\ whole \in BOOLEAN
  BY <1>1, Typing
<1>3. /\ pc = "read" /\ ~going_away /\ arrived' = arrived + n /\ len' = len + n
      /\ mem' = [i \in 0..(len + n - 1) \cup DOMAIN mem |->
                   IF i \in len..(len + n - 1) THEN arrived + 1 + i - len ELSE mem[i]]
      /\ pos' = 0 /\ pc' = IF len' < 3 THEN "read" ELSE "frame"
      /\ UNCHANGED <<script, segments, going_away, in_sync, handled, whole>>
      /\ n \in 1..(Total - arrived)
      /\ segments \in {"pipelined", "any"} \/ ~\E m \in BodyLeft : m \in 1..(n - 1)
  BY DEF Read, Deliverable
<1>4. /\ Total \in Nat /\ Total' = Total
      /\ arrived \in Nat /\ arrived <= Total /\ len \in Nat /\ len <= arrived /\ len <= 2
      /\ n \in Nat /\ n >= 1 /\ arrived + n <= Total
  <2>1. Total \in Nat /\ Total' = Total
    BY <1>2, <1>3, ScriptFacts, SameScript
  <2>2. arrived \in Nat /\ arrived <= Total /\ len \in Nat /\ len <= arrived /\ len <= 2
    BY <1>1, <1>2, <1>3, <2>1 DEF BufferOK, AtPos
  <2> QED
    BY <1>3, <2>1, <2>2
<1>5. Base \in Int /\ Base' = Base
  BY <1>3, <1>4 DEF Base
<1>6. Live'
  <2>1. ASSUME NEW i \in 0..(len' - 1)
        PROVE  i \in DOMAIN mem' /\ mem'[i] = Base + i
    <3>1. i \in 0..(len + n - 1) /\ i \in Nat
      BY <1>3, <1>4
    <3>2. CASE i \in len..(len + n - 1)
      BY <1>3, <1>4, <3>1, <3>2 DEF Base
    <3>3. CASE i \in 0..(len - 1)
      <4>1. i \in DOMAIN mem /\ mem[i] = Base + i
        BY <1>1, <3>3 DEF Live
      <4>2. i \notin len..(len + n - 1)
        BY <1>4, <3>3
      <4> QED
        BY <1>3, <3>1, <4>1, <4>2
    <3> QED
      BY <1>4, <3>1, <3>2, <3>3
  <2> QED
    BY <1>5, <2>1 DEF Live
<1>7. AtPos'
  <2>1. len' \in Nat /\ (pc' = "frame" <=> len' > 2) /\ (pc' = "read" <=> len' <= 2)
    BY <1>3, <1>4
  <2>2. len' > 2 => Cell(pos)' = Base'
    <3> SUFFICES ASSUME len' > 2
                 PROVE  Cell(pos)' = Base'
      OBVIOUS
    <3>1. 0 \in 0..(len' - 1)
      BY <1>3, <1>4
    <3>2. 0 \in DOMAIN mem' /\ mem'[0] = Base' + 0
      BY <1>6, <3>1 DEF Live
    <3> QED
      BY <1>3, <1>5, <3>2 DEF Cell
  <2> QED
    BY <1>3, <1>5, <2>1, <2>2 DEF AtPos
<1>8. BufferOK'
  <2>1. /\ DOMAIN mem \subseteq 0..(Total - 1)
        /\ \A i \in DOMAIN mem : mem[i] \in 0..Total
    BY <1>2 DEF BufferOK
  <2>2. DOMAIN mem' = 0..(len + n - 1) \cup DOMAIN mem
    BY <1>3
  <2>3. 0..(len + n - 1) \subseteq 0..(Total - 1)
    BY <1>4
  <2>4. ASSUME NEW i \in DOMAIN mem'
        PROVE  mem'[i] \in 0..Total
    <3>1. CASE i \in len..(len + n - 1)
      <4>1. mem'[i] = arrived + 1 + i - len
        BY <1>3, <2>2, <3>1
      <4> QED
        BY <1>4, <3>1, <4>1
    <3>2. CASE i \notin len..(len + n - 1)
      <4>1. mem'[i] = mem[i]
        BY <1>3, <2>2, <3>2
      <4>2. i \in DOMAIN mem
        <5>1. CASE i \in 0..(len + n - 1)
          <6>1. i \in 0..(len - 1)
            BY <1>4, <3>2, <5>1
          <6> QED
            BY <1>1, <6>1 DEF Live
        <5> QED
          BY <2>2, <5>1
      <4> QED
        BY <2>1, <4>1, <4>2
    <3> QED
      BY <3>1, <3>2
  <2>5. DOMAIN mem' \subseteq 0..(Total' - 1) /\ \A i \in DOMAIN mem' : mem'[i] \in 0..Total'
    BY <1>4, <2>1, <2>2, <2>3, <2>4
  <2>6. len' \in 0..arrived' /\ arrived' \in 0..Total' /\ pos' \in Nat
    BY <1>3, <1>4
  <2>7. pc' \in {"read", "frame", "recycled", "exit"}
    BY <1>3
  <2> QED
    BY <2>5, <2>6, <2>7 DEF BufferOK
<1>9. /\ handled' \in Seq(DOMAIN script')
      /\ \A i, j \in DOMAIN handled' : i < j => handled'[i] < handled'[j]
      /\ Consumed' /\ GoawaySeen' /\ NoStreamAfterGoaway'
  BY <1>3, <1>5, SameHistory
<1>10. TypeOK'
  BY <1>2, <1>3, <1>8, <1>9 DEF TypeOK, BufferOK
<1>11. OneFrame'
  <2> SUFFICES ASSUME segments \in {"frames", "split"}
               PROVE  OneFrame'
    BY <1>3 DEF OneFrame
  <2>1. /\ whole
        /\ Base = Total + 1 \/ \E k \in DOMAIN script : Base = script[k].start
        /\ \A k \in DOMAIN script : EndOf(k) - 1 \notin Base..(arrived - 1)
    BY <1>1, <1>3 DEF OneFrame
  <2>2. ASSUME NEW k \in DOMAIN script, EndOf(k) = arrived + 1
        PROVE  len = 0
    <3> SUFFICES ASSUME len # 0
                 PROVE  FALSE
      OBVIOUS
    <3>1. PICK j \in DOMAIN script : Base = script[j].start
      BY <1>4, <2>1 DEF Base
    <3>2. /\ script[k].start \in Nat /\ Words(script[k].type) \in 3..6
          /\ EndOf(k) = script[k].start + Words(script[k].type)
      BY <1>2, ScriptFacts
    <3>3. script[k].start < script[j].start /\ EndOf(k) > script[j].start
      BY <1>4, <2>2, <3>1, <3>2 DEF Base
    <3>4. k < j
      BY <1>2, <3>3, StartOrder
    <3>5. EndOf(k) <= script[j].start
      BY <1>2, <3>4, ScriptFacts
    <3> QED
      BY <1>5, <3>1, <3>2, <3>3, <3>5
  <2>3. ASSUME NEW k \in DOMAIN script
        PROVE  EndOf(k) - 1 \notin Base..(arrived + n - 1)
    <3>1. EndOf(k) \in Nat
      <4>1. /\ script[k].start \in Nat /\ Words(script[k].type) \in 3..6
            /\ EndOf(k) = script[k].start + Words(script[k].type)
        BY <1>2, ScriptFacts
      <4> QED
        BY <4>1
    <3>2. EndOf(k) - 1 - arrived \notin 1..(n - 1)
      BY <1>3 DEF BodyLeft
    <3>3. EndOf(k) - 1 \notin Base..(arrived - 1)
      BY <2>1
    <3>4. EndOf(k) = arrived + 1 => len = 0
      BY <2>2
    <3> QED
      BY <1>4, <1>5, <3>1, <3>2, <3>3, <3>4 DEF Base
  <2> QED
    BY <1>3, <1>4, <1>5, <2>1, <2>3 DEF OneFrame, EndOf
<1> QED
  BY <1>6, <1>7, <1>9, <1>10, <1>11 DEF FrameInv, HandledInOrder

-----------------------------------------------------------------------------
(* The theorems. *)

\* The empty buffer of a new connection.
LEMMA Starts == Init => FrameInv
<1> SUFFICES ASSUME Init
             PROVE  FrameInv
  OBVIOUS
<1>1. /\ script \in Scripts /\ segments \in Segments /\ arrived = 0 /\ mem = <<>> /\ len = 0
      /\ pos = 0 /\ pc = "read" /\ going_away = FALSE /\ in_sync = TRUE
      /\ handled = <<>> /\ whole = TRUE
  BY DEF Init
<1>2. /\ Total \in Nat /\ DOMAIN mem = {} /\ DOMAIN handled = {}
      /\ handled \in Seq(DOMAIN script)
  BY <1>1, ScriptFacts
<1>3. TypeOK
  <2>1. BufferOK
    BY <1>1, <1>2 DEF BufferOK
  <2> QED
    BY <1>1, <1>2, <2>1, Typing
<1>4. Base = 1 /\ Live /\ AtPos
  <2>1. Base = 1 /\ AtPos
    BY <1>1 DEF Base, AtPos
  <2>2. 0..(len - 1) = {}
    BY <1>1
  <2> QED
    BY <2>1, <2>2 DEF Live
<1>5. Consumed /\ GoawaySeen /\ NoStreamAfterGoaway
  BY <1>2 DEF Consumed, GoawaySeen, NoStreamAfterGoaway
<1>6. OneFrame
  <2>1. script[1].start = 1 /\ 1 \in DOMAIN script
    <3>1. script[1].start = 1
      BY <1>1, ScriptsAssumption
    <3>2. DOMAIN script = 1..Len(script) /\ Len(script) \in Nat /\ Len(script) >= 1
      BY <1>1, ScriptFacts
    <3> QED
      BY <3>1, <3>2
  <2>2. Base..(arrived - 1) = {}
    BY <1>1, <1>4
  <2> QED
    BY <1>1, <1>4, <2>1, <2>2 DEF OneFrame
<1> QED
  BY <1>2, <1>3, <1>4, <1>5, <1>6 DEF FrameInv, HandledInOrder

\* Whatever the peer sends and however it is cut into reads: the frames that
\* spdy_process_buffer dispatches, what is left in the buffer, and where the
\* loop looks for the next header.
THEOREM Invariance == SafetySpec => []FrameInv
<1>1. Init => FrameInv
  BY Starts
<1>2. FrameInv /\ [Next]_vars => FrameInv'
  <2> SUFFICES ASSUME FrameInv, [Next]_vars
               PROVE  FrameInv'
    OBVIOUS
  <2>1. ASSUME NEW n \in 1..Total, Read(n)
        PROVE  FrameInv'
    BY <2>1, Reads
  <2>2. CASE FrameIncomplete
    BY <2>2, Incompletes
  <2>3. CASE NotAHeader
    BY <2>3, Failures DEF NotAHeader
  <2>4. ASSUME NEW k \in DOMAIN script, handle_SPDY_RST_STREAM(k)
        PROVE  FrameInv'
    <3>1. /\ pc = "frame" /\ k \in HeaderAt(pos) /\ ~Incomplete(k) /\ Handled(k)
          /\ script[k].type = "RST_STREAM"
          /\ UNCHANGED <<script, segments, arrived, going_away, in_sync>>
      BY <2>4 DEF handle_SPDY_RST_STREAM, Dispatched
    <3>2. going_away' \in BOOLEAN /\ in_sync' \in BOOLEAN
      BY <3>1 DEF FrameInv, HandledInOrder, TypeOK
    <3> QED
      BY <3>1, <3>2, TakesFrame
  <2>5. ASSUME NEW k \in DOMAIN script, handle_SPDY_GOAWAY(k)
        PROVE  FrameInv'
    <3>1. /\ pc = "frame" /\ k \in HeaderAt(pos) /\ ~Incomplete(k) /\ Handled(k)
          /\ script[k].type = "GOAWAY" /\ going_away' = TRUE
          /\ UNCHANGED <<script, segments, arrived, in_sync>>
      BY <2>5 DEF handle_SPDY_GOAWAY, Dispatched
    <3>2. in_sync' \in BOOLEAN
      BY <3>1 DEF FrameInv, HandledInOrder, TypeOK
    <3> QED
      BY <3>1, <3>2, TakesFrame
  <2>6. ASSUME NEW k \in DOMAIN script, handle_SPDY_SYN_STREAM(k)
        PROVE  FrameInv'
    <3>1. /\ pc = "frame" /\ k \in HeaderAt(pos) /\ ~Incomplete(k) /\ Handled(k)
          /\ script[k].type = "SYN_STREAM" /\ ~going_away
          /\ in_sync' = (Behind(k) = 0)
          /\ UNCHANGED <<script, segments, arrived, going_away>>
      BY <2>6 DEF handle_SPDY_SYN_STREAM, Dispatched
    <3>2. going_away' \in BOOLEAN
      BY <3>1 DEF FrameInv, HandledInOrder, TypeOK
    <3>3. in_sync' \in BOOLEAN
      BY <3>1, Zenon
    <3> QED
      BY <3>1, <3>2, <3>3, TakesFrame
  <2>7. ASSUME NEW k \in DOMAIN script, SynIgnored(k)
        PROVE  FrameInv'
    BY <2>7, Ignores
  <2>8. ASSUME NEW k \in DOMAIN script, SynFails(k) \/ UnknownFrame(k)
        PROVE  FrameInv'
    BY <2>8, Failures DEF SynFails, UnknownFrame
  <2>9. CASE UNCHANGED vars
    <3>1. TypeOK' /\ \A i, j \in DOMAIN handled' : i < j => handled'[i] < handled'[j]
      BY <2>9 DEF vars, FrameInv, HandledInOrder, TypeOK, Total, EndOf
    <3>2. Live' /\ AtPos' /\ Consumed' /\ GoawaySeen'
      BY <2>9 DEF vars, FrameInv, Live, AtPos, Cell, Consumed, Base, GoawaySeen
    <3>3. NoStreamAfterGoaway' /\ OneFrame'
      BY <2>9 DEF vars, FrameInv, NoStreamAfterGoaway, OneFrame, Base, Total, EndOf
    <3> QED
      BY <3>1, <3>2, <3>3 DEF FrameInv, HandledInOrder
  <2> QED
    BY <2>1, <2>2, <2>3, <2>4, <2>5, <2>6, <2>7, <2>8, <2>9
    DEF Next, spdy_process_buffer
<1> QED
  BY <1>1, <1>2, PTL DEF SafetySpec

\* No frame is handled twice or out of order, for streams of any length, cut
\* into reads in any way, although the loop of spdy_process_buffer reads headers
\* from the middle of frames and from memory behind the buffer's length.
THEOREM NeverTwice == SafetySpec => []HandledInOrder
<1>1. FrameInv => HandledInOrder
  BY DEF FrameInv
<1> QED
  BY <1>1, Invariance, PTL

\* handle_SPDY_SYN_STREAM opens no stream behind a GOAWAY.
THEOREM NothingAfterGoaway == SafetySpec => []NoStreamAfterGoaway
<1>1. FrameInv => NoStreamAfterGoaway
  BY DEF FrameInv
<1> QED
  BY <1>1, Invariance, PTL

\* While no read holds more than one frame, the test of spdy_process_frame for a
\* complete frame lets no handler read behind the buffer's length.
THEOREM OnlyWholeFrames == SafetySpec => []CompleteFrames
<1>1. FrameInv => CompleteFrames
  BY DEF FrameInv, OneFrame, CompleteFrames
<1> QED
  BY <1>1, Invariance, PTL
=============================================================================
