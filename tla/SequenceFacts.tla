---------------------------- MODULE SequenceFacts ----------------------------
(***************************************************************************)
(* Facts about sequences that the proofs about buffers and linked lists    *)
(* share: splitting, appending, removing, and lists without repetition;    *)
(* and induction and recursion over an interval of the naturals, which     *)
(* take a set and a function where the theorems of the library take        *)
(* operators.                                                              *)
(***************************************************************************)
EXTENDS Integers, SequencesExt, SequenceTheorems, WellFoundedInduction, TLAPS

\* Taking the first n elements splits a sequence in two.
LEMMA SplitAt ==
  ASSUME NEW S, NEW s \in Seq(S), NEW n \in 0..Len(s)
  PROVE  /\ SubSeq(s, 1, n) \in Seq(S) /\ SubSeq(s, n + 1, Len(s)) \in Seq(S)
         /\ SubSeq(s, 1, n) \o SubSeq(s, n + 1, Len(s)) = s
         /\ n = 0 => SubSeq(s, n + 1, Len(s)) = s
         /\ n = Len(s) => SubSeq(s, n + 1, Len(s)) = <<>>
<1>1. Len(s) \in Nat /\ \A i \in 1..Len(s) : s[i] \in S
  BY ElementOfSeq, LenProperties
<1>2. SubSeq(s, 1, n) \in Seq(S)
  BY <1>1, SubSeqProperties
<1>3. SubSeq(s, n + 1, Len(s)) \in Seq(S)
  BY <1>1, SubSeqProperties
<1>4. SubSeq(s, 1, n) \o SubSeq(s, n + 1, Len(s)) = SubSeq(s, 1, Len(s))
  <2>1. 1 \in 1..(Len(s) + 1) /\ n \in (1 - 1)..Len(s) /\ Len(s) \in n..Len(s)
    BY <1>1
  <2> QED
    BY <2>1, ConcatAdjacentSubSeq, Zenon
<1>5. SubSeq(s, 1, Len(s)) = s
  BY SubSeqFull
<1>6. n = Len(s) => SubSeq(s, n + 1, Len(s)) = <<>>
  <2> SUFFICES ASSUME n = Len(s) PROVE SubSeq(s, n + 1, Len(s)) = <<>>
    OBVIOUS
  <2>1. n + 1 \in Int /\ Len(s) \in Int /\ Len(s) < n + 1
    BY <1>1
  <2> QED
    BY <2>1, SubSeqEmpty
<1>7. n = 0 => SubSeq(s, n + 1, Len(s)) = s
  <2> SUFFICES ASSUME n = 0 PROVE SubSeq(s, n + 1, Len(s)) = s
    OBVIOUS
  <2>1. n + 1 = 1
    OBVIOUS
  <2> QED
    BY <2>1, <1>5
<1> QED
  BY <1>2, <1>3, <1>4, <1>5, <1>6, <1>7

\* Leaving out the last element.
LEMMA FrontFacts ==
  ASSUME NEW S, NEW s \in Seq(S), s # <<>>
  PROVE  /\ Len(s) \in Nat \ {0} /\ Front(s) \in Seq(S) /\ Len(Front(s)) = Len(s) - 1
         /\ \A i \in 1..(Len(s) - 1) : Front(s)[i] = s[i]
<1>1. Len(s) \in Nat \ {0} /\ \A i \in 1..Len(s) : s[i] \in S
  BY ElementOfSeq, LenProperties, EmptySeq
<1>2. /\ SubSeq(s, 1, Len(s) - 1) \in Seq(S) /\ Len(SubSeq(s, 1, Len(s) - 1)) = Len(s) - 1
      /\ \A i \in 1..(Len(s) - 1) : SubSeq(s, 1, Len(s) - 1)[i] = s[i]
  <2>1. \A i \in 1..(Len(s) - 1) : s[i] \in S
    BY <1>1
  <2>2. Len(s) - 1 \in Int /\ 1 \in Int
    BY <1>1
  <2>3. /\ SubSeq(s, 1, Len(s) - 1) \in Seq(S)
        /\ Len(SubSeq(s, 1, Len(s) - 1)) = IF 1 <= Len(s) - 1 THEN (Len(s) - 1) - 1 + 1 ELSE 0
    BY <2>1, <2>2, SubSeqProperties
  <2>4. \A i \in 1..((Len(s) - 1) - 1 + 1) : SubSeq(s, 1, Len(s) - 1)[i] = s[1 + i - 1]
    BY <2>1, <2>2, SubSeqProperties
  <2>5. (Len(s) - 1) - 1 + 1 = Len(s) - 1 /\ \A i \in 1..(Len(s) - 1) : 1 + i - 1 = i
    BY <1>1
  <2> QED
    BY <1>1, <2>3, <2>4, <2>5
<1> QED
  BY <1>1, <1>2 DEF Front

\* Appending two elements.
LEMMA AppendTwo ==
  ASSUME NEW S, NEW s \in Seq(S), NEW t \in Seq(S), Len(t) = 2
  PROVE  /\ Len(s) \in Nat /\ s \o t \in Seq(S) /\ Len(s \o t) = Len(s) + 2
         /\ DOMAIN s = 1..Len(s) /\ DOMAIN (s \o t) = 1..(Len(s) + 2)
         /\ \A i \in 1..Len(s) : (s \o t)[i] = s[i]
         /\ (s \o t)[Len(s) + 1] = t[1] /\ (s \o t)[Len(s) + 2] = t[2]
<1>1. s \o t \in Seq(S) /\ Len(s \o t) = Len(s) + 2
  <2>1. s \o t \in Seq(S) /\ Len(s \o t) = Len(s) + Len(t)
    BY ConcatProperties, Zenon
  <2> QED
    BY <2>1
<1>2. /\ Len(s) \in Nat /\ DOMAIN s = 1..Len(s)
      /\ DOMAIN (s \o t) = 1..(Len(s) + 2)
  BY <1>1, LenProperties
<1>3. \A i \in 1..(Len(s) + Len(t)) :
        (s \o t)[i] = IF i <= Len(s) THEN s[i] ELSE t[i - Len(s)]
  BY ConcatProperties
<1>4. \A i \in 1..Len(s) : (s \o t)[i] = s[i]
  BY <1>2, <1>3
<1>5. (s \o t)[Len(s) + 1] = t[1]
  BY <1>2, <1>3
<1>6. (s \o t)[Len(s) + 2] = t[2]
  BY <1>2, <1>3
<1> QED
  BY <1>1, <1>2, <1>4, <1>5, <1>6

\* Removing the element at position n.
LEMMA RemoveAtFacts ==
  ASSUME NEW S, NEW s \in Seq(S), NEW n \in 1..Len(s)
  PROVE  /\ RemoveAt(s, n) \in Seq(S)
         /\ Len(RemoveAt(s, n)) = Len(s) - 1
         /\ \A i \in 1..(Len(s) - 1) :
              RemoveAt(s, n)[i] = IF i < n THEN s[i] ELSE s[i + 1]
<1> DEFINE a == SubSeq(s, 1, n - 1)
           b == SubSeq(s, n + 1, Len(s))
<1>1. Len(s) \in Nat /\ \A i \in 1..Len(s) : s[i] \in S
  BY ElementOfSeq, LenProperties
<1>2. /\ a \in Seq(S) /\ Len(a) = n - 1
      /\ \A i \in 1..(n - 1) : a[i] = s[i]
  BY <1>1, SubSeqProperties
<1>3. /\ b \in Seq(S) /\ Len(b) = Len(s) - n
      /\ \A i \in 1..(Len(s) - n) : b[i] = s[n + i]
  BY <1>1, SubSeqProperties
<1> HIDE DEF a, b
<1>4. /\ a \o b \in Seq(S) /\ Len(a \o b) = Len(s) - 1
      /\ \A i \in 1..(Len(s) - 1) :
           (a \o b)[i] = IF i <= n - 1 THEN a[i] ELSE b[i - (n - 1)]
  BY <1>1, <1>2, <1>3, ConcatProperties
<1>5. ASSUME NEW i \in 1..(Len(s) - 1)
      PROVE  (a \o b)[i] = IF i < n THEN s[i] ELSE s[i + 1]
  <2>1. CASE i < n
    BY <1>1, <1>2, <1>4, <2>1
  <2>2. CASE ~(i < n)
    <3>1. i - (n - 1) \in 1..(Len(s) - n) /\ n + (i - (n - 1)) = i + 1
      BY <1>1, <2>2
    <3> QED
      BY <1>1, <1>3, <1>4, <2>2, <3>1
  <2> QED
    BY <2>1, <2>2
<1> QED
  BY <1>4, <1>5, Zenon DEF RemoveAt, a, b

-----------------------------------------------------------------------------
(* Lists without repetition: IsInjective and Contains are what is left of   *)
(* the order.                                                              *)

\* The empty list.
LEMMA EmptyFacts ==
  /\ IsInjective(<<>>) /\ Len(<<>>) = 0
  /\ \A x : ~Contains(<<>>, x)
BY DEF IsInjective, Contains

\* The last entry is in the list.
LEMMA LastFacts ==
  ASSUME NEW S, NEW s \in Seq(S), s # <<>>
  PROVE  /\ Len(s) \in Nat \ {0} /\ s[Len(s)] \in S /\ Contains(s, s[Len(s)])
BY EmptySeq, ElementOfSeq DEF Contains

\* A list has no entry exactly when its length is 0.
LEMMA LengthFacts ==
  ASSUME NEW S, NEW s \in Seq(S)
  PROVE  /\ Len(s) \in Nat /\ (s = <<>> <=> Len(s) = 0)
         /\ \A x : Contains(s, x) => Len(s) > 0
BY EmptySeq, LenProperties DEF Contains

\* Linking x at the head.
LEMMA ConsFacts ==
  ASSUME NEW S, NEW s \in Seq(S), NEW x \in S, IsInjective(s), ~Contains(s, x)
  PROVE  /\ <<x>> \o s \in Seq(S) /\ Len(<<x>> \o s) = Len(s) + 1
         /\ IsInjective(<<x>> \o s)
         /\ \A y : Contains(<<x>> \o s, y) <=> y = x \/ Contains(s, y)
<1> DEFINE t == <<x>> \o s
<1>1. /\ Len(s) \in Nat /\ DOMAIN s = 1..Len(s)
      /\ t \in Seq(S) /\ Len(t) = Len(s) + 1 /\ DOMAIN t = 1..(Len(s) + 1)
  OBVIOUS
<1>2. t[1] = x /\ \A i \in 1..Len(s) : t[i + 1] = s[i]
  OBVIOUS
<1> HIDE DEF t
<1>3. \A i \in 1..(Len(s) + 1) : i = 1 \/ (i - 1 \in 1..Len(s) /\ t[i] = s[i - 1])
  <2> TAKE i \in 1..(Len(s) + 1)
  <2>1. i = 1 \/ (i - 1 \in 1..Len(s) /\ (i - 1) + 1 = i)
    BY <1>1
  <2> QED
    BY <1>2, <2>1
<1>4. IsInjective(t)
  <2> SUFFICES ASSUME NEW a \in 1..(Len(s) + 1), NEW b \in 1..(Len(s) + 1),
                      t[a] = t[b]
               PROVE  a = b
    BY <1>1 DEF IsInjective
  <2>1. \A i \in 1..Len(s) : s[i] # x
    BY DEF Contains
  <2>2. CASE a = 1 \/ b = 1
    BY <1>2, <1>3, <2>1, <2>2
  <2>3. CASE a # 1 /\ b # 1
    <3>1. /\ a - 1 \in 1..Len(s) /\ t[a] = s[a - 1]
          /\ b - 1 \in 1..Len(s) /\ t[b] = s[b - 1]
      BY <1>3, <2>3
    <3>2. a - 1 = b - 1
      BY <1>1, <3>1 DEF IsInjective
    <3> QED
      BY <1>1, <3>2
  <2> QED
    BY <2>2, <2>3
<1>5. ASSUME NEW y PROVE Contains(t, y) <=> y = x \/ Contains(s, y)
  <2>1. ASSUME Contains(t, y) PROVE y = x \/ Contains(s, y)
    BY <1>1, <1>2, <1>3, <2>1 DEF Contains
  <2>2. ASSUME Contains(s, y) PROVE Contains(t, y)
    <3>1. PICK i \in 1..Len(s) : s[i] = y
      BY <2>2 DEF Contains
    <3>2. i + 1 \in 1..Len(t) /\ t[i + 1] = y
      BY <1>1, <1>2, <3>1
    <3> QED
      BY <3>2 DEF Contains
  <2>3. Contains(t, x)
    <3>1. 1 \in 1..Len(t)
      BY <1>1
    <3> QED
      BY <1>2, <3>1 DEF Contains
  <2> QED
    BY <2>1, <2>2, <2>3
<1> QED
  BY <1>1, <1>4, <1>5 DEF t

\* Linking x at the end.
LEMMA AppendFacts ==
  ASSUME NEW S, NEW s \in Seq(S), NEW x \in S, IsInjective(s), ~Contains(s, x)
  PROVE  /\ Append(s, x) \in Seq(S) /\ Len(Append(s, x)) = Len(s) + 1
         /\ IsInjective(Append(s, x))
         /\ \A y : Contains(Append(s, x), y) <=> y = x \/ Contains(s, y)
<1> DEFINE t == Append(s, x)
<1>1. /\ Len(s) \in Nat /\ DOMAIN s = 1..Len(s)
      /\ t \in Seq(S) /\ Len(t) = Len(s) + 1 /\ DOMAIN t = 1..(Len(s) + 1)
      /\ t[Len(s) + 1] = x /\ \A i \in 1..Len(s) : t[i] = s[i]
  OBVIOUS
<1> HIDE DEF t
<1>2. \A i \in 1..Len(s) : s[i] # x
  BY DEF Contains
<1>3. \A i \in 1..(Len(s) + 1) : i = Len(s) + 1 \/ i \in 1..Len(s)
  BY <1>1
<1>4. IsInjective(t)
  BY <1>1, <1>2, <1>3 DEF IsInjective
<1>5. ASSUME NEW y PROVE Contains(t, y) <=> y = x \/ Contains(s, y)
  <2>1. Len(s) + 1 \in 1..Len(t) /\ \A i \in 1..Len(s) : i \in 1..Len(t)
    BY <1>1
  <2> QED
    BY <1>1, <1>3, <2>1 DEF Contains
<1> QED
  BY <1>1, <1>4, <1>5 DEF t

\* Unlinking x.
LEMMA RemoveFirstFacts ==
  ASSUME NEW S, NEW s \in Seq(S), NEW x, IsInjective(s)
  PROVE  /\ RemoveFirst(s, x) \in Seq(S) /\ IsInjective(RemoveFirst(s, x))
         /\ Len(RemoveFirst(s, x)) = IF Contains(s, x) THEN Len(s) - 1 ELSE Len(s)
         /\ \A y : Contains(RemoveFirst(s, x), y) <=> y # x /\ Contains(s, y)
<1>1. CASE ~Contains(s, x)
  <2>1. RemoveFirst(s, x) = s
    BY <1>1 DEF RemoveFirst, Contains
  <2> QED
    BY <1>1, <2>1
<1>2. CASE Contains(s, x)
  <2>1. PICK j \in 1..Len(s) : s[j] = x
    BY <1>2 DEF Contains
  <2>2. Len(s) \in Nat /\ DOMAIN s = 1..Len(s)
    BY LenProperties
  <2>3. {i \in 1..Len(s) : s[i] = x} = {j}
    BY <2>1, <2>2 DEF IsInjective
  <2>4. Min({j}) = j
    BY <2>2 DEF Min
  <2>5. RemoveFirst(s, x) = RemoveAt(s, j)
    BY <2>1, <2>3, <2>4 DEF RemoveFirst, SelectInSeq
  <2> DEFINE t == RemoveAt(s, j)
  <2>6. /\ t \in Seq(S) /\ Len(t) = Len(s) - 1
        /\ \A i \in 1..(Len(s) - 1) : t[i] = IF i < j THEN s[i] ELSE s[i + 1]
    BY RemoveAtFacts
  <2> HIDE DEF t
  <2>7. DOMAIN t = 1..(Len(s) - 1)
    BY <2>6, LenProperties
  <2>8. IsInjective(t)
    <3> SUFFICES ASSUME NEW a \in DOMAIN t, NEW b \in DOMAIN t, t[a] = t[b]
                 PROVE  a = b
      BY DEF IsInjective
    <3> DEFINE p(i) == IF i < j THEN i ELSE i + 1
    <3>1. /\ p(a) \in 1..Len(s) /\ p(b) \in 1..Len(s)
          /\ t[a] = s[p(a)] /\ t[b] = s[p(b)]
      BY <2>2, <2>6, <2>7
    <3>2. p(a) = p(b)
      BY <2>2, <3>1 DEF IsInjective
    <3> QED
      BY <2>2, <2>7, <3>2
  <2>9. ASSUME NEW y PROVE Contains(t, y) <=> y # x /\ Contains(s, y)
    <3>1. ASSUME Contains(t, y) PROVE y # x /\ Contains(s, y)
      <4>1. PICK i \in 1..Len(t) : t[i] = y
        BY <3>1 DEF Contains
      <4>2. PICK k \in 1..Len(s) : k # j /\ s[k] = y
        BY <2>2, <2>6, <4>1
      <4> QED
        BY <2>1, <2>2, <4>2 DEF IsInjective, Contains
    <3>2. ASSUME y # x, Contains(s, y) PROVE Contains(t, y)
      <4>1. PICK k \in 1..Len(s) : s[k] = y
        BY <3>2 DEF Contains
      <4>2. k # j
        BY <2>1, <3>2, <4>1
      <4>3. CASE k < j
        <5>1. k \in 1..Len(t) /\ t[k] = y
          BY <2>2, <2>6, <4>1, <4>3
        <5> QED
          BY <5>1 DEF Contains
      <4>4. CASE k > j
        <5>1. k - 1 \in 1..Len(t) /\ ~(k - 1 < j) /\ (k - 1) + 1 = k
          BY <2>2, <2>6, <4>1, <4>4
        <5>2. t[k - 1] = y
          BY <2>6, <4>1, <5>1
        <5> QED
          BY <5>1, <5>2 DEF Contains
      <4> QED
        BY <2>2, <4>2, <4>3, <4>4
    <3> QED
      BY <3>1, <3>2
  <2> QED
    BY <1>2, <2>5, <2>6, <2>8, <2>9 DEF t
<1> QED
  BY <1>1, <1>2
-----------------------------------------------------------------------------
(* Induction and recursion. *)

\* A set of naturals that is not empty has a least element.
LEMMA LeastNat ==
  ASSUME NEW T \in SUBSET Nat, T # {}
  PROVE  \E x \in T : \A y \in T : x <= y
<1> DEFINE R == {ss \in Nat \X Nat : ss[1] < ss[2]}
<1>1. IsWellFoundedOn(R, Nat)
  BY NatLessThanWellFounded DEF OpToRel
<1>2. \A x, y \in Nat : <<x, y>> \in R <=> x < y
  OBVIOUS
<1> HIDE DEF R
<1>3. PICK x \in T : \A y \in T : ~(<<y, x>> \in R)
  BY <1>1, WFMin
<1>4. \A y \in T : x <= y
  <2> TAKE y \in T
  <2>1. x \in Nat /\ y \in Nat
    OBVIOUS
  <2>2. ~(y < x)
    BY <1>2, <1>3, <2>1
  <2> QED
    BY <2>1, <2>2
<1> QED
  BY <1>4

\* Induction up to n, over the members of a set.
LEMMA InductionTo ==
  ASSUME NEW n \in Nat, NEW Q, 0 \in Q, \A i \in 1..n : i - 1 \in Q => i \in Q
  PROVE  \A i \in 0..n : i \in Q
<1> DEFINE T == {i \in 0..n : i \notin Q}
<1> SUFFICES ASSUME T # {} PROVE FALSE
  OBVIOUS
<1>1. PICK x \in T : \A y \in T : x <= y
  <2>1. T \in SUBSET Nat
    OBVIOUS
  <2> QED
    BY <2>1, LeastNat
<1>2. x \in 1..n /\ x - 1 \in 0..n /\ ~(x <= x - 1)
  OBVIOUS
<1>3. x - 1 \in Q
  BY <1>1, <1>2
<1> QED
  BY <1>2, <1>3

\* f goes on from base by step, up to n.
GoesBy(f, n, S, base, step) ==
  /\ f \in [0..n -> S] /\ f[0] = base
  /\ \A i \in 1..n : f[i] = step[i][f[i - 1]]

\* Recursion up to n: the function that a step defines from its base exists.
LEMMA Recursion ==
  ASSUME NEW n \in Nat, NEW S, NEW base \in S, NEW step \in [1..n -> [S -> S]]
  PROVE  \E f : GoesBy(f, n, S, base, step)
<1> DEFINE Q == {m \in 0..n : \E f : GoesBy(f, m, S, base, step)}
<1>1. 0 \in Q
  <2>1. GoesBy([i \in 0..0 |-> base], 0, S, base, step)
    BY DEF GoesBy
  <2>2. 0 \in 0..n
    OBVIOUS
  <2> QED
    BY <2>1, <2>2
<1>2. ASSUME NEW i \in 1..n, i - 1 \in Q PROVE i \in Q
  <2>1. PICK f : GoesBy(f, i - 1, S, base, step)
    BY <1>2
  <2> DEFINE g == [k \in 0..i |-> IF k = i THEN step[i][f[i - 1]] ELSE f[k]]
  <2>2. /\ f \in [0..(i - 1) -> S] /\ f[0] = base
        /\ \A k \in 1..(i - 1) : f[k] = step[k][f[k - 1]]
    BY <2>1 DEF GoesBy
  <2>3. f[i - 1] \in S /\ step[i][f[i - 1]] \in S
    BY <2>2
  <2>4. g \in [0..i -> S] /\ g[0] = base
    BY <2>2, <2>3
  <2>5. ASSUME NEW k \in 1..i PROVE g[k] = step[k][g[k - 1]]
    <3>1. g[k - 1] = f[k - 1]
      OBVIOUS
    <3>2. CASE k = i
      <4>1. g[i] = step[i][f[i - 1]] /\ g[i - 1] = f[i - 1]
        BY <3>1, <3>2
      <4> HIDE DEF g
      <4> QED
        BY <3>2, <4>1
    <3>3. CASE k # i
      BY <2>2, <3>1, <3>3
    <3> QED
      BY <3>2, <3>3
  <2> HIDE DEF g
  <2>6. GoesBy(g, i, S, base, step)
    BY <2>4, <2>5 DEF GoesBy
  <2>7. i \in 0..n
    OBVIOUS
  <2> QED
    BY <2>6, <2>7
<1> HIDE DEF Q
<1>3. n \in Q
  <2>1. \A i \in 0..n : i \in Q
    BY <1>1, <1>2, InductionTo
  <2> QED
    BY <2>1
<1> QED
  BY <1>3 DEF Q
=============================================================================
