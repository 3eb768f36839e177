----------------------------- MODULE CacheProofs -----------------------------
(***************************************************************************)
(* Proofs about Cache, for every set of keys, every finite set of clients   *)
(* and every max_size.  What each operator of the cache does to the lists,  *)
(* the counters and the reference counts is stated once, as a lemma about   *)
(* any state in which those agree; the theorems follow from the lemmas.    *)
(***************************************************************************)
EXTENDS Cache, SequenceFacts, FiniteSetTheorems

\* The http2d_cache_t with its entries.
State ==
  [lists     : [Lists -> Seq(Keys)],
   len       : [Lists -> Int],
   in_list   : [Keys -> Lists \cup {"no_list"}],
   ref_count : [Keys -> Int],
   map       : SUBSET Keys,
   target_t1 : 0..MaxSize,
   segv      : BOOLEAN]

\* in_list, the links and the counters agree: ListsAgree, without counting.
Linked(s) ==
  /\ s \in State
  /\ \A l \in Lists :
       /\ s.len[l] = Len(s.lists[l])
       /\ IsInjective(s.lists[l])
       /\ \A k \in Keys : Contains(s.lists[l], k) <=> s.in_list[k] = l

\* The reference counts are right when users[k] clients hold the entry of k.
Owned(s, users) ==
  \A k \in Keys :
    /\ s.ref_count[k] = users[k] + (IF s.in_list[k] = "no_list" THEN 0 ELSE 1)
    /\ k \in s.map <=> s.ref_count[k] > 0

\* What an operation on the lists leaves alone.
SameRest(s, t) ==
  /\ t.ref_count = s.ref_count /\ t.map = s.map
  /\ t.target_t1 = s.target_t1 /\ t.segv = s.segv

-----------------------------------------------------------------------------
(* The list macros. *)

\* A list is empty when its counter is 0; otherwise its LRU is an entry that
\* says it is in that list.
LEMMA LRUFacts ==
  ASSUME NEW s, Linked(s), NEW l \in Lists
  PROVE  /\ s.len[l] \in Nat
         /\ IsEmpty(s, l) <=> s.len[l] = 0
         /\ ~IsEmpty(s, l) => LRU(s, l) \in Keys /\ s.in_list[LRU(s, l)] = l
<1>1. s.lists[l] \in Seq(Keys)
  BY DEF Linked, State
<1>2. s.len[l] \in Nat /\ (IsEmpty(s, l) <=> s.len[l] = 0)
  BY <1>1, LengthFacts DEF Linked, IsEmpty
<1>3. ASSUME ~IsEmpty(s, l) PROVE LRU(s, l) \in Keys /\ s.in_list[LRU(s, l)] = l
  <2>1. LRU(s, l) \in Keys /\ Contains(s.lists[l], LRU(s, l))
    BY <1>1, <1>3, LastFacts DEF IsEmpty, LRU
  <2> QED
    BY <2>1 DEF Linked
<1> QED
  BY <1>2, <1>3

\* A listed entry makes the counter of its list positive.
LEMMA ListedFacts ==
  ASSUME NEW s, Linked(s), NEW k \in Keys, s.in_list[k] \in Lists
  PROVE  s.len[s.in_list[k]] >= 1
<1>1. s.lists[s.in_list[k]] \in Seq(Keys)
  BY DEF Linked, State
<1>2. Contains(s.lists[s.in_list[k]], k)
  BY DEF Linked
<1>3. Len(s.lists[s.in_list[k]]) > 0 /\ Len(s.lists[s.in_list[k]]) \in Nat
  BY <1>1, <1>2, LengthFacts
<1> QED
  BY <1>3 DEF Linked

\* cache_list_add of an entry that is in no list.
LEMMA AddFacts ==
  ASSUME NEW s, Linked(s), NEW l \in Lists, NEW k \in Keys,
         s.in_list[k] = "no_list"
  PROVE  LET t == ListAdd(s, l, k)
         IN  /\ Linked(t) /\ SameRest(s, t)
             /\ t.in_list = [s.in_list EXCEPT ![k] = l]
             /\ t.len = [s.len EXCEPT ![l] = @ + 1]
<1> DEFINE t == ListAdd(s, l, k)
<1>0. "no_list" \notin Lists
  BY DEF Lists
<1>1. s \in State /\ s.lists \in [Lists -> Seq(Keys)] /\ s.len \in [Lists -> Int]
      /\ s.in_list \in [Keys -> Lists \cup {"no_list"}]
  BY DEF Linked, State
<1>2. /\ <<k>> \o s.lists[l] \in Seq(Keys)
      /\ Len(<<k>> \o s.lists[l]) = Len(s.lists[l]) + 1
      /\ IsInjective(<<k>> \o s.lists[l])
      /\ \A y : Contains(<<k>> \o s.lists[l], y) <=> y = k \/ Contains(s.lists[l], y)
  <2>1. s.lists[l] \in Seq(Keys) /\ IsInjective(s.lists[l]) /\ ~Contains(s.lists[l], k)
    BY <1>0, <1>1 DEF Linked
  <2> QED
    BY <2>1, ConsFacts
<1>3. /\ t.lists = [s.lists EXCEPT ![l] = <<k>> \o s.lists[l]]
      /\ t.len = [s.len EXCEPT ![l] = s.len[l] + 1]
      /\ t.in_list = [s.in_list EXCEPT ![k] = l]
      /\ SameRest(s, t)
  BY <1>1 DEF ListAdd, State, SameRest
<1>4. t \in State
  <2>1. [s.lists EXCEPT ![l] = <<k>> \o s.lists[l]] \in [Lists -> Seq(Keys)]
    BY <1>1, <1>2
  <2>2. [s.len EXCEPT ![l] = s.len[l] + 1] \in [Lists -> Int]
    BY <1>1
  <2>3. [s.in_list EXCEPT ![k] = l] \in [Keys -> Lists \cup {"no_list"}]
    BY <1>1
  <2> QED
    BY <1>1, <2>1, <2>2, <2>3 DEF ListAdd, State
<1> HIDE DEF t
<1>5. ASSUME NEW m \in Lists
      PROVE  /\ t.len[m] = Len(t.lists[m]) /\ IsInjective(t.lists[m])
             /\ \A x \in Keys : Contains(t.lists[m], x) <=> t.in_list[x] = m
  <2>1. CASE m = l
    <3>1. t.lists[m] = <<k>> \o s.lists[l] /\ t.len[m] = s.len[l] + 1
      BY <1>1, <1>3, <2>1
    <3>2. \A x \in Keys : t.in_list[x] = m <=> x = k \/ s.in_list[x] = l
      BY <1>1, <1>3, <2>1
    <3> QED
      BY <1>2, <3>1, <3>2, <2>1 DEF Linked
  <2>2. CASE m # l
    <3>1. t.lists[m] = s.lists[m] /\ t.len[m] = s.len[m]
      BY <1>1, <1>3, <2>2
    <3>2. \A x \in Keys : t.in_list[x] = m <=> s.in_list[x] = m
      BY <1>0, <1>1, <1>3, <2>2
    <3> QED
      BY <3>1, <3>2 DEF Linked
  <2> QED
    BY <2>1, <2>2
<1>6. Linked(t)
  BY <1>4, <1>5 DEF Linked
<1> QED
  BY <1>3, <1>6 DEF t

\* cache_list_del of an entry from the list it is in.
LEMMA DelFacts ==
  ASSUME NEW s, Linked(s), NEW l \in Lists, NEW k \in Keys, s.in_list[k] = l
  PROVE  LET t == ListDel(s, l, k)
         IN  /\ Linked(t) /\ SameRest(s, t)
             /\ t.in_list = [s.in_list EXCEPT ![k] = "no_list"]
             /\ t.len = [s.len EXCEPT ![l] = @ - 1]
<1> DEFINE t == ListDel(s, l, k)
<1>0. "no_list" \notin Lists
  BY DEF Lists
<1>1. s \in State /\ s.lists \in [Lists -> Seq(Keys)] /\ s.len \in [Lists -> Int]
      /\ s.in_list \in [Keys -> Lists \cup {"no_list"}]
  BY DEF Linked, State
<1>2. ASSUME NEW m \in Lists
      PROVE  /\ Unlink(s.lists[m], k) \in Seq(Keys)
             /\ IsInjective(Unlink(s.lists[m], k))
             /\ Len(Unlink(s.lists[m], k)) =
                  IF m = l THEN Len(s.lists[m]) - 1 ELSE Len(s.lists[m])
             /\ \A y : Contains(Unlink(s.lists[m], k), y) <=>
                         y # k /\ Contains(s.lists[m], y)
  <2>1. s.lists[m] \in Seq(Keys) /\ IsInjective(s.lists[m])
    BY <1>1 DEF Linked
  <2>2. Contains(s.lists[m], k) <=> m = l
    BY DEF Linked
  <2> QED
    BY <2>1, <2>2, RemoveFirstFacts DEF Unlink
<1>3. /\ t.lists = [m \in Lists |-> Unlink(s.lists[m], k)]
      /\ t.len = [s.len EXCEPT ![l] = s.len[l] - 1]
      /\ t.in_list = [s.in_list EXCEPT ![k] = "no_list"]
      /\ SameRest(s, t)
  BY <1>1 DEF ListDel, State, SameRest
<1>4. t \in State
  <2>1. [m \in Lists |-> Unlink(s.lists[m], k)] \in [Lists -> Seq(Keys)]
    BY <1>2
  <2>2. [s.len EXCEPT ![l] = s.len[l] - 1] \in [Lists -> Int]
    BY <1>1
  <2>3. [s.in_list EXCEPT ![k] = "no_list"] \in [Keys -> Lists \cup {"no_list"}]
    BY <1>1
  <2> QED
    BY <1>1, <2>1, <2>2, <2>3 DEF ListDel, State
<1> HIDE DEF t
<1>5. ASSUME NEW m \in Lists
      PROVE  /\ t.len[m] = Len(t.lists[m]) /\ IsInjective(t.lists[m])
             /\ \A x \in Keys : Contains(t.lists[m], x) <=> t.in_list[x] = m
  <2>1. t.lists[m] = Unlink(s.lists[m], k)
    BY <1>3
  <2>2. t.len[m] = IF m = l THEN s.len[m] - 1 ELSE s.len[m]
    BY <1>1, <1>3
  <2>3. \A x \in Keys : t.in_list[x] = m <=> x # k /\ s.in_list[x] = m
    BY <1>0, <1>1, <1>3
  <2>4. s.len[m] = Len(s.lists[m])
    BY DEF Linked
  <2>5. \A x \in Keys : Contains(s.lists[m], x) <=> s.in_list[x] = m
    BY DEF Linked
  <2> QED
    BY <1>2, <2>1, <2>2, <2>3, <2>4, <2>5
<1>6. Linked(t)
  BY <1>4, <1>5 DEF Linked
<1> QED
  BY <1>3, <1>6 DEF t

\* cache_list_swap of an entry to the head of another list.
LEMMA SwapFacts ==
  ASSUME NEW s, Linked(s), NEW from \in Lists, NEW to \in Lists, NEW k \in Keys,
         s.in_list[k] = from
  PROVE  LET t == ListSwap(s, from, to, k)
         IN  /\ Linked(t) /\ SameRest(s, t)
             /\ t.in_list = [s.in_list EXCEPT ![k] = to]
             /\ t.len = [[s.len EXCEPT ![from] = @ - 1] EXCEPT ![to] = @ + 1]
<1> DEFINE d == ListDel(s, from, k)
           t == ListAdd(d, to, k)
<1>0. s.in_list \in [Keys -> Lists \cup {"no_list"}]
  BY DEF Linked, State
<1>1. /\ Linked(d) /\ SameRest(s, d)
      /\ d.in_list = [s.in_list EXCEPT ![k] = "no_list"]
      /\ d.len = [s.len EXCEPT ![from] = @ - 1]
  BY DelFacts
<1> HIDE DEF d
<1>2. d.in_list[k] = "no_list"
  BY <1>0, <1>1
<1>3. /\ Linked(t) /\ SameRest(d, t)
      /\ t.in_list = [d.in_list EXCEPT ![k] = to]
      /\ t.len = [d.len EXCEPT ![to] = @ + 1]
  <2>1. Linked(d)
    BY <1>1
  <2> QED
    BY <1>2, <2>1, AddFacts
<1>4. t = ListSwap(s, from, to, k)
  BY DEF ListSwap, d
<1> HIDE DEF t
<1>5. t.in_list = [s.in_list EXCEPT ![k] = to]
  BY <1>0, <1>1, <1>3
<1> QED
  BY <1>1, <1>3, <1>4, <1>5 DEF SameRest

\* cache_list_make_first of an entry of the list.
LEMMA FirstFacts ==
  ASSUME NEW s, Linked(s), NEW l \in Lists, NEW k \in Keys, s.in_list[k] = l
  PROVE  LET t == MakeFirst(s, l, k)
         IN  Linked(t) /\ SameRest(s, t) /\ t.in_list = s.in_list /\ t.len = s.len
<1> DEFINE q == Unlink(s.lists[l], k)
           t == MakeFirst(s, l, k)
<1>1. s \in State /\ s.lists \in [Lists -> Seq(Keys)]
  BY DEF Linked, State
<1>2. s.lists[l] \in Seq(Keys) /\ IsInjective(s.lists[l]) /\ Contains(s.lists[l], k)
  BY <1>1 DEF Linked
<1>3. /\ q \in Seq(Keys) /\ IsInjective(q) /\ Len(q) = Len(s.lists[l]) - 1
      /\ \A y : Contains(q, y) <=> y # k /\ Contains(s.lists[l], y)
  BY <1>2, RemoveFirstFacts DEF Unlink
<1> HIDE DEF q
<1>4. /\ <<k>> \o q \in Seq(Keys) /\ Len(<<k>> \o q) = Len(q) + 1
      /\ IsInjective(<<k>> \o q)
      /\ \A y : Contains(<<k>> \o q, y) <=> y = k \/ Contains(q, y)
  BY <1>3, ConsFacts
<1>5. /\ t.lists = [s.lists EXCEPT ![l] = <<k>> \o q]
      /\ t.len = s.len /\ t.in_list = s.in_list /\ SameRest(s, t)
  BY <1>1 DEF MakeFirst, State, SameRest, q
<1>6. t \in State
  <2>1. [s.lists EXCEPT ![l] = <<k>> \o q] \in [Lists -> Seq(Keys)]
    BY <1>1, <1>4
  <2> QED
    BY <1>1, <2>1 DEF MakeFirst, State, q
<1> HIDE DEF t
<1>7. ASSUME NEW m \in Lists
      PROVE  /\ t.len[m] = Len(t.lists[m]) /\ IsInjective(t.lists[m])
             /\ \A x \in Keys : Contains(t.lists[m], x) <=> t.in_list[x] = m
  <2>0. /\ s.len[m] = Len(s.lists[m]) /\ IsInjective(s.lists[m])
        /\ \A x \in Keys : Contains(s.lists[m], x) <=> s.in_list[x] = m
    BY DEF Linked
  <2>1. CASE m = l
    <3>1. t.lists[m] = <<k>> \o q
      BY <1>1, <1>5, <2>1
    <3>2. Len(s.lists[l]) \in Nat
      BY <1>2
    <3> QED
      BY <1>2, <1>3, <1>4, <1>5, <2>0, <2>1, <3>1, <3>2
  <2>2. CASE m # l
    <3>1. t.lists[m] = s.lists[m]
      BY <1>1, <1>5, <2>2
    <3> QED
      BY <1>5, <2>0, <3>1
  <2> QED
    BY <2>1, <2>2
<1>8. Linked(t)
  BY <1>6, <1>7 DEF Linked
<1> QED
  BY <1>5, <1>8 DEF t

-----------------------------------------------------------------------------
(* Reference counts. *)

\* entry_ref
LEMMA RefFacts ==
  ASSUME NEW s, Linked(s), NEW k \in Keys
  PROVE  LET t == Ref(s, k)
         IN  /\ Linked(t) /\ t.in_list = s.in_list /\ t.len = s.len
             /\ t.ref_count = [s.ref_count EXCEPT ![k] = @ + 1]
             /\ t.map = s.map /\ t.target_t1 = s.target_t1 /\ t.segv = s.segv
<1> DEFINE t == Ref(s, k)
<1>1. s \in State /\ s.ref_count \in [Keys -> Int]
  BY DEF Linked, State
<1>2. /\ t.lists = s.lists /\ t.in_list = s.in_list /\ t.len = s.len
      /\ t.ref_count = [s.ref_count EXCEPT ![k] = @ + 1]
      /\ t.map = s.map /\ t.target_t1 = s.target_t1 /\ t.segv = s.segv
  BY <1>1 DEF Ref, State
<1>3. t \in State
  <2>1. [s.ref_count EXCEPT ![k] = @ + 1] \in [Keys -> Int]
    BY <1>1
  <2> QED
    BY <1>1, <2>1 DEF Ref, State
<1> QED
  BY <1>2, <1>3 DEF Linked

\* entry_unref_guts, of an entry whose last reference is not the cache's own.
LEMMA UnrefFacts ==
  ASSUME NEW s, Linked(s), NEW k \in Keys, s.ref_count[k] >= 1,
         s.ref_count[k] = 1 => s.in_list[k] = "no_list"
  PROVE  LET t == Unref(s, k)
         IN  /\ Linked(t) /\ t.in_list = s.in_list /\ t.len = s.len
             /\ t.ref_count = [s.ref_count EXCEPT ![k] = @ - 1]
             /\ t.map = IF s.ref_count[k] > 1 THEN s.map ELSE s.map \ {k}
             /\ t.target_t1 = s.target_t1 /\ t.segv = s.segv
<1> DEFINE d == [s EXCEPT !.ref_count[k] = @ - 1]
           u == [d EXCEPT !.map = @ \ {k}]
           t == Unref(s, k)
<1>1. s \in State /\ s.ref_count \in [Keys -> Int] /\ s.map \in SUBSET Keys
  BY DEF Linked, State
<1>2. /\ d.lists = s.lists /\ d.in_list = s.in_list /\ d.len = s.len
      /\ d.ref_count = [s.ref_count EXCEPT ![k] = @ - 1]
      /\ d.map = s.map /\ d.target_t1 = s.target_t1 /\ d.segv = s.segv
  BY <1>1 DEF State
<1>3. d \in State
  <2>1. [s.ref_count EXCEPT ![k] = @ - 1] \in [Keys -> Int]
    BY <1>1
  <2> QED
    BY <1>1, <2>1 DEF State
<1>4. d.ref_count[k] = s.ref_count[k] - 1
  BY <1>1, <1>2
<1>5. CASE s.ref_count[k] > 1
  <2>1. t = d
    BY <1>1, <1>4, <1>5 DEF Unref
  <2> QED
    BY <1>2, <1>3, <1>5, <2>1 DEF Linked
<1>6. CASE ~(s.ref_count[k] > 1)
  <2>1. s.in_list[k] = "no_list" /\ "no_list" \notin Lists
    BY <1>1, <1>6 DEF Lists
  <2>2. t = u
    BY <1>1, <1>4, <1>6, <2>1 DEF Unref
  <2>3. /\ u.lists = s.lists /\ u.in_list = s.in_list /\ u.len = s.len
        /\ u.ref_count = [s.ref_count EXCEPT ![k] = @ - 1]
        /\ u.map = s.map \ {k} /\ u.target_t1 = s.target_t1 /\ u.segv = s.segv
    BY <1>2, <1>3 DEF State
  <2>4. u \in State
    BY <1>3 DEF State
  <2> QED
    BY <1>6, <2>2, <2>3, <2>4 DEF Linked
<1> QED
  BY <1>5, <1>6

-----------------------------------------------------------------------------
(* The replacement policy. *)

Within(s) ==
  /\ s.len["t1"] + s.len["t2"] <= MaxSize
  /\ s.len["t1"] + s.len["b1"] <= MaxSize
  /\ s.len["t1"] + s.len["t2"] + s.len["b1"] + s.len["b2"] <= 2 * MaxSize

HasRoom(s) ==
  /\ s.len["t1"] + s.len["t2"] < MaxSize
  /\ s.len["t1"] + s.len["b1"] < MaxSize
  /\ s.len["t1"] + s.len["t2"] + s.len["b1"] + s.len["b2"] < 2 * MaxSize

\* The counters are numbers.
LEMMA CounterFacts ==
  ASSUME NEW s, Linked(s)
  PROVE  /\ s.len["t1"] \in Nat /\ s.len["t2"] \in Nat
         /\ s.len["b1"] \in Nat /\ s.len["b2"] \in Nat
         /\ s.len \in [Lists -> Int] /\ s.target_t1 \in Nat
         /\ s.target_t1 <= MaxSize /\ MaxSize \in Nat
<1>1. "t1" \in Lists /\ "t2" \in Lists /\ "b1" \in Lists /\ "b2" \in Lists
  BY DEF Lists
<1>2. s.len["t1"] \in Nat /\ s.len["t2"] \in Nat /\ s.len["b1"] \in Nat
      /\ s.len["b2"] \in Nat
  BY <1>1, LRUFacts
<1>3. s.len \in [Lists -> Int] /\ s.target_t1 \in 0..MaxSize
  BY DEF Linked, State
<1> QED
  BY <1>2, <1>3, MaxSizeAssumption

\* One resident entry has become a ghost.
Demoted(s, t) ==
  \/ /\ s.len["t1"] >= 1
     /\ t.len = [[s.len EXCEPT !["t1"] = @ - 1] EXCEPT !["b1"] = @ + 1]
  \/ /\ s.len["t2"] >= 1
     /\ t.len = [[s.len EXCEPT !["t2"] = @ - 1] EXCEPT !["b2"] = @ + 1]

\* replace demotes one resident entry, or does nothing when there is none that
\* it may demote; entries in no list and ghosts stay where they are.
LEMMA ReplaceFacts ==
  ASSUME NEW s, Linked(s), NEW fromB2 \in BOOLEAN
  PROVE  LET t == Replace(s, fromB2)
         IN  /\ Linked(t) /\ SameRest(s, t)
             /\ \A k \in Keys :
                  /\ s.in_list[k] \in {"b1", "b2", "no_list"} =>
                       t.in_list[k] = s.in_list[k]
                  /\ s.in_list[k] \in Lists => t.in_list[k] \in Lists
             /\ t.len = s.len \/ Demoted(s, t)
             /\ \/ s.segv
                \/ s.len["t2"] = 0 /\ (\/ s.len["t1"] = 0
                                       \/ s.len["t1"] < s.target_t1
                                       \/ s.len["t1"] = s.target_t1 /\ ~fromB2)
                \/ Demoted(s, t)
<1> DEFINE demoteT1 == /\ s.len["t1"] >= 1
                       /\ \/ s.len["t1"] > s.target_t1
                          \/ s.len["t1"] = s.target_t1 /\ fromB2
           top   == IF demoteT1 THEN "t1" ELSE "t2"
           ghost == IF demoteT1 THEN "b1" ELSE "b2"
           t     == Replace(s, fromB2)
<1>1. top \in Lists /\ ghost \in Lists
  BY DEF Lists
<1>2. s.len["t1"] \in Nat /\ s.len["t2"] \in Nat /\ s.target_t1 \in Nat
  BY CounterFacts
<1>3. s.in_list \in [Keys -> Lists \cup {"no_list"}]
  BY DEF Linked, State
<1>4. s.len[top] \in Nat /\ (IsEmpty(s, top) <=> s.len[top] = 0)
  BY <1>1, LRUFacts
<1>5. t = IF s.segv \/ IsEmpty(s, top) THEN s ELSE ListSwap(s, top, ghost, LRU(s, top))
  BY DEF Replace
<1>6. CASE s.segv \/ IsEmpty(s, top)
  <2>1. t = s
    BY <1>5, <1>6
  <2>2. \/ s.segv
        \/ s.len["t2"] = 0 /\ (\/ s.len["t1"] = 0
                               \/ s.len["t1"] < s.target_t1
                               \/ s.len["t1"] = s.target_t1 /\ ~fromB2)
    BY <1>2, <1>4, <1>6
  <2> QED
    BY <2>1, <2>2 DEF SameRest
<1>7. CASE ~(s.segv \/ IsEmpty(s, top))
  <2> DEFINE x == LRU(s, top)
  <2>1. x \in Keys /\ s.in_list[x] = top
    BY <1>1, <1>7, LRUFacts
  <2>2. t = ListSwap(s, top, ghost, x)
    BY <1>5, <1>7
  <2> HIDE DEF x, top, ghost, t
  <2>3. /\ Linked(t) /\ SameRest(s, t)
        /\ t.in_list = [s.in_list EXCEPT ![x] = ghost]
        /\ t.len = [[s.len EXCEPT ![top] = @ - 1] EXCEPT ![ghost] = @ + 1]
    BY <1>1, <2>1, <2>2, SwapFacts
  <2>4. ASSUME NEW k \in Keys
        PROVE  /\ s.in_list[k] \in {"b1", "b2", "no_list"} =>
                    t.in_list[k] = s.in_list[k]
               /\ s.in_list[k] \in Lists => t.in_list[k] \in Lists
    <3>1. top \notin {"b1", "b2", "no_list"}
      BY DEF top
    <3> QED
      BY <1>1, <1>3, <2>1, <2>3, <3>1
  <2>5. s.len[top] >= 1
    BY <1>4, <1>7
  <2>6. Demoted(s, t)
    BY <2>3, <2>5 DEF Demoted, top, ghost
  <2> QED
    BY <2>3, <2>4, <2>6 DEF t
<1> QED
  BY <1>6, <1>7

\* Moving entries between lists does not disturb the reference counts.
LEMMA OwnedMoved ==
  ASSUME NEW s, NEW t, NEW users, Owned(s, users), SameRest(s, t),
         \A k \in Keys : t.in_list[k] = "no_list" <=> s.in_list[k] = "no_list"
  PROVE  Owned(t, users)
BY DEF Owned, SameRest

\* What the policy does to the entries when it makes room.
Kept(s, t, users) ==
  /\ Linked(t) /\ Owned(t, users) /\ t.map \subseteq s.map
  /\ \A k \in Keys : s.in_list[k] = "no_list" => t.in_list[k] = "no_list"

\* The eviction of the LRU of a list that has one: the entry is freed unless a
\* client holds it.
LEMMA EvictFacts ==
  ASSUME NEW s, Linked(s), NEW users \in [Keys -> Nat], Owned(s, users),
         NEW l \in Lists, s.len[l] >= 1
  PROVE  LET t == Evict(s, l)
         IN  /\ Kept(s, t, users)
             /\ t.len = [s.len EXCEPT ![l] = @ - 1]
             /\ t.target_t1 = s.target_t1 /\ t.segv = s.segv
<1> DEFINE x == LRU(s, l)
           d == ListDel(s, l, x)
           t == Evict(s, l)
<1>1. ~IsEmpty(s, l) /\ x \in Keys /\ s.in_list[x] = l
  BY LRUFacts
<1>2. t = Unref(d, x)
  BY <1>1 DEF Evict
<1>3. /\ s.in_list \in [Keys -> Lists \cup {"no_list"}]
      /\ s.ref_count \in [Keys -> Int] /\ l # "no_list"
  BY DEF Linked, State, Lists
<1> HIDE DEF x, t
<1>4. /\ Linked(d) /\ SameRest(s, d)
      /\ d.in_list = [s.in_list EXCEPT ![x] = "no_list"]
      /\ d.len = [s.len EXCEPT ![l] = @ - 1]
  BY <1>1, DelFacts
<1> HIDE DEF d
<1>5. /\ d.in_list[x] = "no_list" /\ d.ref_count = s.ref_count
      /\ d.map = s.map /\ d.target_t1 = s.target_t1 /\ d.segv = s.segv
  BY <1>1, <1>3, <1>4 DEF SameRest
<1>6. s.ref_count[x] = users[x] + 1 /\ users[x] \in Nat /\ x \in s.map
  BY <1>1, <1>3 DEF Owned
<1>7. /\ Linked(t) /\ t.in_list = d.in_list /\ t.len = d.len
      /\ t.ref_count = [d.ref_count EXCEPT ![x] = @ - 1]
      /\ t.map = IF d.ref_count[x] > 1 THEN d.map ELSE d.map \ {x}
      /\ t.target_t1 = d.target_t1 /\ t.segv = d.segv
  <2>1. Linked(d) /\ d.ref_count[x] >= 1
    BY <1>4, <1>5, <1>6
  <2> QED
    BY <1>1, <1>2, <1>5, <2>1, UnrefFacts
<1>8. Owned(t, users)
  <2> SUFFICES ASSUME NEW k \in Keys
               PROVE  /\ t.ref_count[k] =
                           users[k] + (IF t.in_list[k] = "no_list" THEN 0 ELSE 1)
                      /\ k \in t.map <=> t.ref_count[k] > 0
    BY DEF Owned
  <2>1. CASE k = x
    BY <1>1, <1>3, <1>4, <1>5, <1>6, <1>7, <2>1
  <2>2. CASE k # x
    <3>1. t.ref_count[k] = s.ref_count[k] /\ t.in_list[k] = s.in_list[k]
      BY <1>1, <1>3, <1>4, <1>5, <1>7, <2>2
    <3>2. k \in t.map <=> k \in s.map
      BY <1>5, <1>7, <2>2
    <3> QED
      BY <3>1, <3>2 DEF Owned
  <2> QED
    BY <2>1, <2>2
<1>9. Kept(s, t, users)
  <2>1. \A k \in Keys : t.in_list[k] = s.in_list[k] \/ t.in_list[k] = "no_list"
    BY <1>1, <1>3, <1>4, <1>7
  <2>2. t.map \subseteq s.map
    BY <1>5, <1>7
  <2> QED
    BY <1>7, <1>8, <2>1, <2>2 DEF Kept
<1> QED
  BY <1>4, <1>5, <1>7, <1>9 DEF t

\* The eviction from an empty list: nothing is changed but the process is gone.
LEMMA EvictEmpty ==
  ASSUME NEW s, Linked(s), NEW l \in Lists, s.len[l] = 0
  PROVE  LET t == Evict(s, l)
         IN  /\ Linked(t) /\ t.segv = TRUE /\ t.in_list = s.in_list /\ t.len = s.len
             /\ t.ref_count = s.ref_count /\ t.map = s.map
<1> DEFINE t == Evict(s, l)
<1>1. t = [s EXCEPT !.segv = TRUE]
  BY LRUFacts DEF Evict
<1>2. s \in State
  BY DEF Linked
<1>3. /\ t.lists = s.lists /\ t.in_list = s.in_list /\ t.len = s.len
      /\ t.ref_count = s.ref_count /\ t.map = s.map /\ t.segv = TRUE
  BY <1>1, <1>2 DEF State
<1>4. t \in State
  BY <1>1, <1>2 DEF State
<1> QED
  BY <1>3, <1>4 DEF Linked

\* An eviction, of whatever list.
LEMMA EvictKeeps ==
  ASSUME NEW s, Linked(s), NEW users \in [Keys -> Nat], Owned(s, users),
         NEW l \in Lists
  PROVE  Kept(s, Evict(s, l), users)
<1>1. s.len[l] \in Nat
  BY LRUFacts
<1> DEFINE t == Evict(s, l)
<1>2. CASE s.len[l] = 0
  <2>1. /\ Linked(t) /\ t.in_list = s.in_list
        /\ t.ref_count = s.ref_count /\ t.map = s.map
    BY <1>2, EvictEmpty
  <2> HIDE DEF t
  <2>2. Kept(s, t, users)
    BY <2>1 DEF Kept, Owned
  <2> QED
    BY <2>2 DEF t
<1>3. CASE s.len[l] >= 1
  BY <1>3, EvictFacts
<1> QED
  BY <1>1, <1>2, <1>3

\* A replacement.
LEMMA ReplaceKeeps ==
  ASSUME NEW s, Linked(s), NEW users, Owned(s, users), NEW fromB2 \in BOOLEAN
  PROVE  Kept(s, Replace(s, fromB2), users)
<1> DEFINE t == Replace(s, fromB2)
<1>1. s.in_list \in [Keys -> Lists \cup {"no_list"}] /\ "no_list" \notin Lists
  BY DEF Linked, State, Lists
<1>2. /\ Linked(t) /\ SameRest(s, t)
      /\ \A k \in Keys :
           /\ s.in_list[k] \in {"b1", "b2", "no_list"} =>
                t.in_list[k] = s.in_list[k]
           /\ s.in_list[k] \in Lists => t.in_list[k] \in Lists
  BY ReplaceFacts
<1> HIDE DEF t
<1>3. \A k \in Keys : t.in_list[k] = "no_list" <=> s.in_list[k] = "no_list"
  BY <1>1, <1>2
<1>4. Owned(t, users)
  BY <1>2, <1>3, OwnedMoved
<1> QED
  BY <1>2, <1>3, <1>4 DEF Kept, SameRest, t

\* Making room twice is making room.
LEMMA KeptTwice ==
  ASSUME NEW s, NEW t, NEW u, NEW users, Kept(s, t, users), Kept(t, u, users)
  PROVE  Kept(s, u, users)
BY DEF Kept

\* on_new_added makes room without losing or inventing an entry.
LEMMA OnNewAddedKeeps ==
  ASSUME NEW s, Linked(s), NEW users \in [Keys -> Nat], Owned(s, users)
  PROVE  Kept(s, OnNewAdded(s), users)
<1>0. "b1" \in Lists /\ "b2" \in Lists /\ "t1" \in Lists
  BY DEF Lists
<1>1. ASSUME NEW l \in Lists
      PROVE  /\ Kept(s, Evict(s, l), users)
             /\ Kept(s, Replace(Evict(s, l), FALSE), users)
  <2>1. Kept(s, Evict(s, l), users)
    BY EvictKeeps
  <2> DEFINE e == Evict(s, l)
  <2>2. Linked(e) /\ Owned(e, users)
    BY <2>1 DEF Kept
  <2> HIDE DEF e
  <2>3. Kept(e, Replace(e, FALSE), users)
    BY <2>2, ReplaceKeeps
  <2> QED
    BY <2>1, <2>3, KeptTwice DEF e
<1>2. Kept(s, Replace(s, FALSE), users)
  BY ReplaceKeeps
<1>3. Kept(s, s, users)
  BY DEF Kept
<1>4. OnNewAdded(s) \in {Replace(Evict(s, "b1"), FALSE), Evict(s, "t1"),
                         Replace(Evict(s, "b2"), FALSE), Replace(s, FALSE), s}
  BY DEF OnNewAdded
<1> QED
  BY <1>0, <1>1, <1>2, <1>3, <1>4

\* ... and there is room afterwards, and something to evict, if the bounds held.
LEMMA OnNewAddedRoom ==
  ASSUME NEW s, Linked(s), NEW users \in [Keys -> Nat], Owned(s, users),
         ~s.segv, Within(s), MaxSize > 0
  PROVE  LET t == OnNewAdded(s) IN HasRoom(t) /\ ~t.segv
<1> DEFINE t == OnNewAdded(s)
           len_l1 == s.len["t1"] + s.len["b1"]
           total  == len_l1 + s.len["t2"] + s.len["b2"]
<1>0. "b1" \in Lists /\ "b2" \in Lists /\ "t1" \in Lists /\ "t2" \in Lists
  BY DEF Lists
<1>1. /\ s.len["t1"] \in Nat /\ s.len["t2"] \in Nat
      /\ s.len["b1"] \in Nat /\ s.len["b2"] \in Nat
      /\ s.len \in [Lists -> Int] /\ s.target_t1 \in Nat
      /\ s.target_t1 <= MaxSize /\ MaxSize \in Nat
  BY CounterFacts
\* replace after the eviction of a ghost, or of none.
<1>2. ASSUME NEW e, Linked(e), ~e.segv, e.target_t1 = s.target_t1,
             e.len["t1"] = s.len["t1"], e.len["t2"] = s.len["t2"],
             e.len["t1"] < MaxSize, e.len["t1"] + e.len["b1"] < MaxSize,
             e.len["t1"] + e.len["t2"] + e.len["b1"] + e.len["b2"] < 2 * MaxSize
      PROVE  HasRoom(Replace(e, FALSE)) /\ ~Replace(e, FALSE).segv
  <2> DEFINE r == Replace(e, FALSE)
  <2>1. /\ SameRest(e, r) /\ (r.len = e.len \/ Demoted(e, r))
        /\ (e.segv \/ e.len["t2"] = 0 \/ Demoted(e, r))
    BY <1>2, ReplaceFacts
  <2> HIDE DEF r
  <2>2. /\ e.len["b1"] \in Nat /\ e.len["b2"] \in Nat /\ e.len \in [Lists -> Int]
    BY <1>2, CounterFacts
  <2>3. ASSUME Demoted(e, r) PROVE HasRoom(r)
    <3>1. \/ /\ r.len["t1"] = e.len["t1"] - 1 /\ r.len["t2"] = e.len["t2"]
             /\ r.len["b1"] = e.len["b1"] + 1 /\ r.len["b2"] = e.len["b2"]
          \/ /\ r.len["t1"] = e.len["t1"] /\ r.len["t2"] = e.len["t2"] - 1
             /\ r.len["b1"] = e.len["b1"] /\ r.len["b2"] = e.len["b2"] + 1
      BY <1>0, <2>2, <2>3 DEF Demoted
    <3> QED
      BY <1>1, <1>2, <2>2, <3>1 DEF HasRoom, Within
  <2>4. ASSUME r.len = e.len, e.len["t2"] = 0 PROVE HasRoom(r)
    BY <1>1, <1>2, <2>2, <2>4 DEF HasRoom
  <2>5. ~r.segv
    BY <1>2, <2>1 DEF SameRest
  <2>6. HasRoom(r)
    BY <1>2, <2>1, <2>3, <2>4
  <2> QED
    BY <2>5, <2>6 DEF r
<1>3. CASE len_l1 >= MaxSize /\ s.len["t1"] < MaxSize
  <2> DEFINE e == Evict(s, "b1")
  <2>1. s.len["b1"] >= 1
    BY <1>1, <1>3
  <2>2. /\ Kept(s, e, users) /\ e.len = [s.len EXCEPT !["b1"] = @ - 1]
        /\ e.target_t1 = s.target_t1 /\ e.segv = s.segv
    BY <1>0, <2>1, EvictFacts
  <2> HIDE DEF e
  <2>3. /\ e.len["t1"] = s.len["t1"] /\ e.len["t2"] = s.len["t2"]
        /\ e.len["b1"] = s.len["b1"] - 1 /\ e.len["b2"] = s.len["b2"]
    BY <1>0, <1>1, <2>2
  <2>4. t = Replace(e, FALSE)
    BY <1>3 DEF OnNewAdded, e
  <2>5. /\ e.len["t1"] < MaxSize /\ e.len["t1"] + e.len["b1"] < MaxSize
        /\ e.len["t1"] + e.len["t2"] + e.len["b1"] + e.len["b2"] < 2 * MaxSize
    BY <1>1, <1>3, <2>3 DEF Within
  <2> QED
    BY <1>2, <2>2, <2>3, <2>4, <2>5 DEF Kept
<1>4. CASE len_l1 >= MaxSize /\ ~(s.len["t1"] < MaxSize)
  <2>1. s.len["t1"] >= 1
    BY <1>1, <1>4
  <2>2. t = Evict(s, "t1")
    BY <1>4 DEF OnNewAdded
  <2> HIDE DEF t
  <2>3. t.len = [s.len EXCEPT !["t1"] = @ - 1] /\ t.segv = s.segv
    BY <1>0, <2>1, <2>2, EvictFacts
  <2>4. /\ t.len["t1"] = s.len["t1"] - 1 /\ t.len["t2"] = s.len["t2"]
        /\ t.len["b1"] = s.len["b1"] /\ t.len["b2"] = s.len["b2"]
    BY <1>0, <1>1, <2>3
  <2> QED
    BY <1>1, <2>3, <2>4 DEF HasRoom, Within, t
<1>5. CASE ~(len_l1 >= MaxSize) /\ total >= 2 * MaxSize
  <2> DEFINE e == Evict(s, "b2")
  <2>1. s.len["b2"] >= 1
    BY <1>1, <1>5 DEF Within
  <2>2. /\ Kept(s, e, users) /\ e.len = [s.len EXCEPT !["b2"] = @ - 1]
        /\ e.target_t1 = s.target_t1 /\ e.segv = s.segv
    BY <1>0, <2>1, EvictFacts
  <2> HIDE DEF e
  <2>3. /\ e.len["t1"] = s.len["t1"] /\ e.len["t2"] = s.len["t2"]
        /\ e.len["b1"] = s.len["b1"] /\ e.len["b2"] = s.len["b2"] - 1
    BY <1>0, <1>1, <2>2
  <2>4. t = Replace(e, FALSE)
    BY <1>5 DEF OnNewAdded, e
  <2>5. /\ e.len["t1"] < MaxSize /\ e.len["t1"] + e.len["b1"] < MaxSize
        /\ e.len["t1"] + e.len["t2"] + e.len["b1"] + e.len["b2"] < 2 * MaxSize
    BY <1>1, <1>5, <2>3 DEF Within
  <2> QED
    BY <1>2, <2>2, <2>3, <2>4, <2>5 DEF Kept
<1>6. CASE ~(len_l1 >= MaxSize) /\ ~(total >= 2 * MaxSize) /\ total >= MaxSize
  <2>1. t = Replace(s, FALSE)
    BY <1>6 DEF OnNewAdded
  <2>2. /\ s.len["t1"] < MaxSize /\ s.len["t1"] + s.len["b1"] < MaxSize
        /\ s.len["t1"] + s.len["t2"] + s.len["b1"] + s.len["b2"] < 2 * MaxSize
    BY <1>1, <1>6
  <2> QED
    BY <1>2, <2>1, <2>2
<1>7. CASE ~(len_l1 >= MaxSize) /\ ~(total >= 2 * MaxSize) /\ ~(total >= MaxSize)
  <2>1. t = s
    BY <1>7 DEF OnNewAdded
  <2> HIDE DEF t
  <2> QED
    BY <1>1, <1>7, <2>1 DEF HasRoom, t
<1> QED
  BY <1>3, <1>4, <1>5, <1>6, <1>7

\* The target stays between 0 and max_size, whatever the ratio of the ghosts.
LEMMA TargetFacts ==
  ASSUME NEW s, Linked(s)
  PROVE  /\ s.len["b1"] >= 1 => TargetB1(s) \in 0..MaxSize
         /\ s.len["b2"] >= 1 => TargetB2(s) \in 0..MaxSize
<1>1. /\ s.len["b1"] \in Nat /\ s.len["b2"] \in Nat /\ s.target_t1 \in Nat
      /\ s.target_t1 <= MaxSize /\ MaxSize \in Nat
  BY CounterFacts
<1>2. ASSUME NEW m \in Nat, NEW n \in Nat, n >= 1 PROVE m \div n \in Int
  BY <1>2
<1>3. ASSUME s.len["b1"] >= 1 PROVE TargetB1(s) \in 0..MaxSize
  <2> DEFINE q == s.len["b2"] \div s.len["b1"]
  <2>1. q \in Int
    BY <1>1, <1>2, <1>3
  <2> HIDE DEF q
  <2>2. Max2(1, q) \in Int /\ Max2(1, q) >= 1
    BY <2>1 DEF Max2
  <2>3. TargetB1(s) = Min2(MaxSize, s.target_t1 + Max2(1, q))
    BY DEF TargetB1, q
  <2> QED
    BY <1>1, <2>2, <2>3 DEF Min2
<1>4. ASSUME s.len["b2"] >= 1 PROVE TargetB2(s) \in 0..MaxSize
  <2> DEFINE q == s.len["b1"] \div s.len["b2"]
  <2>1. q \in Int
    BY <1>1, <1>2, <1>4
  <2> HIDE DEF q
  <2>2. Max2(1, q) \in Int /\ Max2(1, q) >= 1
    BY <2>1 DEF Max2
  <2>3. TargetB2(s) = Max2(0, s.target_t1 - Max2(1, q))
    BY DEF TargetB2, q
  <2> DEFINE y == Max2(1, q)
  <2>4. y \in Int /\ y >= 1 /\ TargetB2(s) = Max2(0, s.target_t1 - y)
    BY <2>2, <2>3
  <2> HIDE DEF y
  <2> QED
    BY <1>1, <2>4 DEF Max2
<1> QED
  BY <1>3, <1>4

\* What a hit does to the entries: the one that is hit stays listed.
Touched(s, t, k, users) ==
  /\ Linked(t) /\ Owned(t, users) /\ t.in_list[k] \in Lists
  /\ t.map = s.map /\ t.ref_count = s.ref_count /\ t.segv = s.segv
  /\ ~s.segv /\ Within(s) /\ MaxSize > 0 => Within(t)

\* update_ghost_b1 and update_ghost_b2: replace has made room when the ghost
\* is fetched, if there was none.
LEMMA GhostFacts ==
  ASSUME NEW s, Linked(s), NEW users, Owned(s, users), NEW k \in Keys,
         NEW fetched \in BOOLEAN, s.in_list[k] \in {"b1", "b2"}
  PROVE  Touched(s, UpdateGhost(s, s.in_list[k], k, fetched), k, users)
<1> DEFINE l       == s.in_list[k]
           target  == IF l = "b1" THEN TargetB1(s) ELSE TargetB2(s)
           adapted == [s EXCEPT !.target_t1 = target]
           fromB2  == l = "b2"
           roomy   == Replace(adapted, fromB2)
           t       == UpdateGhost(s, l, k, fetched)
<1>0. "b1" \in Lists /\ "b2" \in Lists /\ "t1" \in Lists /\ "t2" \in Lists
      /\ "no_list" \notin Lists
  BY DEF Lists
<1>1. l \in Lists /\ s.len[l] >= 1
  BY <1>0, ListedFacts
<1>2. target \in 0..MaxSize
  BY <1>1, TargetFacts
<1>3. s \in State
  BY DEF Linked
<1> HIDE DEF target
<1>4. /\ adapted.lists = s.lists /\ adapted.in_list = s.in_list
      /\ adapted.len = s.len /\ adapted.ref_count = s.ref_count
      /\ adapted.map = s.map /\ adapted.segv = s.segv /\ adapted.target_t1 = target
  BY <1>3 DEF State
<1>5. adapted \in State
  BY <1>2, <1>3 DEF State
<1>6. t = IF fetched THEN ListSwap(roomy, l, "t2", k) ELSE roomy
  BY DEF UpdateGhost, target
<1>17. fromB2 \in BOOLEAN /\ (fromB2 <=> l = "b2")
  OBVIOUS
<1> HIDE DEF adapted, fromB2, t
<1>7. Linked(adapted) /\ Owned(adapted, users)
  BY <1>4, <1>5 DEF Linked, Owned
<1>8. /\ Linked(roomy) /\ SameRest(adapted, roomy)
      /\ roomy.len = adapted.len \/ Demoted(adapted, roomy)
      /\ \/ adapted.segv
         \/ adapted.len["t2"] = 0
            /\ (\/ adapted.len["t1"] = 0
                \/ adapted.len["t1"] < adapted.target_t1
                \/ adapted.len["t1"] = adapted.target_t1 /\ ~fromB2)
         \/ Demoted(adapted, roomy)
  BY <1>7, <1>17, ReplaceFacts
<1>9. Kept(adapted, roomy, users)
  BY <1>7, <1>17, ReplaceKeeps
<1>10. roomy.in_list[k] = l
  <2>1. \A j \in Keys : adapted.in_list[j] \in {"b1", "b2", "no_list"} =>
                           roomy.in_list[j] = adapted.in_list[j]
    BY <1>7, <1>17, ReplaceFacts
  <2> QED
    BY <1>4, <2>1
<1> HIDE DEF roomy
<1>11. /\ s.len["t1"] \in Nat /\ s.len["t2"] \in Nat
       /\ s.len["b1"] \in Nat /\ s.len["b2"] \in Nat
       /\ s.len \in [Lists -> Int] /\ MaxSize \in Nat
       /\ target \in Nat /\ target <= MaxSize
  BY <1>2, CounterFacts
<1>12. \/ roomy.len = s.len
       \/ /\ roomy.len["t1"] = s.len["t1"] - 1 /\ roomy.len["t2"] = s.len["t2"]
          /\ roomy.len["b1"] = s.len["b1"] + 1 /\ roomy.len["b2"] = s.len["b2"]
       \/ /\ roomy.len["t1"] = s.len["t1"] /\ roomy.len["t2"] = s.len["t2"] - 1
          /\ roomy.len["b1"] = s.len["b1"] /\ roomy.len["b2"] = s.len["b2"] + 1
  BY <1>0, <1>4, <1>8, <1>11 DEF Demoted
<1>13. ASSUME ~s.segv, Within(s), MaxSize > 0
       PROVE  /\ Within(roomy)
              /\ roomy.len["t1"] + roomy.len["t2"] < MaxSize
  <2>1. Within(roomy)
    BY <1>11, <1>12, <1>13 DEF Within
  <2>2. CASE Demoted(adapted, roomy)
    <3>1. roomy.len["t1"] + roomy.len["t2"] = s.len["t1"] + s.len["t2"] - 1
      BY <1>0, <1>4, <1>11, <2>2 DEF Demoted
    <3> QED
      BY <1>11, <1>13, <2>1, <3>1 DEF Within
  <2>3. CASE /\ roomy.len = adapted.len /\ s.len["t2"] = 0
             /\ \/ s.len["t1"] = 0
                \/ s.len["t1"] < target
                \/ s.len["t1"] = target /\ ~(l = "b2")
    <3>1. l = "b1" => s.len["t1"] < MaxSize
      BY <1>1, <1>11, <1>13 DEF Within
    <3>2. l = "b1" \/ l = "b2"
      OBVIOUS
    <3>3. s.len["t1"] < MaxSize
      BY <1>11, <1>13, <2>3, <3>1, <3>2
    <3> QED
      BY <1>4, <1>11, <2>1, <2>3, <3>3
  <2> QED
    BY <1>4, <1>8, <1>13, <1>17, <2>1, <2>2, <2>3
<1>14. /\ roomy.map = s.map /\ roomy.ref_count = s.ref_count /\ roomy.segv = s.segv
  BY <1>4, <1>8 DEF SameRest
<1>15. CASE ~fetched
  <2>1. t = roomy /\ Linked(roomy) /\ Owned(roomy, users)
    BY <1>6, <1>9, <1>15 DEF Kept
  <2>2. Touched(s, roomy, k, users)
    BY <1>1, <1>10, <1>13, <1>14, <2>1 DEF Touched
  <2> QED
    BY <2>1, <2>2 DEF t
<1>16. CASE fetched
  <2>8. t = ListSwap(roomy, l, "t2", k) /\ Linked(roomy) /\ Owned(roomy, users)
    BY <1>6, <1>9, <1>16 DEF Kept
  <2>1. /\ Linked(t) /\ SameRest(roomy, t)
        /\ t.in_list = [roomy.in_list EXCEPT ![k] = "t2"]
        /\ t.len = [[roomy.len EXCEPT ![l] = @ - 1] EXCEPT !["t2"] = @ + 1]
    <3>1. l \in Lists /\ "t2" \in Lists
      BY <1>0, <1>1
    <3> QED
      BY <1>10, <2>8, <3>1, SwapFacts
  <2>2. roomy.in_list \in [Keys -> Lists \cup {"no_list"}] /\ roomy.len \in [Lists -> Int]
    BY <1>8 DEF Linked, State
  <2>3. /\ t.in_list[k] = "t2"
        /\ \A j \in Keys : t.in_list[j] = "no_list" <=> roomy.in_list[j] = "no_list"
    BY <1>0, <1>1, <1>10, <2>1, <2>2
  <2>4. Owned(t, users)
    <3>1. SameRest(roomy, t)
      BY <2>1
    <3> QED
      BY <2>3, <2>8, <3>1, OwnedMoved
  <2>5. /\ t.len["t1"] = roomy.len["t1"] /\ t.len["t2"] = roomy.len["t2"] + 1
        /\ \/ t.len["b1"] = roomy.len["b1"] - 1 /\ t.len["b2"] = roomy.len["b2"]
           \/ t.len["b1"] = roomy.len["b1"] /\ t.len["b2"] = roomy.len["b2"] - 1
    BY <1>0, <2>1, <2>2
  <2>6. ASSUME ~s.segv, Within(s), MaxSize > 0 PROVE Within(t)
    <3>1. /\ roomy.len["t1"] \in Nat /\ roomy.len["t2"] \in Nat
          /\ roomy.len["b1"] \in Nat /\ roomy.len["b2"] \in Nat
      BY <1>8, CounterFacts
    <3>2. Within(roomy) /\ roomy.len["t1"] + roomy.len["t2"] < MaxSize
      BY <1>13, <2>6
    <3> QED
      BY <1>11, <2>5, <3>1, <3>2 DEF Within
  <2>7. t.map = s.map /\ t.ref_count = s.ref_count /\ t.segv = s.segv
    BY <1>14, <2>1 DEF SameRest
  <2> QED
    BY <1>0, <2>1, <2>3, <2>4, <2>6, <2>7 DEF Touched, t
<1> QED
  BY <1>15, <1>16 DEF t

\* update_cache
LEMMA UpdateCacheFacts ==
  ASSUME NEW s, Linked(s), NEW users, Owned(s, users), NEW k \in Keys,
         NEW fetched \in BOOLEAN, s.in_list[k] \in Lists
  PROVE  Touched(s, UpdateCache(s, k, fetched), k, users)
<1> DEFINE t == UpdateCache(s, k, fetched)
<1>0. "t1" \in Lists /\ "t2" \in Lists /\ "no_list" \notin Lists
  BY DEF Lists
<1>1. /\ s.len["t1"] \in Nat /\ s.len["t2"] \in Nat
      /\ s.len["b1"] \in Nat /\ s.len["b2"] \in Nat
      /\ s.len \in [Lists -> Int] /\ MaxSize \in Nat
  BY CounterFacts
<1>5. s.in_list \in [Keys -> Lists \cup {"no_list"}]
  BY DEF Linked, State
<1>2. CASE s.in_list[k] = "t1"
  <2>1. t = ListSwap(s, "t1", "t2", k)
    BY <1>2 DEF UpdateCache
  <2> HIDE DEF t
  <2>2. /\ Linked(t) /\ SameRest(s, t)
        /\ t.in_list = [s.in_list EXCEPT ![k] = "t2"]
        /\ t.len = [[s.len EXCEPT !["t1"] = @ - 1] EXCEPT !["t2"] = @ + 1]
    BY <1>0, <1>2, <2>1, SwapFacts
  <2>3. /\ t.in_list[k] = "t2"
        /\ \A j \in Keys : t.in_list[j] = "no_list" <=> s.in_list[j] = "no_list"
    BY <1>2, <1>5, <2>2
  <2>4. Owned(t, users)
    <3>1. SameRest(s, t)
      BY <2>2
    <3> QED
      BY <2>3, <3>1, OwnedMoved
  <2>5. /\ t.len["t1"] = s.len["t1"] - 1 /\ t.len["t2"] = s.len["t2"] + 1
        /\ t.len["b1"] = s.len["b1"] /\ t.len["b2"] = s.len["b2"]
    BY <1>1, <2>2 DEF Lists
  <2>6. Within(s) => Within(t)
    BY <1>1, <2>5 DEF Within
  <2> QED
    BY <1>0, <2>2, <2>3, <2>4, <2>6 DEF Touched, SameRest, t
<1>3. CASE s.in_list[k] = "t2"
  <2>1. t = MakeFirst(s, "t2", k)
    BY <1>3 DEF UpdateCache
  <2> HIDE DEF t
  <2>2. Linked(t) /\ SameRest(s, t) /\ t.in_list = s.in_list /\ t.len = s.len
    BY <1>0, <1>3, <2>1, FirstFacts
  <2>3. Owned(t, users)
    BY <2>2, OwnedMoved
  <2> QED
    BY <2>2, <2>3 DEF Touched, SameRest, Within, t
<1>4. CASE s.in_list[k] \in {"b1", "b2"}
  <2>1. t = UpdateGhost(s, s.in_list[k], k, fetched)
    BY <1>4 DEF UpdateCache
  <2> QED
    BY <1>4, <2>1, GhostFacts
<1> QED
  BY <1>2, <1>3, <1>4 DEF Lists

-----------------------------------------------------------------------------
(* The operations of clients.  users[k] is how many hold the entry of k. *)

More(users, k) == [users EXCEPT ![k] = @ + 1]
Less(users, k) == [users EXCEPT ![k] = @ - 1]

\* Another reference, for another client.
LEMMA RefKeeps ==
  ASSUME NEW s, Linked(s), NEW users \in [Keys -> Nat], Owned(s, users),
         NEW k \in Keys, k \in s.map
  PROVE  LET t == Ref(s, k)
         IN  /\ Linked(t) /\ Owned(t, More(users, k))
             /\ t.in_list = s.in_list /\ t.len = s.len /\ t.map = s.map
             /\ t.segv = s.segv
<1> DEFINE t == Ref(s, k)
<1>1. /\ Linked(t) /\ t.in_list = s.in_list /\ t.len = s.len
      /\ t.ref_count = [s.ref_count EXCEPT ![k] = @ + 1]
      /\ t.map = s.map /\ t.segv = s.segv
  BY RefFacts
<1>2. s.ref_count \in [Keys -> Int]
  BY DEF Linked, State
<1> HIDE DEF t
<1>3. Owned(t, More(users, k))
  <2> SUFFICES ASSUME NEW j \in Keys
               PROVE  /\ t.ref_count[j] = More(users, k)[j] +
                           (IF t.in_list[j] = "no_list" THEN 0 ELSE 1)
                      /\ j \in t.map <=> t.ref_count[j] > 0
    BY DEF Owned
  <2>1. /\ s.ref_count[j] = users[j] + (IF s.in_list[j] = "no_list" THEN 0 ELSE 1)
        /\ j \in s.map <=> s.ref_count[j] > 0
    BY DEF Owned
  <2>2. CASE j = k
    <3>1. t.ref_count[j] = s.ref_count[j] + 1 /\ More(users, k)[j] = users[j] + 1
      BY <1>1, <1>2, <2>2 DEF More
    <3> QED
      BY <1>1, <1>2, <2>1, <2>2, <3>1
  <2>3. CASE j # k
    <3>1. t.ref_count[j] = s.ref_count[j] /\ More(users, k)[j] = users[j]
      BY <1>1, <1>2, <2>3 DEF More
    <3> QED
      BY <1>1, <2>1, <3>1
  <2> QED
    BY <2>2, <2>3
<1> QED
  BY <1>1, <1>3 DEF t

\* http2d_cache_get of a listed entry.
LEMMA HitFacts ==
  ASSUME NEW s, Linked(s), NEW users \in [Keys -> Nat], Owned(s, users),
         NEW k \in Keys, NEW fetched \in BOOLEAN, s.in_list[k] \in Lists
  PROVE  LET t == Ref(UpdateCache(s, k, fetched), k)
         IN  /\ Linked(t) /\ Owned(t, More(users, k))
             /\ t.in_list[k] \in Lists /\ t.map = s.map /\ t.segv = s.segv
             /\ ~s.segv /\ Within(s) /\ MaxSize > 0 => Within(t)
<1> DEFINE u == UpdateCache(s, k, fetched)
           t == Ref(u, k)
<1>1. Touched(s, u, k, users)
  BY UpdateCacheFacts
<1> HIDE DEF u
<1>2. Linked(u) /\ Owned(u, users)
  BY <1>1 DEF Touched
<1>3. k \in u.map
  <2>1. k \in s.map <=> s.ref_count[k] > 0
    BY DEF Owned
  <2>2. s.ref_count[k] = users[k] + 1 /\ users[k] \in Nat
    BY DEF Owned, Lists
  <2> QED
    BY <1>1, <2>1, <2>2 DEF Touched
<1>4. /\ Linked(t) /\ Owned(t, More(users, k))
      /\ t.in_list = u.in_list /\ t.len = u.len /\ t.map = u.map /\ t.segv = u.segv
  BY <1>2, <1>3, RefKeeps
<1> HIDE DEF t
<1> QED
  BY <1>1, <1>4 DEF Touched, Within, t, u

\* An entry in no list is put into T1, with a reference of the cache and one
\* of a client: http2d_cache_get of an evicted entry, and the end of a miss.
LEMMA ListedAgain ==
  ASSUME NEW s, Linked(s), NEW users \in [Keys -> Nat], NEW k \in Keys,
         \A j \in Keys : /\ s.ref_count[j] = users[j] +
                              (IF s.in_list[j] = "no_list" THEN 0 ELSE 1)
                         /\ j # k => (j \in s.map <=> s.ref_count[j] > 0),
         k \in s.map, s.in_list[k] = "no_list"
  PROVE  LET t == Ref(ListAdd(Ref(s, k), "t1", k), k)
         IN  /\ Linked(t) /\ Owned(t, More(users, k))
             /\ t.in_list[k] = "t1" /\ t.map = s.map /\ t.segv = s.segv
             /\ t.len = [s.len EXCEPT !["t1"] = @ + 1]
<1> DEFINE a == Ref(s, k)
           b == ListAdd(a, "t1", k)
           t == Ref(b, k)
<1>0. "t1" \in Lists /\ "t1" # "no_list"
  BY DEF Lists
<1>1. /\ Linked(a) /\ a.in_list = s.in_list /\ a.len = s.len
      /\ a.ref_count = [s.ref_count EXCEPT ![k] = @ + 1]
      /\ a.map = s.map /\ a.segv = s.segv
  BY RefFacts
<1> HIDE DEF a
<1>2. Linked(a) /\ a.in_list[k] = "no_list"
  BY <1>1
<1>3. /\ Linked(b) /\ SameRest(a, b)
      /\ b.in_list = [a.in_list EXCEPT ![k] = "t1"]
      /\ b.len = [a.len EXCEPT !["t1"] = @ + 1]
  BY <1>0, <1>2, AddFacts, SMTT(30)
<1> HIDE DEF b
<1>4. /\ Linked(t) /\ t.in_list = b.in_list /\ t.len = b.len
      /\ t.ref_count = [b.ref_count EXCEPT ![k] = @ + 1]
      /\ t.map = b.map /\ t.segv = b.segv
  BY <1>3, RefFacts
<1> HIDE DEF t
<1>5. /\ s.ref_count \in [Keys -> Int]
      /\ s.in_list \in [Keys -> Lists \cup {"no_list"}]
  BY DEF Linked, State
<1>6. /\ t.ref_count = [[s.ref_count EXCEPT ![k] = @ + 1] EXCEPT ![k] = @ + 1]
      /\ t.in_list = [s.in_list EXCEPT ![k] = "t1"] /\ t.map = s.map
  BY <1>1, <1>3, <1>4 DEF SameRest
<1>7. Owned(t, More(users, k))
  <2> SUFFICES ASSUME NEW j \in Keys
               PROVE  /\ t.ref_count[j] = More(users, k)[j] +
                           (IF t.in_list[j] = "no_list" THEN 0 ELSE 1)
                      /\ j \in t.map <=> t.ref_count[j] > 0
    BY DEF Owned
  <2>1. CASE j = k
    <3>1. /\ t.ref_count[j] = s.ref_count[j] + 1 + 1 /\ t.in_list[j] = "t1"
          /\ More(users, k)[j] = users[j] + 1
      BY <1>5, <1>6, <2>1 DEF More
    <3>2. users[j] \in Nat /\ s.ref_count[j] = users[j]
      BY <2>1
    <3> QED
      BY <1>0, <1>6, <2>1, <3>1, <3>2
  <2>2. CASE j # k
    <3>1. /\ t.ref_count[j] = s.ref_count[j] /\ t.in_list[j] = s.in_list[j]
          /\ More(users, k)[j] = users[j]
      BY <1>5, <1>6, <2>2 DEF More
    <3> QED
      BY <1>6, <2>2, <3>1
  <2> QED
    BY <2>1, <2>2
<1>8. t.in_list[k] = "t1"
  BY <1>5, <1>6
<1>9. t.segv = s.segv /\ t.len = [s.len EXCEPT !["t1"] = @ + 1]
  BY <1>1, <1>3, <1>4 DEF SameRest
<1> QED
  BY <1>4, <1>6, <1>7, <1>8, <1>9 DEF a, b, t

\* http2d_cache_get of an entry that was evicted while it was in use.
LEMMA LingeringFacts ==
  ASSUME NEW s, Linked(s), NEW users \in [Keys -> Nat], Owned(s, users),
         NEW k \in Keys, k \in s.map, s.in_list[k] = "no_list"
  PROVE  LET t == Ref(ListAdd(Ref(s, k), "t1", k), k)
         IN  /\ Linked(t) /\ Owned(t, More(users, k))
             /\ t.in_list[k] = "t1" /\ t.map = s.map /\ t.segv = s.segv
<1>1. \A j \in Keys : /\ s.ref_count[j] = users[j] +
                           (IF s.in_list[j] = "no_list" THEN 0 ELSE 1)
                      /\ j # k => (j \in s.map <=> s.ref_count[j] > 0)
  BY DEF Owned
<1> QED
  BY <1>1, ListedAgain

\* The end of a miss: the new entry is in T1, where there was room for it.
LEMMA CreatedFacts ==
  ASSUME NEW s, Linked(s), NEW users \in [Keys -> Nat], Owned(s, users),
         NEW k \in Keys, k \notin s.map, ~s.segv
  PROVE  LET t == Created(s, k)
         IN  /\ Linked(t) /\ Owned(t, More(users, k))
             /\ t.in_list[k] = "t1" /\ t.map = s.map \cup {k} /\ ~t.segv
             /\ HasRoom(s) => Within(t)
<1> DEFINE n == [s EXCEPT !.map = @ \cup {k}]
           t == Created(s, k)
<1>1. s \in State
  BY DEF Linked
<1>2. /\ n.lists = s.lists /\ n.in_list = s.in_list /\ n.len = s.len
      /\ n.ref_count = s.ref_count /\ n.segv = s.segv /\ n.map = s.map \cup {k}
  BY <1>1 DEF State
<1>3. n \in State
  BY <1>1 DEF State
<1>4. t = Ref(ListAdd(Ref(n, k), "t1", k), k)
  BY DEF Created
<1> HIDE DEF n, t
<1>5. Linked(n)
  BY <1>2, <1>3 DEF Linked
<1>6. n.in_list[k] = "no_list" /\ k \in n.map
  <2>1. /\ s.ref_count[k] = users[k] + (IF s.in_list[k] = "no_list" THEN 0 ELSE 1)
        /\ ~(s.ref_count[k] > 0) /\ users[k] \in Nat
    BY DEF Owned
  <2> QED
    BY <1>2, <2>1
<1>7. \A j \in Keys : /\ n.ref_count[j] = users[j] +
                           (IF n.in_list[j] = "no_list" THEN 0 ELSE 1)
                      /\ j # k => (j \in n.map <=> n.ref_count[j] > 0)
  BY <1>2 DEF Owned
<1>8. /\ Linked(t) /\ Owned(t, More(users, k))
      /\ t.in_list[k] = "t1" /\ t.map = n.map /\ t.segv = n.segv
      /\ t.len = [n.len EXCEPT !["t1"] = @ + 1]
  BY <1>4, <1>5, <1>6, <1>7, ListedAgain
<1>9. HasRoom(s) => Within(t)
  <2>1. /\ s.len["t1"] \in Nat /\ s.len["t2"] \in Nat /\ s.len["b1"] \in Nat
        /\ s.len["b2"] \in Nat /\ s.len \in [Lists -> Int] /\ MaxSize \in Nat
    BY CounterFacts
  <2>2. /\ t.len["t1"] = s.len["t1"] + 1 /\ t.len["t2"] = s.len["t2"]
        /\ t.len["b1"] = s.len["b1"] /\ t.len["b2"] = s.len["b2"]
    BY <1>2, <1>8, <2>1 DEF Lists
  <2> QED
    BY <2>1, <2>2 DEF HasRoom, Within
<1> QED
  BY <1>2, <1>8, <1>9 DEF t

\* http2d_cache_entry_unref by a client that has the entry.
LEMMA ReleaseFacts ==
  ASSUME NEW s, Linked(s), NEW users \in [Keys -> Nat], Owned(s, users),
         NEW k \in Keys, users[k] >= 1
  PROVE  LET t == Unref(s, k)
         IN  /\ Linked(t) /\ Owned(t, Less(users, k)) /\ t.in_list = s.in_list
             /\ t.len = s.len /\ t.segv = s.segv
             /\ t.map \subseteq s.map
             /\ \A j \in Keys : j # k \/ users[k] > 1 => (j \in t.map <=> j \in s.map)
<1> DEFINE t == Unref(s, k)
<1>1. s.ref_count \in [Keys -> Int] /\ users[k] \in Nat
  BY DEF Linked, State
<1>2. /\ s.ref_count[k] = users[k] + (IF s.in_list[k] = "no_list" THEN 0 ELSE 1)
      /\ k \in s.map <=> s.ref_count[k] > 0
  BY DEF Owned
<1>3. s.ref_count[k] >= 1 /\ (s.ref_count[k] = 1 => s.in_list[k] = "no_list")
  BY <1>1, <1>2
<1>4. /\ Linked(t) /\ t.in_list = s.in_list /\ t.len = s.len
      /\ t.ref_count = [s.ref_count EXCEPT ![k] = @ - 1]
      /\ t.map = IF s.ref_count[k] > 1 THEN s.map ELSE s.map \ {k}
      /\ t.segv = s.segv
  BY <1>3, UnrefFacts
<1> HIDE DEF t
<1>5. Owned(t, Less(users, k))
  <2> SUFFICES ASSUME NEW j \in Keys
               PROVE  /\ t.ref_count[j] = Less(users, k)[j] +
                           (IF t.in_list[j] = "no_list" THEN 0 ELSE 1)
                      /\ j \in t.map <=> t.ref_count[j] > 0
    BY DEF Owned
  <2>1. CASE j = k
    <3>1. t.ref_count[j] = s.ref_count[j] - 1 /\ Less(users, k)[j] = users[j] - 1
      BY <1>1, <1>4, <2>1 DEF Less
    <3> QED
      BY <1>1, <1>2, <1>4, <2>1, <3>1
  <2>2. CASE j # k
    <3>1. t.ref_count[j] = s.ref_count[j] /\ Less(users, k)[j] = users[j]
      BY <1>1, <1>4, <2>2 DEF Less
    <3>2. j \in t.map <=> j \in s.map
      BY <1>4, <2>2
    <3>3. /\ s.ref_count[j] = users[j] + (IF s.in_list[j] = "no_list" THEN 0 ELSE 1)
          /\ j \in s.map <=> s.ref_count[j] > 0
      BY DEF Owned
    <3> QED
      BY <1>4, <3>1, <3>2, <3>3
  <2> QED
    BY <2>1, <2>2
<1>6. \A j \in Keys : j # k \/ users[k] > 1 => (j \in t.map <=> j \in s.map)
  BY <1>1, <1>2, <1>4
<1> QED
  BY <1>4, <1>5, <1>6 DEF t

-----------------------------------------------------------------------------
(* The clients' pointers. *)

HoldersIn(h, k) == {c \in Clients : h[c] = k}
UsersOf(h)      == [k \in Keys |-> Cardinality(HoldersIn(h, k))]

\* The holders of an entry can be counted.
LEMMA UsersType ==
  ASSUME NEW h
  PROVE  /\ UsersOf(h) \in [Keys -> Nat]
         /\ \A k \in Keys : IsFiniteSet(HoldersIn(h, k))
         /\ \A k \in Keys : UsersOf(h)[k] = Cardinality(HoldersIn(h, k))
<1>1. ASSUME NEW k \in Keys
      PROVE  IsFiniteSet(HoldersIn(h, k)) /\ Cardinality(HoldersIn(h, k)) \in Nat
  <2>1. HoldersIn(h, k) \in SUBSET Clients
    BY DEF HoldersIn
  <2>2. IsFiniteSet(HoldersIn(h, k))
    BY <2>1, ClientsAssumption, FS_Subset
  <2> QED
    BY <2>2, FS_CardinalityType
<1> QED
  BY <1>1 DEF UsersOf

\* Somebody holds an entry when its users are not none.
LEMMA HeldUsed ==
  ASSUME NEW h, NEW c \in Clients, h[c] \in Keys
  PROVE  UsersOf(h)[h[c]] >= 1
<1>1. c \in HoldersIn(h, h[c])
  BY DEF HoldersIn
<1>2. IsFiniteSet(HoldersIn(h, h[c])) /\ UsersOf(h)[h[c]] = Cardinality(HoldersIn(h, h[c]))
  BY UsersType
<1>3. Cardinality(HoldersIn(h, h[c])) # 0
  BY <1>1, <1>2, FS_EmptySet
<1>4. UsersOf(h)[h[c]] \in Nat
  BY UsersType
<1> QED
  BY <1>2, <1>3, <1>4

\* A client whose pointer is NULL takes an entry.
LEMMA UsersTaken ==
  ASSUME NEW h \in [Clients -> Keys \cup {NoKey}], NEW c \in Clients,
         h[c] = NoKey, NEW k \in Keys
  PROVE  UsersOf([h EXCEPT ![c] = k]) = More(UsersOf(h), k)
<1> DEFINE g == [h EXCEPT ![c] = k]
<1>1. ASSUME NEW j \in Keys PROVE UsersOf(g)[j] = More(UsersOf(h), k)[j]
  <2>1. UsersOf(g)[j] = Cardinality(HoldersIn(g, j))
    BY DEF UsersOf
  <2>2. IsFiniteSet(HoldersIn(h, j)) /\ UsersOf(h)[j] = Cardinality(HoldersIn(h, j))
    BY UsersType
  <2>3. CASE j = k
    <3>1. HoldersIn(g, j) = HoldersIn(h, j) \cup {c} /\ c \notin HoldersIn(h, j)
      BY <2>3, KeysAssumption DEF HoldersIn
    <3>2. Cardinality(HoldersIn(g, j)) = Cardinality(HoldersIn(h, j)) + 1
      BY <2>2, <3>1, FS_AddElement
    <3> QED
      BY <2>1, <2>2, <2>3, <3>2 DEF More, UsersOf
  <2>4. CASE j # k
    <3>1. HoldersIn(g, j) = HoldersIn(h, j)
      BY <2>4, KeysAssumption DEF HoldersIn
    <3> QED
      BY <2>1, <2>2, <2>4, <3>1 DEF More, UsersOf
  <2> QED
    BY <2>3, <2>4
<1> QED
  BY <1>1 DEF UsersOf, More

\* A client lets go of its entry.
LEMMA UsersLeft ==
  ASSUME NEW h \in [Clients -> Keys \cup {NoKey}], NEW c \in Clients, h[c] \in Keys
  PROVE  UsersOf([h EXCEPT ![c] = NoKey]) = Less(UsersOf(h), h[c])
<1> DEFINE g == [h EXCEPT ![c] = NoKey]
<1>1. ASSUME NEW j \in Keys PROVE UsersOf(g)[j] = Less(UsersOf(h), h[c])[j]
  <2>1. UsersOf(g)[j] = Cardinality(HoldersIn(g, j))
    BY DEF UsersOf
  <2>2. IsFiniteSet(HoldersIn(h, j)) /\ UsersOf(h)[j] = Cardinality(HoldersIn(h, j))
    BY UsersType
  <2>3. CASE j = h[c]
    <3>1. HoldersIn(g, j) = HoldersIn(h, j) \ {c} /\ c \in HoldersIn(h, j)
      BY <2>3, KeysAssumption DEF HoldersIn
    <3>2. Cardinality(HoldersIn(g, j)) = Cardinality(HoldersIn(h, j)) - 1
      BY <2>2, <3>1, FS_RemoveElement
    <3> QED
      BY <2>1, <2>2, <2>3, <3>2 DEF Less, UsersOf
  <2>4. CASE j # h[c]
    <3>1. HoldersIn(g, j) = HoldersIn(h, j)
      BY <2>4, KeysAssumption DEF HoldersIn
    <3> QED
      BY <2>1, <2>2, <2>4, <3>1 DEF Less, UsersOf
  <2> QED
    BY <2>3, <2>4
<1> QED
  BY <1>1 DEF UsersOf, Less

-----------------------------------------------------------------------------
(* The inductive invariant, action by action. *)

\* The lists and the reference counts are right in every state.
Sound ==
  /\ held \in [Clients -> Keys \cup {NoKey}] /\ relisted \in BOOLEAN
  /\ Linked(cache) /\ Owned(cache, UsersOf(held))

\* The bounds hold until an evicted entry comes back.  max_size 0, which the
\* configuration may ask for, is another matter: the first miss evicts from
\* an empty T1.
Bounded == MaxSize > 0 /\ ~relisted => Within(cache) /\ ~cache.segv

CacheInv == Sound /\ Bounded

\* The initial state.
LEMMA CacheInit == Init => CacheInv
<1> SUFFICES ASSUME Init PROVE CacheInv
  OBVIOUS
<1>1. cache.lists = [l \in Lists |-> <<>>] /\ cache.len = [l \in Lists |-> 0]
      /\ cache.in_list = [k \in Keys |-> "no_list"]
      /\ cache.ref_count = [k \in Keys |-> 0] /\ cache.map = {}
      /\ cache.target_t1 = 0 /\ cache.segv = FALSE
      /\ held = [c \in Clients |-> NoKey] /\ relisted = FALSE
  BY DEF Init
<1>2. cache \in State
  <2>1. [l \in Lists |-> <<>>] \in [Lists -> Seq(Keys)]
    BY EmptyFacts
  <2>2. 0 \in 0..MaxSize
    BY MaxSizeAssumption
  <2> QED
    BY <2>1, <2>2 DEF Init, State
<1>3. Linked(cache)
  <2>1. ASSUME NEW l \in Lists
        PROVE  /\ cache.len[l] = Len(cache.lists[l])
               /\ IsInjective(cache.lists[l])
               /\ \A k \in Keys : Contains(cache.lists[l], k) <=> cache.in_list[k] = l
    <3>1. cache.lists[l] = <<>> /\ cache.len[l] = 0
      BY <1>1
    <3>2. \A k \in Keys : cache.in_list[k] # l
      BY <1>1 DEF Lists
    <3> QED
      BY <3>1, <3>2 DEF IsInjective, Contains
  <2> QED
    BY <1>2, <2>1 DEF Linked
<1>4. Owned(cache, UsersOf(held))
  <2>1. ASSUME NEW k \in Keys PROVE UsersOf(held)[k] = 0
    <3>1. HoldersIn(held, k) = {}
      BY <1>1, KeysAssumption DEF HoldersIn
    <3> QED
      BY <3>1, UsersType, FS_EmptySet
  <2> QED
    BY <1>1, <2>1 DEF Owned
<1>5. MaxSize > 0 => Within(cache)
  <2>1. cache.len["t1"] = 0 /\ cache.len["t2"] = 0 /\ cache.len["b1"] = 0 /\ cache.len["b2"] = 0
    BY <1>1 DEF Lists
  <2> QED
    BY <2>1, MaxSizeAssumption DEF Within
<1> QED
  BY <1>1, <1>3, <1>4, <1>5 DEF CacheInv, Sound, Bounded

\* http2d_cache_get of a listed entry.
LEMMA GetListedKeeps ==
  ASSUME CacheInv, NEW c \in Clients, NEW k \in Keys, NEW fetched \in BOOLEAN,
         GetListed(c, k, fetched)
  PROVE  CacheInv'
<1> DEFINE users == UsersOf(held)
<1>1. Linked(cache) /\ Owned(cache, users) /\ held \in [Clients -> Keys \cup {NoKey}]
  BY DEF CacheInv, Sound
<1>2. users \in [Keys -> Nat]
  BY UsersType
<1> HIDE DEF users
<1>3. cache.in_list[k] \in Lists
  BY <1>1 DEF GetListed, Linked, State
<1> DEFINE t == Ref(UpdateCache(cache, k, fetched), k)
<1>4. /\ Linked(t) /\ Owned(t, More(users, k)) /\ t.segv = cache.segv
      /\ ~cache.segv /\ Within(cache) /\ MaxSize > 0 => Within(t)
  BY <1>1, <1>2, <1>3, HitFacts
<1> HIDE DEF t
<1>5. /\ cache' = t /\ held' = [held EXCEPT ![c] = k] /\ relisted' = relisted
      /\ held[c] = NoKey
  BY DEF GetListed, t
<1>6. UsersOf(held') = More(users, k)
  BY <1>1, <1>5, UsersTaken DEF users
<1>7. Sound'
  BY <1>1, <1>4, <1>5, <1>6 DEF Sound, CacheInv
<1>8. Bounded'
  BY <1>4, <1>5 DEF CacheInv, Bounded, Within
<1> QED
  BY <1>7, <1>8 DEF CacheInv

\* ... of an evicted one.
LEMMA GetLingeringKeeps ==
  ASSUME CacheInv, NEW c \in Clients, NEW k \in Keys, GetLingering(c, k)
  PROVE  CacheInv'
<1> DEFINE users == UsersOf(held)
           t == Ref(ListAdd(Ref(cache, k), "t1", k), k)
<1>1. Linked(cache) /\ Owned(cache, users) /\ held \in [Clients -> Keys \cup {NoKey}]
  BY DEF CacheInv, Sound
<1>2. users \in [Keys -> Nat]
  BY UsersType
<1> HIDE DEF users
<1>3. k \in cache.map /\ cache.in_list[k] = "no_list"
  BY DEF GetLingering
<1>4. Linked(t) /\ Owned(t, More(users, k))
  BY <1>1, <1>2, <1>3, LingeringFacts
<1>5. /\ cache' = t /\ held' = [held EXCEPT ![c] = k] /\ relisted' = TRUE
      /\ held[c] = NoKey
  BY DEF GetLingering
<1> HIDE DEF t
<1>6. UsersOf(held') = More(users, k)
  BY <1>1, <1>5, UsersTaken DEF users
<1> QED
  BY <1>1, <1>4, <1>5, <1>6 DEF CacheInv, Sound, Bounded

\* on_new_added, in a state of the invariant.
LEMMA RoomMade ==
  ASSUME CacheInv, ~cache.segv
  PROVE  LET o == OnNewAdded(cache)
         IN  /\ Kept(cache, o, UsersOf(held))
             /\ MaxSize > 0 /\ ~relisted => HasRoom(o) /\ ~o.segv
<1> DEFINE users == UsersOf(held)
<1>1. Linked(cache) /\ Owned(cache, users)
  BY DEF CacheInv, Sound
<1>2. users \in [Keys -> Nat]
  BY UsersType
<1> HIDE DEF users
<1>3. Kept(cache, OnNewAdded(cache), users)
  BY <1>1, <1>2, OnNewAddedKeeps
<1>4. ASSUME MaxSize > 0, ~relisted
      PROVE  HasRoom(OnNewAdded(cache)) /\ ~OnNewAdded(cache).segv
  <2>1. Within(cache)
    BY <1>4 DEF CacheInv, Bounded
  <2> QED
    BY <1>1, <1>2, <1>4, <2>1, OnNewAddedRoom
<1> QED
  BY <1>3, <1>4 DEF users

\* ... of a new key.
LEMMA GetMissKeeps ==
  ASSUME CacheInv, NEW c \in Clients, NEW k \in Keys, GetMiss(c, k)
  PROVE  CacheInv'
<1> DEFINE users == UsersOf(held)
           o == OnNewAdded(cache)
           t == Created(o, k)
<1>1. /\ held \in [Clients -> Keys \cup {NoKey}] /\ relisted \in BOOLEAN
      /\ relisted' = relisted /\ held[c] = NoKey /\ cache' = t
      /\ ~cache.segv /\ k \notin cache.map
      /\ held' = IF cache'.segv THEN held ELSE [held EXCEPT ![c] = k]
  BY DEF CacheInv, Sound, GetMiss
<1>2. /\ Kept(cache, o, users)
      /\ MaxSize > 0 /\ ~relisted => HasRoom(o) /\ ~o.segv
  BY <1>1, RoomMade
<1>3. users \in [Keys -> Nat]
  BY UsersType
<1> HIDE DEF o
<1>4. Linked(o) /\ Owned(o, users) /\ k \notin o.map
  BY <1>1, <1>2 DEF Kept
<1>5. CASE o.segv
  <2>1. t = o
    BY <1>5 DEF Created
  <2>2. cache' = o /\ held' = held
    BY <1>1, <1>5, <2>1
  <2> QED
    BY <1>1, <1>2, <1>4, <1>5, <2>2 DEF CacheInv, Sound, Bounded
<1>6. CASE ~o.segv
  <2> HIDE DEF users
  <2>1. /\ Linked(t) /\ Owned(t, More(users, k)) /\ ~t.segv
        /\ HasRoom(o) => Within(t)
    BY <1>3, <1>4, <1>6, CreatedFacts
  <2> HIDE DEF t
  <2>2. held' = [held EXCEPT ![c] = k]
    BY <1>1, <2>1
  <2>3. UsersOf(held') = More(users, k)
    BY <1>1, <2>2, UsersTaken DEF users
  <2> QED
    BY <1>1, <1>2, <2>1, <2>2, <2>3 DEF CacheInv, Sound, Bounded
<1> QED
  BY <1>5, <1>6

\* ... when there is no memory for it.
LEMMA GetNoMemoryKeeps ==
  ASSUME CacheInv, NEW c \in Clients, NEW k \in Keys, GetNoMemory(c, k)
  PROVE  CacheInv'
<1> DEFINE o == OnNewAdded(cache)
<1>1. ~cache.segv /\ cache' = o /\ held' = held /\ relisted' = relisted
  BY DEF GetNoMemory
<1>2. /\ Kept(cache, o, UsersOf(held))
      /\ MaxSize > 0 /\ ~relisted => HasRoom(o) /\ ~o.segv
  BY <1>1, RoomMade
<1> HIDE DEF o
<1>3. Linked(o) /\ Owned(o, UsersOf(held))
  BY <1>2 DEF Kept
<1>4. HasRoom(o) => Within(o)
  BY <1>3, CounterFacts DEF HasRoom, Within
<1> QED
  BY <1>1, <1>2, <1>3, <1>4 DEF CacheInv, Sound, Bounded

\* http2d_cache_entry_unref
LEMMA EntryUnrefKeeps ==
  ASSUME CacheInv, NEW c \in Clients, EntryUnref(c)
  PROVE  CacheInv'
<1> DEFINE users == UsersOf(held)
           t == Unref(cache, held[c])
<1>1. /\ held \in [Clients -> Keys \cup {NoKey}] /\ relisted \in BOOLEAN
      /\ relisted' = relisted /\ cache' = t /\ held[c] \in Keys
      /\ held' = [held EXCEPT ![c] = NoKey]
  BY DEF CacheInv, Sound, EntryUnref
<1>2. Linked(cache) /\ Owned(cache, users)
  BY DEF CacheInv, Sound
<1>3. users \in [Keys -> Nat] /\ users[held[c]] >= 1
  BY <1>1, UsersType, HeldUsed
<1>4. UsersOf(held') = Less(users, held[c])
  BY <1>1, UsersLeft
<1> HIDE DEF users
<1>5. /\ Linked(t) /\ Owned(t, Less(users, held[c]))
      /\ t.len = cache.len /\ t.segv = cache.segv
  BY <1>1, <1>2, <1>3, ReleaseFacts
<1> HIDE DEF t
<1>6. Sound'
  BY <1>1, <1>4, <1>5 DEF Sound
<1>7. Bounded'
  BY <1>1, <1>5 DEF CacheInv, Bounded, Within
<1> QED
  BY <1>6, <1>7 DEF CacheInv

\* The inductive invariant, over every sequence of http2d_cache_get and
\* http2d_cache_entry_unref by any number of clients.
THEOREM Invariance == Spec => []CacheInv
<1>1. CacheInv /\ [Next]_vars => CacheInv'
  <2> SUFFICES ASSUME CacheInv, [Next]_vars PROVE CacheInv'
    OBVIOUS
  <2>1. CASE UNCHANGED vars
    BY <2>1 DEF CacheInv, Sound, Bounded, vars
  <2>2. ASSUME NEW c \in Clients, EntryUnref(c) PROVE CacheInv'
    BY <2>2, EntryUnrefKeeps
  <2>3. ASSUME NEW c \in Clients, NEW k \in Keys, Get(c, k) PROVE CacheInv'
    <3>1. ASSUME NEW fetched \in BOOLEAN, GetListed(c, k, fetched) PROVE CacheInv'
      BY <3>1, GetListedKeeps
    <3>2. CASE GetLingering(c, k)
      BY <3>2, GetLingeringKeeps
    <3>3. CASE GetMiss(c, k)
      BY <3>3, GetMissKeeps
    <3>4. CASE GetNoMemory(c, k)
      BY <3>4, GetNoMemoryKeeps
    <3> QED
      BY <2>3, <3>1, <3>2, <3>3, <3>4 DEF Get
  <2> QED
    BY <2>1, <2>2, <2>3 DEF Next
<1> QED
  BY <1>1, CacheInit, PTL DEF Spec

-----------------------------------------------------------------------------
(* What the runs check. *)

\* An entry is linked once in the list that its in_list names, and nowhere else.
LEMMA LinkedOnce ==
  ASSUME NEW s, Linked(s), NEW l \in Lists, NEW k \in Keys
  PROVE  Cardinality({i \in 1..Len(s.lists[l]) : s.lists[l][i] = k}) =
           IF s.in_list[k] = l THEN 1 ELSE 0
<1> DEFINE q == s.lists[l]
           P == {i \in 1..Len(q) : q[i] = k}
<1>1. q \in Seq(Keys) /\ IsInjective(q) /\ (Contains(q, k) <=> s.in_list[k] = l)
  BY DEF Linked, State
<1> HIDE DEF q
<1>2. CASE s.in_list[k] = l
  <2>1. PICK i \in 1..Len(q) : q[i] = k
    BY <1>1, <1>2 DEF Contains
  <2>2. DOMAIN q = 1..Len(q)
    BY <1>1
  <2>3. P = {i}
    BY <1>1, <2>1, <2>2 DEF IsInjective
  <2>4. Cardinality({i}) = 1
    BY FS_Singleton
  <2> QED
    BY <1>2, <2>3, <2>4 DEF q
<1>3. CASE s.in_list[k] # l
  <2>1. P = {}
    BY <1>1, <1>3 DEF Contains
  <2> QED
    BY <1>3, <2>1, FS_EmptySet DEF q
<1> QED
  BY <1>2, <1>3

\* in_list, the links and the counters of cache.c agree after every operation,
\* for any number of keys and clients and any max_size.
THEOREM ListsAlwaysAgree == Spec => []ListsAgree
<1>1. CacheInv => ListsAgree
  <2> SUFFICES ASSUME CacheInv PROVE ListsAgree
    OBVIOUS
  <2>1. /\ Linked(cache) /\ Owned(cache, UsersOf(held))
        /\ held \in [Clients -> Keys \cup {NoKey}] /\ relisted \in BOOLEAN
    BY DEF CacheInv, Sound
  <2>2. cache \in State
    BY <2>1 DEF Linked
  <2>3. cache.ref_count \in [Keys -> Nat]
    <3>1. \A k \in Keys : UsersOf(held)[k] \in Nat
      BY UsersType
    <3>2. \A k \in Keys : cache.ref_count[k] \in Nat
      BY <2>1, <3>1 DEF Owned
    <3> QED
      BY <2>2, <3>2 DEF State
  <2>4. TypeOK
    BY <2>1, <2>2, <2>3 DEF State, TypeOK
  <2>5. ASSUME NEW l \in Lists
        PROVE  /\ cache.len[l] = Len(cache.lists[l])
               /\ \A k \in Keys :
                    Cardinality({i \in 1..Len(cache.lists[l]) : cache.lists[l][i] = k}) =
                      IF cache.in_list[k] = l THEN 1 ELSE 0
    <3>1. cache.len[l] = Len(cache.lists[l])
      BY <2>1 DEF Linked
    <3> QED
      BY <2>1, <3>1, LinkedOnce
  <2> QED
    BY <2>4, <2>5 DEF ListsAgree
<1> QED
  BY <1>1, Invariance, PTL

\* entry_ref and entry_unref balance on every path: no client has a pointer to
\* a freed entry and none leaks.
THEOREM RefsAlwaysExact == Spec => []RefsExact
<1>1. CacheInv => RefsExact
  <2> SUFFICES ASSUME CacheInv, NEW k \in Keys
               PROVE  /\ cache.ref_count[k] = Holders(k) + (IF Listed(k) THEN 1 ELSE 0)
                      /\ k \in cache.map <=> Holders(k) > 0 \/ Listed(k)
    BY DEF RefsExact
  <2>1. Linked(cache) /\ Owned(cache, UsersOf(held))
    BY DEF CacheInv, Sound
  <2>2. Listed(k) <=> cache.in_list[k] # "no_list"
    <3>1. \A l \in Lists : Contains(cache.lists[l], k) <=> cache.in_list[k] = l
      BY <2>1 DEF Linked
    <3>2. cache.in_list[k] \in Lists \cup {"no_list"} /\ "no_list" \notin Lists
      BY <2>1 DEF Linked, State, Lists
    <3>3. Listed(k) <=> \E l \in Lists : Contains(cache.lists[l], k)
      BY DEF Listed, Contains
    <3> QED
      BY <3>1, <3>2, <3>3
  <2>3. UsersOf(held)[k] = Holders(k) /\ Holders(k) \in Nat
    BY UsersType DEF HoldersIn, Holders
  <2>4. /\ cache.ref_count[k] = UsersOf(held)[k] +
             (IF cache.in_list[k] = "no_list" THEN 0 ELSE 1)
        /\ k \in cache.map <=> cache.ref_count[k] > 0
    BY <2>1 DEF Owned
  <2> QED
    BY <2>2, <2>3, <2>4
<1> QED
  BY <1>1, Invariance, PTL

\* The bounds of the ARC policy, and that on_new_added always finds an entry to
\* evict, for every max_size but 0, until an evicted entry comes back to T1.
THEOREM PolicyKeepsBounds ==
  ASSUME MaxSize > 0
  PROVE  Spec => []WithinMaxSize
<1>1. CacheInv => WithinMaxSize
  <2> SUFFICES ASSUME CacheInv, ~relisted PROVE WithinMaxSize
    BY DEF WithinMaxSize
  <2>1. Within(cache) /\ ~cache.segv /\ Linked(cache)
    BY DEF CacheInv, Sound, Bounded
  <2>2. \A l \in Lists : Lengths[l] = cache.len[l]
    BY <2>1 DEF Linked, Lengths
  <2> QED
    BY <2>1, <2>2 DEF Within, WithinMaxSize, Lists
<1> QED
  BY <1>1, Invariance, PTL

=============================================================================
