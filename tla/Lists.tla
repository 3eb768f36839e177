-------------------------------- MODULE Lists --------------------------------
(***************************************************************************)
(* The doubly linked circular list of list.h and list.c, pointer by pointer.*)
(* A node holds its next and its prev pointer; ListHead is the list's own node, *)
(* and the memory of an item that is not in the list holds nothing.  ref is *)
(* what the list is to be, a sequence of items.                             *)
(***************************************************************************)
EXTENDS Integers, Sequences, FiniteSets, SequencesExt, TLC

CONSTANTS
  Items,   \* the items, each a node of its own
  Rank,    \* Rank[i]: what the cmp callback compares; items may rank equal
  ListHead, Nil,
  NewList  \* the head on the stack of http2d_list_invert

Nodes == Items \cup {ListHead}

VARIABLES
  links,   \* [next, prev]
  ref

vars == <<links, ref>>

SetNext(l, n, to) == [l EXCEPT !.next[n] = to]
SetPrev(l, n, to) == [l EXCEPT !.prev[n] = to]

\* INIT_LIST_HEAD
InitHead(l, n) == SetPrev(SetNext(l, n, n), n, n)

ListAdd(l, new, head) ==
  LET a == SetPrev(SetNext(l, new, l.next[head]), new, head)
  IN  SetNext(SetPrev(a, a.next[head], new), head, new)

ListAddTail(l, new, head) ==
  LET a == SetPrev(SetNext(l, new, head), new, l.prev[head])
  IN  SetPrev(SetNext(a, a.prev[head], new), head, new)

ListDel(l, n) ==
  LET a == SetPrev(l, l.next[n], l.prev[n])
  IN  SetNext(a, a.prev[n], a.next[n])

\* new takes the place of the head of a list that is not empty.
ListReparent(l, list, new) ==
  IF l.next[list] = list THEN l
  ELSE LET a == SetPrev(SetNext(l, new, l.next[list]), new, l.prev[list])
       IN  SetPrev(SetNext(a, a.prev[new], new), a.next[new], new)

\* list_for_each: the items that the loop sees.
ForEach(l) ==
  LET from[n \in Nodes] == IF n = ListHead THEN <<>> ELSE <<n>> \o from[l.next[n]]
  IN  from[l.next[ListHead]]

GetLen(l) == Len(ForEach(l))

\* http2d_list_content_free_item: unlinked, then freed.
FreeItem(l, n) ==
  LET a == ListDel(l, n) IN SetPrev(SetNext(a, n, Nil), n, Nil)

ContentFree(l) ==
  InitHead(FoldLeft(FreeItem, l, ForEach(l)), ListHead)

-----------------------------------------------------------------------------
(* http2d_list_invert: the items move, one by one, to the front of new_list. *)

Invert(l) ==
  LET wide == [next |-> (NewList :> NewList) @@ l.next, prev |-> (NewList :> NewList) @@ l.prev]
      all  == FoldLeft(LAMBDA a, n : ListAdd(a, n, NewList), wide, ForEach(l))
      done == ListReparent(all, NewList, ListHead)
  IN  [next |-> [n \in Nodes |-> done.next[n]], prev |-> [n \in Nodes |-> done.prev[n]]]

-----------------------------------------------------------------------------
(* http2d_list_sort: merge sort, bottom up and in place.  A pass merges runs *)
(* of insize nodes: p is in the first run, with psize nodes left, q in the   *)
(* second; tail is the last node of the result, list its first.             *)

Cmp(p, q) == Rank[p] - Rank[q]

\* x->next, NULL at the end of the old list
After(l, x, oldhead) == IF l.next[x] = oldhead THEN Nil ELSE l.next[x]

\* The node e goes to the end of the result.
Emit(st, e) ==
  LET a == IF st.tail # Nil THEN SetNext(st.l, st.tail, e) ELSE st.l
  IN  [st EXCEPT !.l = SetPrev(a, e, st.tail), !.tail = e,
                 !.list = IF st.tail = Nil THEN e ELSE @]

TakeP(st) == Emit([st EXCEPT !.p = After(st.l, st.p, st.oldhead), !.psize = @ - 1], st.p)
TakeQ(st) == Emit([st EXCEPT !.q = After(st.l, st.q, st.oldhead), !.qsize = @ - 1], st.q)

\* Mutant: of equal nodes the one of the second run is taken.
FromPStrict(st) == st.qsize = 0 \/ st.q = Nil \/ Cmp(st.p, st.q) < 0

\* Of equal nodes the one of the first run is taken.
FromP(st) == st.qsize = 0 \/ st.q = Nil \/ Cmp(st.p, st.q) <= 0

RECURSIVE Merge(_), SkipRun(_, _), Pass(_, _), Passes(_, _)
Merge(st) ==
  IF st.psize = 0 /\ (st.qsize = 0 \/ st.q = Nil) THEN st
  ELSE IF st.psize > 0 /\ FromP(st) THEN Merge(TakeP(st))
  ELSE Merge(TakeQ(st))

\* q walks over the first run.
SkipRun(st, n) ==
  IF n = 0 \/ st.q = Nil THEN st
  ELSE SkipRun([st EXCEPT !.q = After(st.l, st.q, st.oldhead), !.psize = @ + 1], n - 1)

Pass(st, insize) ==
  IF st.p = Nil THEN st
  ELSE LET runs == SkipRun([st EXCEPT !.q = st.p, !.psize = 0, !.nmerges = @ + 1], insize)
           done == Merge([runs EXCEPT !.qsize = insize])
       IN  Pass([done EXCEPT !.p = done.q], insize)

Passes(st, insize) ==
  LET done == Pass([st EXCEPT !.p = st.list, !.oldhead = st.list, !.list = Nil,
                              !.tail = Nil, !.nmerges = 0], insize)
      ring == [done EXCEPT !.l = SetPrev(SetNext(@, done.tail, done.list), done.list, done.tail)]
  IN  IF done.nmerges <= 1 THEN ring ELSE Passes(ring, 2 * insize)

\* Of an empty list the head itself is the one node that is sorted.
ListSort(l) ==
  LET st == Passes([l |-> ListDel(l, ListHead), list |-> l.next[ListHead], p |-> Nil, q |-> Nil,
                    psize |-> 0, qsize |-> 0, tail |-> Nil, oldhead |-> Nil, nmerges |-> 0], 1)
      a  == SetPrev(SetNext(st.l, ListHead, st.list), ListHead, st.l.prev[st.list])
  IN  SetPrev(SetNext(a, a.prev[st.list], ListHead), st.list, ListHead)

-----------------------------------------------------------------------------
Init == /\ links = [next |-> [n \in Nodes |-> IF n = ListHead THEN ListHead ELSE Nil],
                    prev |-> [n \in Nodes |-> IF n = ListHead THEN ListHead ELSE Nil]]
        /\ ref = <<>>

\* A new node, INIT_LIST_HEAD first.
AddContent(x) ==
  /\ x \notin Range(ref)
  /\ links' = ListAdd(InitHead(links, x), x, ListHead)
  /\ ref' = <<x>> \o ref

AddTailContent(x) ==
  /\ x \notin Range(ref)
  /\ links' = ListAddTail(InitHead(links, x), x, ListHead)
  /\ ref' = Append(ref, x)

ContentFreeItem(x) ==
  /\ x \in Range(ref)
  /\ links' = FreeItem(links, x)
  /\ ref' = SelectSeq(ref, LAMBDA i : i # x)

ContentFreeAll == links' = ContentFree(links) /\ ref' = <<>>
InvertList     == links' = Invert(links) /\ ref' = Reverse(ref)

\* The items in the order of their ranks, equals in the order they were in.
StableSort(s) ==
  LET before(i, j) == Rank[s[i]] < Rank[s[j]] \/ (Rank[s[i]] = Rank[s[j]] /\ i < j)
      place(i)     == 1 + Cardinality({j \in DOMAIN s : before(j, i)})
  IN  [k \in DOMAIN s |-> s[CHOOSE i \in DOMAIN s : place(i) = k]]

Sort == links' = ListSort(links) /\ ref' = StableSort(ref)

Next == \/ \E x \in Items : AddContent(x) \/ AddTailContent(x) \/ ContentFreeItem(x)
        \/ ContentFreeAll \/ InvertList \/ Sort
Spec == Init /\ [][Next]_vars

\* list.c, list.h: whatever was added, deleted, inverted or sorted before, the
\* list read forwards is the one meant, read backwards it is its reverse, its
\* length is right, and sorting is stable (two virtual servers or two numbered
\* configuration lists that compare equal keep their order).
Linked ==
  /\ ForEach(links) = ref
  /\ GetLen(links) = Len(ref)
  /\ \A n \in Range(ref) \cup {ListHead} :
       links.prev[links.next[n]] = n /\ links.next[links.prev[n]] = n
=============================================================================
