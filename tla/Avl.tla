--------------------------------- MODULE Avl ---------------------------------
(***************************************************************************)
(* The threaded AVL tree of avl_generic.c and avl.c.  A node without a left *)
(* (right) child points to its predecessor (successor) instead, and the    *)
(* flags left_child and right_child tell the two uses of a pointer apart.  *)
(* balance is the height of the right subtree minus that of the left.      *)
(*                                                                         *)
(* A node is named by its key, a number that stands for the text: keys are *)
(* numbered by their length and, among those of one length, by their text. *)
(* Every call is one action; the loops over the path from the root are     *)
(* recursive functions and folds.                                          *)
(***************************************************************************)
EXTENDS Integers, Sequences, SequencesExt

CONSTANTS
  Keys,      \* keys that are not empty: numbers from 1
  KeyLen,    \* the length of each key
  Values,
  None       \* no value

NULL     == 0
EmptyKey == 0

VARIABLES
  tree,      \* [root, n]: the root and the allocated nodes by their keys
  ret,       \* what the last call returned
  freed      \* http2d_avl_mrproper was called

vars == <<tree, ret, freed>>

\* http2d_avl_generic_node_init and the value that http2d_avl_generic_add
\* stores.
NewNode(v) ==
  [balance |-> 0, left |-> NULL, right |-> NULL,
   left_child |-> FALSE, right_child |-> FALSE, value |-> v]

\* http2d_avl_init
Init ==
  /\ tree  = [root |-> NULL, n |-> [k \in {} |-> NewNode(None)]]
  /\ ret   = <<"ok", None>>
  /\ freed = FALSE

-----------------------------------------------------------------------------
(* Comparing keys. *)

\* An int kept in a variable of type short (16 bits).
Short(i) == ((i + 32768) % 65536) - 32768

\* node_cmp, http2d_buffer_cmp_buf: the difference of the lengths, or of the
\* texts.  node_add, http2d_avl_generic_del and http2d_avl_generic_get keep the
\* int it returns in short re.
Cmp(a, b) == Short(IF KeyLen[a] # KeyLen[b] THEN KeyLen[a] - KeyLen[b] ELSE a - b)

\* What the tree relies on and nothing in the code ensures: no two lengths differ
\* by 2^15 or more.  Beyond that Cmp changes its sign, and keys whose lengths
\* differ by 2^16 count as equal.  (Also, that the numbers are as said above.)
LengthsFit ==
  \A a, b \in Keys :
    a < b => KeyLen[a] <= KeyLen[b] /\ KeyLen[b] - KeyLen[a] < 32768

-----------------------------------------------------------------------------
(* Moving in the tree. *)

Leftmost(n, x) ==
  LET go[y \in DOMAIN n] == IF n[y].left_child THEN go[n[y].left] ELSE y IN go[x]
Rightmost(n, x) ==
  LET go[y \in DOMAIN n] == IF n[y].right_child THEN go[n[y].right] ELSE y IN go[x]

NodeFirst(t)   == IF t.root = NULL THEN NULL ELSE Leftmost(t.n, t.root)
NodeNext(n, x) == IF n[x].right_child THEN Leftmost(n, n[x].right) ELSE n[x].right
NodePrev(n, x) == IF n[x].left_child THEN Rightmost(n, n[x].left) ELSE n[x].left

\* The nodes that a search for k visits: it ends in k, or where k would go.
Search(t, k) ==
  LET go[x \in DOMAIN t.n] ==
        LET re == Cmp(k, x)
        IN  <<x>> \o (IF re < 0 /\ t.n[x].left_child THEN go[t.n[x].left]
                      ELSE IF re > 0 /\ t.n[x].right_child THEN go[t.n[x].right]
                      ELSE <<>>)
  IN  IF t.root = NULL THEN <<>> ELSE go[t.root]

\* The node that the search takes for k, or NULL.
Hit(t, k) ==
  IF t.root = NULL THEN NULL
  ELSE LET x == Last(Search(t, k)) IN IF Cmp(k, x) = 0 THEN x ELSE NULL

-----------------------------------------------------------------------------
(* Rotations.  Each returns the nodes; the caller relinks the subtree. *)

\* Mutant: right's left pointer, a thread until now, is not made a child.
RotateLeftThread(n, a) ==
  LET b      == n[a].right
      a_bal  == n[a].balance
      b_bal  == n[b].balance
      linked == IF n[b].left_child
                THEN [n EXCEPT ![a].right = n[b].left, ![b].left = a]
                ELSE [n EXCEPT ![a].right_child = FALSE, ![b].left = a]
  IN  [linked EXCEPT
        ![a].balance = IF b_bal <= 0 THEN a_bal - 1 ELSE a_bal - b_bal - 1,
        ![b].balance = IF b_bal <= 0
                       THEN IF a_bal >= 1 THEN b_bal - 1 ELSE a_bal + b_bal - 2
                       ELSE IF a_bal <= b_bal THEN a_bal - 2 ELSE b_bal - 1]

RotateLeft(n, a) ==
  LET b      == n[a].right
      a_bal  == n[a].balance
      b_bal  == n[b].balance
      linked == IF n[b].left_child
                THEN [n EXCEPT ![a].right = n[b].left, ![b].left = a]
                ELSE [n EXCEPT ![a].right_child = FALSE,
                               ![b].left_child = TRUE, ![b].left = a]
  IN  [linked EXCEPT
        ![a].balance = IF b_bal <= 0 THEN a_bal - 1 ELSE a_bal - b_bal - 1,
        ![b].balance = IF b_bal <= 0
                       THEN IF a_bal >= 1 THEN b_bal - 1 ELSE a_bal + b_bal - 2
                       ELSE IF a_bal <= b_bal THEN a_bal - 2 ELSE b_bal - 1]

RotateRight(n, a) ==
  LET b      == n[a].left
      a_bal  == n[a].balance
      b_bal  == n[b].balance
      linked == IF n[b].right_child
                THEN [n EXCEPT ![a].left = n[b].right, ![b].right = a]
                ELSE [n EXCEPT ![a].left_child = FALSE,
                               ![b].right_child = TRUE, ![b].right = a]
  IN  [linked EXCEPT
        ![a].balance = IF b_bal <= 0 THEN a_bal - b_bal + 1 ELSE a_bal + 1,
        ![b].balance = IF b_bal <= 0
                       THEN IF b_bal > a_bal THEN b_bal + 1 ELSE a_bal + 2
                       ELSE IF a_bal <= -1 THEN b_bal + 1 ELSE a_bal + b_bal + 2]

\* node_balance: the nodes and the new top of the subtree of x.
NodeBalance(n, x) ==
  LET l == n[x].left
      r == n[x].right
      leftDone  == IF n[l].balance > 0
                   THEN [RotateLeft(n, l) EXCEPT ![x].left = n[l].right] ELSE n
      rightDone == IF n[r].balance < 0
                   THEN [RotateRight(n, r) EXCEPT ![x].right = n[r].left] ELSE n
  IN  IF n[x].balance < -1
      THEN [n |-> RotateRight(leftDone, x), top |-> leftDone[x].left]
      ELSE IF n[x].balance > 1
      THEN [n |-> RotateLeft(rightDone, x), top |-> rightDone[x].right]
      ELSE [n |-> n, top |-> x]

\* The parent, or the root pointer, gets x as its left or right child.
Relink(t, parent, isLeft, x) ==
  IF parent = NULL THEN [t EXCEPT !.root = x]
  ELSE IF isLeft THEN [t EXCEPT !.n[parent].left = x]
  ELSE [t EXCEPT !.n[parent].right = x]

IsLeft(t, parent, x) == parent # NULL /\ t.n[parent].left = x

\* The balance of the parent of a subtree that grew, or shrank, by one level.
Tilt(t, parent, isLeft, shrunk) ==
  [t EXCEPT !.n[parent].balance = IF isLeft = shrunk THEN @ + 1 ELSE @ - 1]

\* Mutant: stops where the subtree kept its height when nodes are added.
RebalanceStep1(acc, parent, shrunk) ==
  LET isLeft == IsLeft(acc.t, parent, acc.node)
      b      == NodeBalance(acc.t.n, acc.node)
      t      == Relink([acc.t EXCEPT !.n = b.n], parent, isLeft, b.top)
      stop   == parent = NULL \/ t.n[b.top].balance = 0
  IN  IF acc.done THEN acc
      ELSE [t    |-> IF stop THEN t ELSE Tilt(t, parent, isLeft, shrunk),
            node |-> parent, done |-> stop]

\* One turn of the loops of node_add and http2d_avl_generic_del that restore
\* the balance: acc.node may be out of balance, parent comes off the path.  An
\* insertion is done when the subtree did not grow, a deletion when it did not
\* shrink.
RebalanceStep(acc, parent, shrunk) ==
  LET isLeft == IsLeft(acc.t, parent, acc.node)
      b      == NodeBalance(acc.t.n, acc.node)
      t      == Relink([acc.t EXCEPT !.n = b.n], parent, isLeft, b.top)
      stop   == parent = NULL \/ (t.n[b.top].balance = 0) # shrunk
  IN  IF acc.done THEN acc
      ELSE [t    |-> IF stop THEN t ELSE Tilt(t, parent, isLeft, shrunk),
            node |-> parent, done |-> stop]

Rebalance(t, path, node, shrunk) ==
  FoldLeft(LAMBDA acc, parent : RebalanceStep(acc, parent, shrunk),
           [t |-> t, node |-> node, done |-> FALSE], Reverse(path)).t

-----------------------------------------------------------------------------
(* Insertion. *)

\* The new node hangs below the node where the search ended and takes over its
\* thread.
Attach(t, at, k, v) ==
  LET isLeft == Cmp(k, at) < 0
      child == IF isLeft
               THEN [NewNode(v) EXCEPT !.left = t.n[at].left, !.right = at]
               ELSE [NewNode(v) EXCEPT !.right = t.n[at].right, !.left = at]
      n == [x \in DOMAIN t.n \cup {k} |-> IF x = k THEN child ELSE t.n[x]]
  IN  [t EXCEPT !.n =
        IF isLeft
        THEN [n EXCEPT ![at].left = k, ![at].left_child = TRUE, ![at].balance = @ - 1]
        ELSE [n EXCEPT ![at].right = k, ![at].right_child = TRUE, ![at].balance = @ + 1]]

\* node_add of a key that is not in the tree.
NodeAdd(t, k, v) ==
  LET path == Search(t, k)
  IN  IF t.root = NULL THEN [root |-> k, n |-> [x \in {k} |-> NewNode(v)]]
      ELSE Rebalance(Attach(t, Last(path), k, v), <<NULL>> \o Front(path),
                     Last(path), FALSE)

-----------------------------------------------------------------------------
(* Deletion. *)

\* A node with one child: the child takes its place, and the neighbour whose
\* thread led to it gets the thread of the deleted node.
UnlinkOne(t, parent, x) ==
  LET isLeft   == IsLeft(t, parent, x)
      child    == IF t.n[x].left_child THEN t.n[x].left ELSE t.n[x].right
      threaded == IF t.n[x].left_child
                  THEN [t.n EXCEPT ![NodePrev(t.n, x)].right = t.n[x].right]
                  ELSE [t.n EXCEPT ![NodeNext(t.n, x)].left = t.n[x].left]
      u == Relink([t EXCEPT !.n = threaded], parent, isLeft, child)
  IN  IF parent = NULL THEN u ELSE Tilt(u, parent, isLeft, TRUE)

\* A leaf: the parent's pointer becomes the leaf's thread.
UnlinkLeaf(t, parent, x) ==
  IF parent = NULL THEN [t EXCEPT !.root = NULL]
  ELSE LET isLeft == IsLeft(t, parent, x)
           u == IF isLeft
                THEN [t EXCEPT !.n[parent].left_child = FALSE,
                               !.n[parent].left = t.n[x].left]
                ELSE [t EXCEPT !.n[parent].right_child = FALSE,
                               !.n[parent].right = t.n[x].right]
       IN  Tilt(u, parent, isLeft, TRUE)

\* The nodes from the right child of x down to its successor.
Spine(n, x) ==
  LET go[y \in DOMAIN n] == IF n[y].left_child THEN <<y>> \o go[n[y].left] ELSE <<y>>
  IN  go[n[x].right]

\* A node with two children: its successor takes its place.
UnlinkBoth(t, parent, x) ==
  LET spine == Spine(t.n, x)
      next  == Last(spine)
      nextp == IF Len(spine) = 1 THEN x ELSE spine[Len(spine) - 1]
      prev  == Rightmost(t.n, t.n[x].left)
      cut   == IF nextp = x THEN [t.n EXCEPT ![x].balance = @ - 1]
               ELSE [t.n EXCEPT
                      ![nextp].left       = IF t.n[next].right_child
                                            THEN t.n[next].right ELSE @,
                      ![nextp].left_child = t.n[next].right_child,
                      ![nextp].balance    = @ + 1,
                      ![next].right_child = TRUE,
                      ![next].right       = t.n[x].right]
      n == [cut EXCEPT ![prev].right      = next,
                       ![next].left_child = TRUE,
                       ![next].left       = cut[x].left,
                       ![next].balance    = cut[x].balance]
  IN  Relink([t EXCEPT !.n = n], parent, IsLeft(t, parent, x), next)

\* http2d_avl_generic_del of the node that a search has ended in: unlink,
\* restore the balance from the lowest changed subtree (pbalance) upwards, free
\* the node.
NodeDel(t, search) ==
  LET k       == Last(search)
      x       == t.n[k]
      parents == <<NULL>> \o Front(search)
      parent  == Last(parents)
      both    == x.left_child /\ x.right_child
      spine   == Spine(t.n, k)
      path    == IF both THEN parents \o <<Last(spine)>> \o Front(spine) ELSE parents
      cut     == IF both THEN UnlinkBoth(t, parent, k)
                 ELSE IF x.left_child \/ x.right_child THEN UnlinkOne(t, parent, k)
                 ELSE UnlinkLeaf(t, parent, k)
      done    == IF Last(path) = NULL THEN cut
                 ELSE Rebalance(cut, Front(path), Last(path), TRUE)
  IN  [done EXCEPT !.n = [y \in DOMAIN done.n \ {k} |-> done.n[y]]]

-----------------------------------------------------------------------------
(* The calls. *)

\* http2d_avl_add: a second node with a key of the tree is freed again.
Add(k, v) ==
  /\ ~freed
  /\ IF Hit(tree, k) # NULL
     THEN ret' = <<"error", None>> /\ UNCHANGED tree
     ELSE ret' = <<"ok", None>> /\ tree' = NodeAdd(tree, k, v)
  /\ UNCHANGED freed

\* http2d_avl_del
Del(k) ==
  /\ ~freed
  /\ LET x == Hit(tree, k)
     IN  IF x # NULL
         THEN ret' = <<"ok", tree.n[x].value>> /\ tree' = NodeDel(tree, Search(tree, k))
         ELSE ret' = <<"not_found", None>> /\ UNCHANGED tree
  /\ UNCHANGED freed

\* http2d_avl_get
Get(k) ==
  /\ ~freed
  /\ LET x == Hit(tree, k)
     IN  ret' = IF x # NULL THEN <<"ok", tree.n[x].value>> ELSE <<"not_found", None>>
  /\ UNCHANGED <<tree, freed>>

\* Each of the three refuses an empty key.  (http2d_avl_add has made a node for
\* it by then, and does not free it.)
EmptyKeyRefused == ~freed /\ ret' = <<"error", None>> /\ UNCHANGED <<tree, freed>>

\* http2d_avl_generic_while: the nodes in the order of their visits.
Walk(t) ==
  LET go[x \in DOMAIN t.n \cup {NULL}] ==
        IF x = NULL THEN <<>> ELSE <<x>> \o go[NodeNext(t.n, x)]
  IN  go[NodeFirst(t)]

\* http2d_avl_mrproper frees every node it walks over; root still points there.
Mrproper ==
  /\ ~freed
  /\ tree' = [tree EXCEPT !.n = [x \in DOMAIN @ \ ToSet(Walk(tree)) |-> @[x]]]
  /\ ret' = <<"ok", None>> /\ freed' = TRUE

Next ==
  \/ \E k \in Keys : Del(k) \/ Get(k) \/ \E v \in Values : Add(k, v)
  \/ EmptyKeyRefused
  \/ Mrproper

Spec == Init /\ [][Next]_vars

-----------------------------------------------------------------------------
(* Properties. *)

\* node_height
Height(n, x) ==
  LET h[y \in DOMAIN n] ==
        LET l == IF n[y].left_child THEN h[n[y].left] ELSE 0
            r == IF n[y].right_child THEN h[n[y].right] ELSE 0
        IN  1 + (IF l > r THEN l ELSE r)
  IN  h[x]

\* What node_check tests of one node, and that it is in balance.
NodeCheck(n, x) ==
  LET l == IF n[x].left_child THEN Height(n, n[x].left) ELSE 0
      r == IF n[x].right_child THEN Height(n, n[x].right) ELSE 0
  IN  /\ n[x].left_child => n[NodePrev(n, x)].right = x
      /\ n[x].right_child => n[NodeNext(n, x)].left = x
      /\ n[x].balance = r - l

\* Each node passes node_check and its subtrees differ by at most one level.
Balanced ==
  \A x \in DOMAIN tree.n :
    NodeCheck(tree.n, x) /\ tree.n[x].balance \in -1..1

\* The threads lead through all nodes in the order of their keys, both ways.
Threaded ==
  LET w == Walk(tree)
  IN  /\ ToSet(w) = DOMAIN tree.n
      /\ \A i \in 1..Len(w) - 1 : w[i] < w[i+1]
      /\ \A i \in 1..Len(w) :
           NodePrev(tree.n, w[i]) = IF i = 1 THEN NULL ELSE w[i-1]

\* avl_generic.c: after every call the tree is in balance, so that a path fits
\* the array path[MAX_HEIGHT], and its threads are whole, so that
\* http2d_avl_while visits every entry once; http2d_avl_mrproper leaves no node.
\* This is so for keys whose lengths fit the code's comparisons (LengthsFit).
\* (The code's own http2d_avl_check looks no further than the root: node_check
\* drops what it returns for the children.)
WellFormed == IF freed THEN DOMAIN tree.n = {} ELSE Balanced /\ Threaded

\* A search finds exactly what was added and not deleted, with the value of
\* the first insertion, through all rotations: the tree implements Dictionary,
\* for keys whose lengths fit the code's comparisons (LengthsFit).  The map is
\* what the nodes hold; every call has to find its way to them.
Dict == INSTANCE Dictionary WITH
          dict <- [k \in Keys |-> IF k \in DOMAIN tree.n THEN tree.n[k].value ELSE None]
ImplementsDictionary == Dict!Spec
=============================================================================
