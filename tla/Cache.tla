-------------------------------- MODULE Cache --------------------------------
(***************************************************************************)
(* The ARC cache of cache.c: an AVL of entries and four lists, T1 (seen    *)
(* once) and T2 (seen again) with their ghost lists B1 and B2, and a target *)
(* length for T1 that adapts to ghost hits.  An entry is reference counted: *)
(* one reference is the cache's own while the entry is in a list, the      *)
(* others belong to the clients that got it.                               *)
(*                                                                         *)
(* http2d_cache_get and http2d_cache_entry_unref hold cache->priv->mutex   *)
(* from their first to their last access, so that each is one action;      *)
(* clients interleave between them.  An entry is named by its key: the AVL *)
(* holds at most one entry of a key.  What an entry caches is left out.    *)
(***************************************************************************)
EXTENDS Integers, FiniteSets, SequencesExt

CONSTANTS
  Keys,      \* keys that clients ask for
  NoKey,     \* a NULL entry pointer
  Clients,   \* clients, each with one entry pointer
  MaxSize    \* cache->max_size: http2d_cache_configure rounds it up to 4 * n

ASSUME KeysAssumption    == NoKey \notin Keys
ASSUME ClientsAssumption == IsFiniteSet(Clients)
ASSUME MaxSizeAssumption == MaxSize \in Nat /\ MaxSize % 4 = 0

VARIABLES
  cache,     \* the http2d_cache_t and the entries in it
  held,      \* the entry that a client's pointer refers to
  relisted   \* history: an evicted entry that was in use came back to T1

vars == <<cache, held, relisted>>

Lists == {"t1", "t2", "b1", "b2"}

\* http2d_cache_init.  lists[l] has the most recently used entry first; len
\* are the separate counters len_t1...; segv is set when the code follows a
\* NULL entry.
Init ==
  /\ cache = [lists     |-> [l \in Lists |-> <<>>],
              len       |-> [l \in Lists |-> 0],
              in_list   |-> [k \in Keys |-> "no_list"],
              ref_count |-> [k \in Keys |-> 0],
              map       |-> {},
              target_t1 |-> 0,
              segv      |-> FALSE]
  /\ held = [c \in Clients |-> NoKey]
  /\ relisted = FALSE

-----------------------------------------------------------------------------
(* The list macros. *)

Max2(a, b) == IF a > b THEN a ELSE b
Min2(a, b) == IF a < b THEN a ELSE b

\* http2d_list_del
Unlink(seq, k) == RemoveFirst(seq, k)

\* cache_list_add
ListAdd(s, l, k) ==
  [s EXCEPT !.lists[l]   = <<k>> \o @,
            !.len[l]     = @ + 1,
            !.in_list[k] = l]

\* cache_list_del: out of whichever list the entry is linked in; the caller
\* names the list whose counter drops.
ListDel(s, l, k) ==
  [s EXCEPT !.in_list[k] = "no_list",
            !.lists      = [m \in Lists |-> Unlink(s.lists[m], k)],
            !.len[l]     = @ - 1]

\* cache_list_swap
ListSwap(s, from, to, k) == ListAdd(ListDel(s, from, k), to, k)

\* cache_list_make_first
MakeFirst(s, l, k) == [s EXCEPT !.lists[l] = <<k>> \o Unlink(@, k)]

\* cache_list_get_lru leaves tmp NULL when the list is empty.
IsEmpty(s, l) == s.lists[l] = <<>>
LRU(s, l)     == s.lists[l][Len(s.lists[l])]

-----------------------------------------------------------------------------
(* Reference counts. *)

Ref(s, k) == [s EXCEPT !.ref_count[k] = @ + 1]

\* entry_unref_guts: the last reference takes the entry out of the AVL and of
\* the list it says it is in, and frees it.
Unref(s, k) ==
  LET dropped  == [s EXCEPT !.ref_count[k] = @ - 1]
      unmapped == [dropped EXCEPT !.map = @ \ {k}]
  IN  IF dropped.ref_count[k] > 0 THEN dropped
      ELSE IF s.in_list[k] \in Lists THEN ListDel(unmapped, s.in_list[k], k)
      ELSE unmapped

-----------------------------------------------------------------------------
(* The replacement policy. *)

\* replace: the LRU of T1 or of T2 becomes a ghost.  fromB2: x is in B2.  The
\* process is gone if the eviction before it crashed.
Replace(s, fromB2) ==
  LET demoteT1 == /\ s.len["t1"] >= 1
                  /\ \/ s.len["t1"] > s.target_t1
                     \/ s.len["t1"] = s.target_t1 /\ fromB2
      top   == IF demoteT1 THEN "t1" ELSE "t2"
      ghost == IF demoteT1 THEN "b1" ELSE "b2"
  IN  IF s.segv \/ IsEmpty(s, top) THEN s ELSE ListSwap(s, top, ghost, LRU(s, top))

\* get_lru, list_del, unref of one list in on_new_added: list_del follows the
\* pointer whether or not get_lru found an entry.
Evict(s, l) ==
  IF IsEmpty(s, l) THEN [s EXCEPT !.segv = TRUE]
  ELSE Unref(ListDel(s, l, LRU(s, l)), LRU(s, l))

\* Mutant: replace only when a ghost is removed from B2.
OnNewAddedNoReplace(s) ==
  LET len_l1    == s.len["t1"] + s.len["b1"]
      total_len == len_l1 + s.len["t2"] + s.len["b2"]
  IN  IF len_l1 >= MaxSize
      THEN IF s.len["t1"] < MaxSize THEN Replace(Evict(s, "b1"), FALSE)
           ELSE Evict(s, "t1")
      ELSE IF total_len >= 2 * MaxSize THEN Replace(Evict(s, "b2"), FALSE)
      ELSE s

OnNewAdded(s) ==
  LET len_l1    == s.len["t1"] + s.len["b1"]
      total_len == len_l1 + s.len["t2"] + s.len["b2"]
  IN  IF len_l1 >= MaxSize
      THEN IF s.len["t1"] < MaxSize THEN Replace(Evict(s, "b1"), FALSE)
           ELSE Evict(s, "t1")
      ELSE IF total_len >= 2 * MaxSize THEN Replace(Evict(s, "b2"), FALSE)
      ELSE IF total_len >= MaxSize THEN Replace(s, FALSE)
      ELSE s

\* The new target_t1 of update_ghost_b1 and update_ghost_b2.
TargetB1(s) == Min2(MaxSize, s.target_t1 + Max2(1, s.len["b2"] \div s.len["b1"]))
TargetB2(s) == Max2(0, s.target_t1 - Max2(1, s.len["b1"] \div s.len["b2"]))

\* Mutant: update_ghost_b2 swaps from B1, as update_ghost_b1 does.
UpdateGhostFromB1(s, l, k, fetched) ==
  LET adapted == [s EXCEPT !.target_t1 =
                             IF l = "b1" THEN TargetB1(s) ELSE TargetB2(s)]
      roomy   == Replace(adapted, l = "b2")
  IN  IF fetched THEN ListSwap(roomy, "b1", "t2", k) ELSE roomy

\* update_ghost_b1 and update_ghost_b2: adapt, make room, fetch, and move the
\* entry to T2 unless the fetch failed.
UpdateGhost(s, l, k, fetched) ==
  LET adapted == [s EXCEPT !.target_t1 =
                             IF l = "b1" THEN TargetB1(s) ELSE TargetB2(s)]
      roomy   == Replace(adapted, l = "b2")
  IN  IF fetched THEN ListSwap(roomy, l, "t2", k) ELSE roomy

\* update_cache
UpdateCache(s, k, fetched) ==
  CASE s.in_list[k] = "t1" -> ListSwap(s, "t1", "t2", k)
    [] s.in_list[k] = "t2" -> MakeFirst(s, "t2", k)
    [] s.in_list[k] \in {"b1", "b2"} -> UpdateGhost(s, s.in_list[k], k, fetched)

-----------------------------------------------------------------------------
(* The operations of clients. *)

\* http2d_cache_get of a key that is listed: the entry is returned with a
\* reference, whether or not the fetch of a ghost worked.
GetListed(c, k, fetched) ==
  /\ ~cache.segv /\ held[c] = NoKey
  /\ k \in cache.map /\ cache.in_list[k] # "no_list"
  /\ fetched \/ cache.in_list[k] \in {"b1", "b2"}
  /\ cache' = Ref(UpdateCache(cache, k, fetched), k)
  /\ held'  = [held EXCEPT ![c] = k]
  /\ UNCHANGED relisted

\* Mutant: a lingering entry gets the client's reference only.
GetLingeringOneRef(c, k) ==
  /\ ~cache.segv /\ held[c] = NoKey
  /\ k \in cache.map /\ cache.in_list[k] = "no_list"
  /\ cache' = Ref(ListAdd(cache, "t1", k), k)
  /\ held'  = [held EXCEPT ![c] = k]
  /\ relisted' = TRUE

\* ... of an entry that was evicted while a client held it: back to T1, with
\* the reference of the cache and that of the client.
GetLingering(c, k) ==
  /\ ~cache.segv /\ held[c] = NoKey
  /\ k \in cache.map /\ cache.in_list[k] = "no_list"
  /\ cache' = Ref(ListAdd(Ref(cache, k), "t1", k), k)
  /\ held'  = [held EXCEPT ![c] = k]
  /\ relisted' = TRUE

\* A new entry in the AVL and in T1, with the reference of the cache and that
\* of the client.
Created(s, k) ==
  IF s.segv THEN s
  ELSE Ref(ListAdd(Ref([s EXCEPT !.map = @ \cup {k}], k), "t1", k), k)

\* ... of a key that is not in the AVL: make room, then create the entry.
GetMiss(c, k) ==
  /\ ~cache.segv /\ held[c] = NoKey
  /\ k \notin cache.map
  /\ cache' = Created(OnNewAdded(cache), k)
  /\ held'  = IF cache'.segv THEN held ELSE [held EXCEPT ![c] = k]
  /\ UNCHANGED relisted

\* ... when new_cb has no memory for the entry: the room has been made.
GetNoMemory(c, k) ==
  /\ ~cache.segv /\ held[c] = NoKey
  /\ k \notin cache.map
  /\ cache' = OnNewAdded(cache)
  /\ UNCHANGED <<held, relisted>>

Get(c, k) ==
  \/ \E fetched \in BOOLEAN : GetListed(c, k, fetched)
  \/ GetLingering(c, k)
  \/ GetMiss(c, k)
  \/ GetNoMemory(c, k)

\* http2d_cache_entry_unref of a client's pointer, which it resets to NULL.
EntryUnref(c) ==
  /\ ~cache.segv /\ held[c] # NoKey
  /\ cache' = Unref(cache, held[c])
  /\ held'  = [held EXCEPT ![c] = NoKey]
  /\ UNCHANGED relisted

Next == \E c \in Clients : EntryUnref(c) \/ \E k \in Keys : Get(c, k)
Spec == Init /\ [][Next]_vars

-----------------------------------------------------------------------------
(* Properties. *)

Holders(k) == Cardinality({c \in Clients : held[c] = k})
Listed(k)  == \E l \in Lists : \E i \in 1..Len(cache.lists[l]) : cache.lists[l][i] = k
Lengths    == [l \in Lists |-> Len(cache.lists[l])]

\* The types of the cache's and the entries' fields; target_t1 stays between 0
\* and max_size.
TypeOK ==
  /\ \A l \in Lists : cache.lists[l] \in Seq(Keys)
  /\ cache.len \in [Lists -> Int]
  /\ cache.in_list \in [Keys -> Lists \cup {"no_list"}]
  /\ cache.ref_count \in [Keys -> Nat]
  /\ cache.map \subseteq Keys
  /\ cache.target_t1 \in 0..MaxSize
  /\ cache.segv \in BOOLEAN
  /\ held \in [Clients -> Keys \cup {NoKey}] /\ relisted \in BOOLEAN

\* The three records of where an entry is agree: in_list, which the switches
\* of the code trust, names the list the entry is linked in, once, and the
\* counters len_t1... that the policy computes with are the real lengths (the
\* pairs that http2d_cache_get_stats prints as "size" and "real").
ListsAgree ==
  /\ TypeOK
  /\ \A l \in Lists :
    /\ cache.len[l] = Len(cache.lists[l])
    /\ \A k \in Keys :
         Cardinality({i \in 1..Len(cache.lists[l]) : cache.lists[l][i] = k}) =
           IF cache.in_list[k] = l THEN 1 ELSE 0

\* entry_ref and entry_unref balance over every path of http2d_cache_get: the
\* count of an entry is one for each client that holds it and one for the
\* cache while it is listed, ghost or not; it is freed, and out of the AVL,
\* exactly when it is neither: no client keeps a pointer to a freed entry, no
\* list links one, and none is left in the AVL for good.
RefsExact ==
  \A k \in Keys :
    /\ cache.ref_count[k] = Holders(k) + (IF Listed(k) THEN 1 ELSE 0)
    /\ k \in cache.map <=> Holders(k) > 0 \/ Listed(k)

\* The bounds of the ARC policy that on_new_added and replace are to keep: as
\* many resident entries as max_size, as many entries in T1 and its ghosts,
\* and twice as many in all; within them there always is an entry to evict, so
\* that on_new_added never follows the NULL that get_lru leaves for an empty
\* list.  They hold until http2d_cache_get puts an evicted entry back into T1
\* without making room for it.
WithinMaxSize ==
  ~relisted =>
    /\ Lengths["t1"] + Lengths["t2"] <= MaxSize
    /\ Lengths["t1"] + Lengths["b1"] <= MaxSize
    /\ Lengths["t1"] + Lengths["t2"] + Lengths["b1"] + Lengths["b2"] <= 2 * MaxSize
    /\ ~cache.segv

\* "The cache is full: Remove from B2" (on_new_added): there is one to remove.
FullCacheHasGhosts == ~cache.segv
=============================================================================
