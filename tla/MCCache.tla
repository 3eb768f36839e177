------------------------------- MODULE MCCache -------------------------------
(* The cache for TLC, with states identified that differ in names only.     *)
EXTENDS Cache

\* Keys and clients are interchangeable: two states that differ only in their
\* names agree on the lists with the number of holders at each place, on the
\* holders of entries in no list, and on the target.
Shape ==
  <<[l \in Lists |-> [i \in 1..Len(cache.lists[l]) |->
                       LET k == cache.lists[l][i]
                       IN  <<Holders(k), cache.ref_count[k], cache.in_list[k]>>]],
    cache.len,
    LET out == {k \in Keys : ~Listed(k)}
        like(k) == <<Holders(k), cache.ref_count[k], cache.in_list[k], k \in cache.map>>
    IN  [v \in {like(k) : k \in out} |-> Cardinality({k \in out : like(k) = v})],
    cache.target_t1, cache.segv, relisted>>
=============================================================================
