----------------------------- MODULE Dictionary -----------------------------
(***************************************************************************)
(* What the AVL tree promises its users (the cache, the configuration tree, *)
(* the header store, the resolver): a map from keys to values, in which a  *)
(* key that is present is never overwritten.                               *)
(***************************************************************************)
EXTENDS Integers

CONSTANTS Keys, Values, None

VARIABLES
  dict,   \* the map, None where a key is absent
  ret     \* what the last call returned: a code, and a value for ret_ok

Init == dict = [k \in Keys |-> None] /\ ret = <<"ok", None>>

Add(k, v) ==
  IF dict[k] = None
  THEN dict' = [dict EXCEPT ![k] = v] /\ ret' = <<"ok", None>>
  ELSE ret' = <<"error", None>> /\ UNCHANGED dict

Del(k) ==
  IF dict[k] = None
  THEN ret' = <<"not_found", None>> /\ UNCHANGED dict
  ELSE ret' = <<"ok", dict[k]>> /\ dict' = [dict EXCEPT ![k] = None]

Get(k) ==
  /\ ret' = IF dict[k] = None THEN <<"not_found", None>> ELSE <<"ok", dict[k]>>
  /\ UNCHANGED dict

Refuse == ret' = <<"error", None>> /\ UNCHANGED dict
Clear  == dict' = [k \in Keys |-> None] /\ ret' = <<"ok", None>>

Next ==
  \/ \E k \in Keys : Del(k) \/ Get(k) \/ \E v \in Values : Add(k, v)
  \/ Refuse
  \/ Clear

Spec == Init /\ [][Next]_<<dict, ret>>
=============================================================================
