------------------------------ MODULE KVStore ------------------------------
(***************************************************************************)
(* A module's key/value store, as the Cosmos SDK gives it to the keepers   *)
(* (code outside src/): a function whose domain is the set of keys that    *)
(* are present.                                                            *)
(***************************************************************************)

(* store.Set(k, v) *)
Put(f, k, v) == [x \in DOMAIN f \cup {k} |-> IF x = k THEN v ELSE f[x]]

(* store.Delete(k): deleting an absent key changes nothing. *)
Del(f, k) == [x \in DOMAIN f \ {k} |-> f[x]]

(* The store in which nothing is set. *)
EmptyStore == [x \in {} |-> x]
=============================================================================
