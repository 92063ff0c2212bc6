-------------------------------- MODULE Maps --------------------------------
(* Go maps as functions whose domain is the set of keys present. *)

\* m[k] = v
Put(m, k, v) == [x \in DOMAIN m \cup {k} |-> IF x = k THEN v ELSE m[x]]

\* delete(m, k)
Remove(m, k) == [x \in DOMAIN m \ {k} |-> m[x]]
=============================================================================
