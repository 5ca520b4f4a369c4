------------------------------- MODULE GoMap -------------------------------
(* A Go map: a function on the keys that are present.  Reading an absent   *)
(* key gives the element type's zero value, storing adds or overwrites,    *)
(* and deleting an absent key changes nothing.                             *)

EmptyMap == [k \in {} |-> {}]

Has(m, k) == k \in DOMAIN m

Lookup(m, k, zero) == IF Has(m, k) THEN m[k] ELSE zero

Store(m, k, v) == [x \in DOMAIN m \cup {k} |-> IF x = k THEN v ELSE m[x]]

Without(m, k) == [x \in DOMAIN m \ {k} |-> m[x]]
=============================================================================
