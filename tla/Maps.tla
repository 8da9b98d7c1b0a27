------------------------------- MODULE Maps -------------------------------
(* A JavaScript Map as a function: set and delete.                          *)
Put(f, k, v) == [x \in DOMAIN f \cup {k} |-> IF x = k THEN v ELSE f[x]]
Drop(f, ks) == [x \in DOMAIN f \ ks |-> f[x]]
=============================================================================
