-------------------------------- MODULE StdMap --------------------------------
(***************************************************************************)
(* The operations of std::map the program uses, on partial functions: the  *)
(* keys present are the function's domain.                                 *)
(***************************************************************************)
EXTENDS Functions

\* Every map from keys in K to values in V.
Maps(K, V) == UNION {[D -> V] : D \in SUBSET K}

\* The same, for values of a type TLC cannot enumerate.
IsMap(m, K, V) == DOMAIN m \subseteq K /\ m \in [DOMAIN m -> V]

EmptyMap == [x \in {} |-> x]

\* std::map::insert: inserting under a key that is there already does nothing.
Insert(m, k, v) ==
  IF k \in DOMAIN m THEN m
  ELSE [x \in DOMAIN m \cup {k} |-> IF x = k THEN v ELSE m[x]]

\* std::map::erase by key.
Erase(m, k) == Restrict(m, DOMAIN m \ {k})
=============================================================================
