---------------------------- MODULE StdMapTheorems ----------------------------
(* What the operations of StdMap do to a map of any type, stated once. *)
EXTENDS StdMap, TLAPS

\* A map is a function on the set of its keys.
LEMMA MapsDef ==
  ASSUME NEW K, NEW V, NEW m
  PROVE  m \in Maps(K, V) <=> DOMAIN m \subseteq K /\ m \in [DOMAIN m -> V]
  BY DEF Maps

LEMMA EmptyMapTyped ==
  ASSUME NEW K, NEW V
  PROVE  EmptyMap \in Maps(K, V) /\ DOMAIN EmptyMap = {}
  <1>1. DOMAIN EmptyMap = {}
    BY DEF EmptyMap
  <1>2. EmptyMap \in [{} -> V]
    BY DEF EmptyMap
  <1>3. QED
    BY <1>1, <1>2, MapsDef

\* Inserting keeps a map a map and every entry it had; the new entry counts
\* only when the key was free.
LEMMA InsertMap ==
  ASSUME NEW K, NEW V, NEW m \in Maps(K, V), NEW k \in K, NEW v \in V
  PROVE  /\ Insert(m, k, v) \in Maps(K, V)
         /\ DOMAIN Insert(m, k, v) = DOMAIN m \cup {k}
         /\ \A x \in DOMAIN m : Insert(m, k, v)[x] = m[x]
         /\ k \notin DOMAIN m => Insert(m, k, v)[k] = v
  <1>1. CASE k \in DOMAIN m
    BY <1>1 DEF Insert
  <1>2. CASE k \notin DOMAIN m
    <2>1. DOMAIN m \subseteq K /\ m \in [DOMAIN m -> V]
      BY MapsDef
    <2>2. Insert(m, k, v) \in [DOMAIN m \cup {k} -> V]
      BY <1>2, <2>1 DEF Insert
    <2>3. DOMAIN Insert(m, k, v) = DOMAIN m \cup {k}
      BY <1>2 DEF Insert
    <2>4. Insert(m, k, v) \in Maps(K, V)
      BY <2>1, <2>2, <2>3, MapsDef
    <2>5. QED
      BY <1>2, <2>3, <2>4 DEF Insert
  <1>3. QED
    BY <1>1, <1>2

\* Erasing a key removes its entry and leaves the others alone.
LEMMA EraseMap ==
  ASSUME NEW K, NEW V, NEW m \in Maps(K, V), NEW k
  PROVE  /\ Erase(m, k) \in Maps(K, V)
         /\ DOMAIN Erase(m, k) = DOMAIN m \ {k}
         /\ \A x \in DOMAIN m \ {k} : Erase(m, k)[x] = m[x]
  <1>1. DOMAIN m \subseteq K /\ m \in [DOMAIN m -> V]
    BY MapsDef
  <1>2. DOMAIN Erase(m, k) = DOMAIN m \ {k}
    BY DEF Erase, Restrict
  <1>3. Erase(m, k) \in [DOMAIN m \ {k} -> V]
    BY <1>1 DEF Erase, Restrict
  <1>4. QED
    BY <1>1, <1>2, <1>3, MapsDef DEF Erase, Restrict

\* Overwriting the value under a key that is present.
LEMMA UpdateMap ==
  ASSUME NEW K, NEW V, NEW m \in Maps(K, V), NEW k \in DOMAIN m, NEW v \in V
  PROVE  /\ [m EXCEPT ![k] = v] \in Maps(K, V)
         /\ DOMAIN [m EXCEPT ![k] = v] = DOMAIN m
         /\ [m EXCEPT ![k] = v][k] = v
         /\ \A x \in DOMAIN m \ {k} : [m EXCEPT ![k] = v][x] = m[x]
  <1>1. DOMAIN m \subseteq K /\ m \in [DOMAIN m -> V]
    BY MapsDef
  <1>2. [m EXCEPT ![k] = v] \in [DOMAIN m -> V]
    BY <1>1
  <1>3. QED
    BY <1>1, <1>2, MapsDef

\* The value under a key that is present has the type of the map's values.
LEMMA MapValue ==
  ASSUME NEW K, NEW V, NEW m \in Maps(K, V), NEW k \in DOMAIN m
  PROVE  k \in K /\ m[k] \in V
  BY MapsDef
=============================================================================
