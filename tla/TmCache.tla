------------------------------ MODULE TmCache ------------------------------
(***************************************************************************)
(* The in-memory LRU cache in front of the translation memory              *)
(* (translator-engine/src/tm/cache.rs).  Every method of TmCache runs      *)
(* under one mutex, so each is one operator on the pair the mutex guards:  *)
(* the map and the recency order (first = least recently used).            *)
(***************************************************************************)
EXTENDS Naturals, FiniteSets, SequencesExt

CONSTANTS
    Keys,      \* content hashes of (source text, source and target language)
    NoRow,     \* what a lookup of an unknown key finds
    Capacity   \* tm_cache_size, floored at 1 by TmCache::new

ASSUME CacheAssumption == IsFiniteSet(Keys) /\ Capacity \in Nat \ {0}

EmptyCache == [map |-> [k \in Keys |-> NoRow], order |-> <<>>]

Cached(c) == {k \in Keys : c.map[k] # NoRow}

\* order.remove(position of k): a key stands in the order at most once.
Forget(order, k) ==
    IF k \in ToSet(order)
    THEN RemoveAt(order, CHOOSE i \in DOMAIN order : order[i] = k)
    ELSE order

Touch(order, k) == Append(Forget(order, k), k)

\* get, when it finds the key: a read is a use.
Refresh(c, k) == [c EXCEPT !.order = Touch(@, k)]

\* put adds at most one key, so its `while len > capacity` loop turns at most once.
Put(c, k, row) ==
    LET full  == [map |-> [c.map EXCEPT ![k] = row], order |-> Touch(c.order, k)]
        oldest == Head(full.order)
    IN  IF Cardinality(Cached(full)) > Capacity
        THEN [map |-> [full.map EXCEPT ![oldest] = NoRow], order |-> Tail(full.order)]
        ELSE full

\* Fault: the key stays in the recency order.
InvalidateMapOnly(c, k) == [c EXCEPT !.map[k] = NoRow]

Invalidate(c, k) ==
    [map |-> [c.map EXCEPT ![k] = NoRow], order |-> Forget(c.order, k)]

\* bump_hit_count: only a cached row is counted, and its recency does not move.
BumpHits(c, k) ==
    IF c.map[k] = NoRow THEN c ELSE [c EXCEPT !.map[k].hits = @ + 1]

\* warmup: put the given keys, in order, into the empty cache.  Keys are distinct,
\* so the loop leaves the last Capacity of them.
WarmUp(keys, row) ==
    LET first == IF Len(keys) > Capacity THEN Len(keys) - Capacity + 1 ELSE 1
        kept  == SubSeq(keys, first, Len(keys))
    IN  [map   |-> [k \in Keys |-> IF k \in ToSet(kept) THEN row[k] ELSE NoRow],
         order |-> kept]

(***************************************************************************)
(* The map and the order describe the same entries: the order lists every  *)
(* cached key once and nothing else, and the cache keeps to its capacity.  *)
(* Eviction trusts the order to name a cached key; a stale name in it      *)
(* would let the map outgrow the capacity, a missing one is never evicted. *)
(***************************************************************************)
Consistent(c) ==
    /\ ToSet(c.order) = Cached(c)
    /\ IsInjective(c.order)
    /\ Cardinality(Cached(c)) <= Capacity
=============================================================================
