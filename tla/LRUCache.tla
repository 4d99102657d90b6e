------------------------------- MODULE LRUCache -------------------------------
(***************************************************************************)
(* gcache/lru.go: the least-recently-used cache, called by one goroutine   *)
(* at a time.  ll is the linked list, front first; cache is the map from   *)
(* keys to list elements, so it is the set of its keys: an element is      *)
(* known by the key its lruEntry holds.  ThreadSafeLRUCache implements it.   *)
(***************************************************************************)
EXTENDS Integers, Sequences

CONSTANTS Keys, Values,
          Capacity  \* the argument of NewLRUCache

VARIABLES ll,      \* sequence of [key, value]
          cache    \* the keys of the map

vars == <<ll, cache>>

capacity == IF Capacity <= 0 THEN 1 ELSE Capacity

Init == ll = <<>> /\ cache = {}

Position(k) == CHOOSE i \in DOMAIN ll : ll[i].key = k

\* list.MoveToFront of the element of k, its value then becoming v.
MoveToFront(k, v) ==
    LET p == Position(k)
    IN  <<[key |-> k, value |-> v]>> \o SubSeq(ll, 1, p - 1)
                                     \o SubSeq(ll, p + 1, Len(ll))

\* Get of a key that is present; a miss changes nothing.
Get(k) ==
    /\ k \in cache
    /\ ll' = MoveToFront(k, ll[Position(k)].value)
    /\ UNCHANGED cache

SetPresent(k, v) ==
    /\ k \in cache
    /\ ll' = MoveToFront(k, v)
    /\ UNCHANGED cache

\* Set of a new key: the back of the list makes room when it is full.
SetAbsent(k, v) ==
    LET full == Len(ll) >= capacity
        kept == IF full THEN SubSeq(ll, 1, Len(ll) - 1) ELSE ll
    IN  /\ k \notin cache
        /\ ll' = <<[key |-> k, value |-> v]>> \o kept
        /\ cache' = (IF full THEN cache \ {ll[Len(ll)].key} ELSE cache) \cup {k}

Next == \E k \in Keys :
           \/ Get(k)
           \/ \E v \in Values : SetPresent(k, v) \/ SetAbsent(k, v)

Spec == Init /\ [][Next]_vars

-------------------------------------------------------------------------------
\* An LRU cache is a bounded cache.
Abstract == INSTANCE BoundedCache WITH
               Size <- capacity,
               store <- [k \in cache |-> ll[Position(k)].value]

ImplementsBoundedCache == Abstract!Spec

===============================================================================
