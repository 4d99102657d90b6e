----------------------------- MODULE BoundedCache -----------------------------
(***************************************************************************)
(* What a cache of the gcache package promises whatever its eviction       *)
(* policy: a map from keys to values that never grows over its capacity,   *)
(* where a key holds the value of its last Set, and where only an insert   *)
(* into a full cache loses a key, one key, and never the one inserted.     *)
(* LRUCache and LFUCache are shown to implement it.                        *)
(***************************************************************************)
EXTENDS Integers, FiniteSets

CONSTANTS Keys, Values, Size

VARIABLE store

Init == store = [k \in {} |-> 0]

\* Set of a key that is present: only its own value changes.
Overwrite(k, v) ==
    /\ k \in DOMAIN store
    /\ store' = [store EXCEPT ![k] = v]

\* Set of a new key while there is room.
Insert(k, v) ==
    /\ k \notin DOMAIN store
    /\ Cardinality(DOMAIN store) < Size
    /\ store' = [j \in DOMAIN store \cup {k} |-> IF j = k THEN v ELSE store[j]]

\* Set of a new key into a full cache: exactly one other key makes room.
Replace(k, v, victim) ==
    /\ k \notin DOMAIN store
    /\ Cardinality(DOMAIN store) = Size
    /\ victim \in DOMAIN store
    /\ store' = [j \in (DOMAIN store \ {victim}) \cup {k} |->
                    IF j = k THEN v ELSE store[j]]

Next == \E k \in Keys, v \in Values :
           \/ Overwrite(k, v)
           \/ Insert(k, v)
           \/ \E victim \in Keys : Replace(k, v, victim)

Spec == Init /\ [][Next]_store

===============================================================================
