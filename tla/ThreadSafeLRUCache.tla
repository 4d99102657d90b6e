-------------------------- MODULE ThreadSafeLRUCache --------------------------
(***************************************************************************)
(* gcache/lru.go, ThreadSafeLRUCache: Set runs under the exclusive lock,   *)
(* but Get runs under the shared one although it moves the element it      *)
(* found to the front of the list.  Two Gets may therefore move elements   *)
(* at once.  The list is modelled as container/list builds it, a ring of   *)
(* next and prev pointers through a root, and a move is one step per       *)
(* assignment of list.move; everything under the exclusive lock is one     *)
(* step.                                                                   *)
(***************************************************************************)
EXTENDS Integers, Sequences, FiniteSets, Functions

CONSTANTS Readers,   \* the goroutines that call Get
          Keys, Values,
          Capacity,  \* the argument of NewThreadSafeLRUCache, at least 1
          root, nil  \* the sentinel of the ring, and a null pointer

\* What the constants must be.
TSLRUConstants == Capacity \in Nat \ {0} /\ root \notin Keys /\ nil \notin Keys

Nodes == Keys \cup {root}

VARIABLES ring,   \* [next, prev], each from a node to a node
          value,  \* key -> value, for the keys of the map
          move    \* reader -> the key it moves and the assignment it is at

vars == <<ring, value, move>>

Idle == [key |-> nil, at |-> 0]

Init ==
    /\ ring = [next |-> [n \in Nodes |-> IF n = root THEN root ELSE nil],
               prev |-> [n \in Nodes |-> IF n = root THEN root ELSE nil]]
    /\ value = [k \in {} |-> 0]
    /\ move = [r \in Readers |-> Idle]

\* The six assignments of list.move(e, &l.root).
Assignment(i, r, e) ==
    CASE i = 1 -> [r EXCEPT !.next[r.prev[e]] = r.next[e]]
      [] i = 2 -> [r EXCEPT !.prev[r.next[e]] = r.prev[e]]
      [] i = 3 -> [r EXCEPT !.prev[e] = root]
      [] i = 4 -> [r EXCEPT !.next[e] = r.next[root]]
      [] i = 5 -> [r EXCEPT !.next[r.prev[e]] = e]
      [] i = 6 -> [r EXCEPT !.prev[r.next[e]] = e]

\* Assignments i to j, in order.
Assignments(i, j, r, e) ==
    LET after[n \in (i - 1)..j] ==
            IF n < i THEN r ELSE Assignment(n, after[n - 1], e)
    IN  after[j]

\* MoveToFront, PushFront and Remove(Back) without a goroutine in between.
MovedToFront(r, e) == IF r.next[root] = e THEN r ELSE Assignments(1, 6, r, e)
PushedFront(r, e)  == Assignments(3, 6, r, e)
RemovedBack(r)     ==
    LET e == r.prev[root]
        s == Assignments(1, 2, r, e)
    IN  [next |-> [s.next EXCEPT ![e] = nil], prev |-> [s.prev EXCEPT ![e] = nil]]

-------------------------------------------------------------------------------
Locked == \E r \in Readers : move[r] # Idle

\* Get, under RLock: the key is found and is not at the front already.
GetStart(r, k) ==
    /\ move[r] = Idle
    /\ k \in DOMAIN value
    /\ ring.next[root] # k
    /\ move' = [move EXCEPT ![r] = [key |-> k, at |-> 1]]
    /\ UNCHANGED <<ring, value>>

\* One assignment of the move; RUnlock after the last.
GetMove(r) ==
    /\ move[r] # Idle
    /\ ring' = Assignment(move[r].at, ring, move[r].key)
    /\ move' = [move EXCEPT ![r] = IF @.at = 6 THEN Idle
                                   ELSE [key |-> @.key, at |-> @.at + 1]]
    /\ UNCHANGED value

\* Mutant: the new value of a key that is present does not count as a use.
Set_InPlace(k, v) ==
    /\ ~Locked
    /\ LET full   == Cardinality(DOMAIN value) >= Capacity
           victim == ring.prev[root]
       IN  IF k \in DOMAIN value
           THEN value' = [value EXCEPT ![k] = v] /\ UNCHANGED ring
           ELSE /\ ring' = PushedFront(IF full THEN RemovedBack(ring) ELSE ring, k)
                /\ value' = [j \in (DOMAIN value \ (IF full THEN {victim} ELSE {}))
                                        \cup {k} |->
                                IF j = k THEN v ELSE value[j]]
    /\ UNCHANGED move

\* Set, under Lock: no Get is between its RLock and RUnlock.
Set_(k, v) ==
    /\ ~Locked
    /\ LET full   == Cardinality(DOMAIN value) >= Capacity
           victim == ring.prev[root]
       IN  IF k \in DOMAIN value
           THEN /\ ring' = MovedToFront(ring, k)
                /\ value' = [value EXCEPT ![k] = v]
           ELSE /\ ring' = PushedFront(IF full THEN RemovedBack(ring) ELSE ring, k)
                /\ value' = [j \in (DOMAIN value \ (IF full THEN {victim} ELSE {}))
                                        \cup {k} |->
                                IF j = k THEN v ELSE value[j]]
    /\ UNCHANGED move

Next == \/ \E r \in Readers : GetMove(r) \/ \E k \in Keys : GetStart(r, k)
        \/ \E k \in Keys, v \in Values : Set_(k, v)

Spec == Init /\ [][Next]_vars

-------------------------------------------------------------------------------
\* The first n nodes from the root along the pointers p.
Walk(p, n) ==
    LET seq[i \in 1..n] == IF i = 1 THEN p[root]
                           ELSE IF seq[i - 1] = nil THEN nil ELSE p[seq[i - 1]]
    IN  seq

\* While no Get runs, next leads from the root through every key of the map
\* and back, each once, and prev leads the same way backwards.
RingIntact ==
    LET n == Cardinality(DOMAIN value)
        w == Walk(ring.next, n + 1)
    IN  ~Locked =>
          /\ {w[i] : i \in 1..n} = DOMAIN value
          /\ w[n + 1] = root
          /\ \A k \in Nodes : ring.next[k] # nil => ring.prev[ring.next[k]] = k

\* The ring as it will be once the running Get has made its assignments.
Settled ==
    IF ~Locked THEN ring
    ELSE LET r == CHOOSE r \in Readers : move[r] # Idle
         IN  Assignments(move[r].at, 6, ring, move[r].key)

\* The entries of the list then, front first.
Listed ==
    LET n == Cardinality(DOMAIN value)
        w == Walk(Settled.next, n)
    IN  [i \in 1..n |-> [key |-> w[i], value |-> value[w[i]]]]

\* With one Get at a time the ring is the sequence of LRUCache, and the value
\* returned and the victim chosen are those of LRUCache.
LRU == INSTANCE LRUCache WITH cache <- DOMAIN value, ll <- Listed

ImplementsLRU == LRU!Spec

\* And it is a bounded cache: what Get answers is the value of the last Set, and
\* a key is lost to the insert of another one into a full cache only.
ImplementsBoundedCache == LRU!ImplementsBoundedCache

===============================================================================
