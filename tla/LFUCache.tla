------------------------------- MODULE LFUCache -------------------------------
(***************************************************************************)
(* gcache/lfu.go: the O(1) least-frequently-used cache.  ThreadSafeLFUCache *)
(* takes the exclusive lock around every call, so a call is one step.      *)
(*                                                                         *)
(* The cache map and the linked lists are three structures that every call *)
(* must keep in agreement: cache (key -> entry), freqToList (frequency ->   *)
(* list of keys, most recently used first) and minFreq, the shortcut that  *)
(* lets evict find its victim without a search.  A frequency whose list    *)
(* was never created is the empty list here: evict treats both alike, and  *)
(* every other access creates the list first.                              *)
(***************************************************************************)
EXTENDS Integers, Sequences, FiniteSets, Functions

CONSTANTS Keys,      \* the keys the callers use
          Values,    \* the values the callers store
          Capacity,  \* the argument of NewLFUCache
          MaxFreq    \* bound on the frequency a key reaches

\* What the constants must be.
LFUConstants ==
    /\ IsFiniteSet(Keys)
    /\ Capacity \in Int
    /\ MaxFreq \in Nat \ {0}

VARIABLES cache,       \* key -> [value, freq], for the keys present
          freqToList,  \* frequency -> sequence of keys
          minFreq,     \* the frequency evict looks at
          recency      \* history: every key present, last used first

vars == <<cache, freqToList, minFreq, recency>>

Freqs == 1..MaxFreq

capacity == IF Capacity <= 0 THEN 1 ELSE Capacity

\* The list without the element holding k, and with k at the front.
Unlink(s, k) == LET p == CHOOSE i \in DOMAIN s : s[i] = k
                IN  SubSeq(s, 1, p - 1) \o SubSeq(s, p + 1, Len(s))
PushFront(s, k) == <<k>> \o s

\* Mutant: The front of the list is taken for the least recently used end.
Back_Front(s) == s[1]

\* list.Back: the least recently used end.
Back(s) == s[Len(s)]

Init ==
    /\ cache = [k \in {} |-> 0]
    /\ freqToList = [f \in Freqs |-> <<>>]
    /\ minFreq = 0
    /\ recency = <<>>

-------------------------------------------------------------------------------
\* Mutant: The check that the emptied list was the minimal one is forgotten.
incrementFrequency_AnyEmpty(k) ==
    LET f   == cache[k].freq
        cur == Unlink(freqToList[f], k)
    IN  /\ f + 1 \in Freqs
        /\ freqToList' = [freqToList EXCEPT ![f] = cur,
                                            ![f + 1] = PushFront(@, k)]
        /\ minFreq' = IF cur = <<>> THEN minFreq + 1 ELSE minFreq

\* Mutant: The element is not removed from the list it leaves.
incrementFrequency_NoUnlink(k) ==
    LET f   == cache[k].freq
        cur == Unlink(freqToList[f], k)
    IN  /\ f + 1 \in Freqs
        /\ freqToList' = [freqToList EXCEPT ![f + 1] = PushFront(@, k)]
        /\ minFreq' = IF cur = <<>> /\ f = minFreq THEN minFreq + 1 ELSE minFreq

\* Moves k from the list of its frequency to the front of the next one.
incrementFrequency(k) ==
    LET f   == cache[k].freq
        cur == Unlink(freqToList[f], k)
    IN  /\ f + 1 \in Freqs
        /\ freqToList' = [freqToList EXCEPT ![f] = cur,
                                            ![f + 1] = PushFront(@, k)]
        /\ minFreq' = IF cur = <<>> /\ f = minFreq THEN minFreq + 1 ELSE minFreq

\* Get of a key that is present; a miss changes nothing.
Get(k) ==
    /\ k \in DOMAIN cache
    /\ incrementFrequency(k)
    /\ cache' = [cache EXCEPT ![k].freq = @ + 1]
    /\ recency' = PushFront(Unlink(recency, k), k)

\* Set of a key that is present: the new value, and one more use.
SetPresent(k, v) ==
    /\ k \in DOMAIN cache
    /\ incrementFrequency(k)
    /\ cache' = [cache EXCEPT ![k] = [value |-> v, freq |-> @.freq + 1]]
    /\ recency' = PushFront(Unlink(recency, k), k)

\* Mutant: room is made only once the cache is over its capacity.
evict_OffByOne ==
    IF Cardinality(DOMAIN cache) <= capacity \/ minFreq \notin Freqs THEN {}
    ELSE IF freqToList[minFreq] = <<>> THEN {}
    ELSE {Back(freqToList[minFreq])}

\* The keys evict removes: the back of the minFreq list, or none when that
\* list is missing or empty.
evict ==
    IF Cardinality(DOMAIN cache) < capacity \/ minFreq \notin Freqs THEN {}
    ELSE IF freqToList[minFreq] = <<>> THEN {}
    ELSE {Back(freqToList[minFreq])}

listsAfterEvict ==
    IF evict = {} THEN freqToList
    ELSE [freqToList EXCEPT ![minFreq] = SubSeq(@, 1, Len(@) - 1)]

\* Set of a new key: evict if full, then enter the key with frequency 1.
SetAbsent(k, v) ==
    /\ k \notin DOMAIN cache
    /\ cache' = [j \in (DOMAIN cache \ evict) \cup {k} |->
                    IF j = k THEN [value |-> v, freq |-> 1] ELSE cache[j]]
    /\ freqToList' = [listsAfterEvict EXCEPT ![1] = PushFront(@, k)]
    /\ minFreq' = 1
    /\ recency' = PushFront(IF evict = {} THEN recency
                            ELSE Unlink(recency, CHOOSE e \in evict : TRUE), k)

Next == \E k \in Keys :
           \/ Get(k)
           \/ \E v \in Values : SetPresent(k, v) \/ SetAbsent(k, v)

Spec == Init /\ [][Next]_vars

-------------------------------------------------------------------------------
TypeOK ==
    /\ DOMAIN cache \subseteq Keys
    /\ \A k \in DOMAIN cache : cache[k] \in [value : Values, freq : Freqs]
    /\ freqToList \in [Freqs -> Seq(Keys)]
    /\ minFreq \in 0..MaxFreq
    /\ recency \in Seq(Keys)

\* The map and the lists describe the same cache: an entry is in the list of
\* its own frequency, in no other, and once (Get, Set and evict each update
\* both structures).
IndexAgrees ==
    /\ \A k \in DOMAIN cache : k \in Range(freqToList[cache[k].freq])
    /\ \A f \in Freqs :
          /\ IsInjective(freqToList[f])
          /\ \A k \in Range(freqToList[f]) : k \in DOMAIN cache /\ cache[k].freq = f

\* minFreq names the lowest list that is not empty, so that evict finds a
\* victim without a search; a stale minFreq makes evict return without
\* evicting and the cache outgrow its capacity.
MinFreqIsMin ==
    DOMAIN cache # {} =>
        /\ minFreq \in Freqs
        /\ freqToList[minFreq] # <<>>
        /\ \A f \in Freqs : f < minFreq => freqToList[f] = <<>>

\* NewLFUCache's capacity is never exceeded.
WithinCapacity == Cardinality(DOMAIN cache) <= capacity

\* a was used no later than b.
NoLaterThan(a, b) ==
    \E i, j \in DOMAIN recency : recency[i] = a /\ recency[j] = b /\ i >= j

\* The key that evict removes has the lowest frequency of all keys present
\* and, among those, was used longest ago ("the least frequently and least
\* recently used item"), however the frequency lists came to be ordered.
EvictsLeastFrequent ==
    [][\A k \in DOMAIN cache \ DOMAIN cache' : \A j \in DOMAIN cache :
          \/ cache[k].freq < cache[j].freq
          \/ cache[k].freq = cache[j].freq /\ NoLaterThan(k, j)]_vars

\* An LFU cache is a bounded cache: what Get answers is the value of the last
\* Set, and a key is lost to the insert of another one into a full cache only.
Abstract == INSTANCE BoundedCache WITH
               Size <- capacity,
               store <- [k \in DOMAIN cache |-> cache[k].value]

ImplementsBoundedCache == Abstract!Spec

===============================================================================
