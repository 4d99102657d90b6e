------------------------------ MODULE MemoryCache ------------------------------
(***************************************************************************)
(* gcache/memory.go: the in-process cache.  The map is guarded by mu, but  *)
(* Get keeps the *memoryItem it found after it released mu, judges its     *)
(* expiry without the lock, and takes the lock again to delete the key on  *)
(* a miss; Expire writes expiresAt of a shared item in place; the cleanup  *)
(* goroutine reads the clock before it takes the lock.  Everything under   *)
(* one hold of the lock that the unlocked readers cannot see into is one   *)
(* step.                                                                   *)
(***************************************************************************)
EXTENDS Integers, FiniteSets

CONSTANTS Keys,
          Getters,   \* the goroutines that call Get
          TTLs,      \* expirations, 0 for "never expires"
          Ids,       \* item identities, enough for the map and the readers
          MaxTime,   \* bound on the clock
          none       \* a nil pointer, an absent key

\* What the constants must be.
MemoryConstants ==
    /\ TTLs \subseteq Nat /\ MaxTime \in Nat /\ none \notin Ids
    /\ IsFiniteSet(Keys) /\ IsFiniteSet(Getters)
    /\ Cardinality(Ids) > Cardinality(Keys) + Cardinality(Getters)

Never == 0           \* the zero time of expiresAt; the clock starts at 1

VARIABLES items,     \* key -> item id, for the keys present
          heap,      \* item id -> [number, expiresAt]: whether the value
                     \* parses as an integer, and when it expires
          now,       \* time.Now()
          expiring,  \* none, or the write an Expire holding mu is making
          get,       \* getter -> [at, key, item]
          wasLive,   \* history: getter -> the item it read had not expired
          closed,    \* stopCleanup has been closed
          tick,      \* a tick waits in the ticker's channel
          cleanup    \* the goroutine: [at, now]

vars == <<items, heap, now, expiring, get, wasLive, closed, tick, cleanup>>

Blank  == [number |-> FALSE, expiresAt |-> Never]
NoCall == [at |-> "idle", key |-> none, item |-> none]

Init ==
    /\ items = [k \in {} |-> none]
    /\ heap = [i \in Ids |-> Blank]
    /\ now = 1
    /\ expiring = none
    /\ get = [g \in Getters |-> NoCall]
    /\ wasLive = [g \in Getters |-> FALSE]
    /\ closed = FALSE
    /\ tick = FALSE
    /\ cleanup = [at |-> "wait", now |-> 0]

isExpired(i) == heap[i].expiresAt # Never /\ now > heap[i].expiresAt

unlocked == expiring = none

\* The items somebody refers to.  Memory nobody refers to is collected, and a
\* new item takes any of it.
Referenced == {items[k] : k \in DOMAIN items} \cup {get[g].item : g \in Getters}
Collected(h) == [i \in Ids |-> IF i \in Referenced' THEN h[i] ELSE Blank]
Fresh == CHOOSE i \in Ids : i \notin Referenced

Store(k, number, expiresAt) ==
    /\ items' = [j \in DOMAIN items \cup {k} |-> IF j = k THEN Fresh ELSE items[j]]
    /\ get' = get
    /\ heap' = Collected([heap EXCEPT ![Fresh] = [number |-> number,
                                                 expiresAt |-> expiresAt]])

\* The keys ks leave the map; the getters go on as calls says.
Drop(ks, calls) ==
    /\ items' = [j \in DOMAIN items \ ks |-> items[j]]
    /\ get' = calls
    /\ heap' = Collected(heap)

-------------------------------------------------------------------------------
\* Writers: one hold of mu each.
Set_(k, number, ttl) ==
    /\ unlocked
    /\ Store(k, number, IF ttl > 0 THEN now + ttl ELSE Never)
    /\ UNCHANGED <<now, expiring, wasLive, closed, tick, cleanup>>

Delete(k) ==
    /\ unlocked
    /\ Drop({k}, get)
    /\ UNCHANGED <<now, expiring, wasLive, closed, tick, cleanup>>

\* Increment and Decrement: a live counter keeps its expiry, an absent or
\* expired one starts at zero and never expires; a value that is not a number
\* is an error and stays.
add(k) ==
    /\ unlocked
    /\ IF k \in DOMAIN items /\ ~isExpired(items[k])
       THEN heap[items[k]].number /\ Store(k, TRUE, heap[items[k]].expiresAt)
       ELSE Store(k, TRUE, Never)
    /\ UNCHANGED <<now, expiring, wasLive, closed, tick, cleanup>>

\* Mutant: an expired item is given a new life.
Expire_Revives(k, ttl) ==
    /\ unlocked /\ ttl > 0 /\ k \in DOMAIN items
    /\ expiring' = [item |-> items[k], expiresAt |-> now + ttl]
    /\ UNCHANGED <<items, heap, now, get, wasLive, closed, tick, cleanup>>

\* Expire of a live item: mu is held while expiresAt, several words long, is
\* overwritten.
Expire(k, ttl) ==
    /\ unlocked /\ ttl > 0 /\ k \in DOMAIN items
    /\ ~isExpired(items[k])
    /\ expiring' = [item |-> items[k], expiresAt |-> now + ttl]
    /\ UNCHANGED <<items, heap, now, get, wasLive, closed, tick, cleanup>>

ExpireWritten ==
    /\ ~unlocked
    /\ heap' = [heap EXCEPT ![expiring.item].expiresAt = expiring.expiresAt]
    /\ expiring' = none
    /\ UNCHANGED <<items, now, get, wasLive, closed, tick, cleanup>>

\* Expire of an expired item deletes it; of an absent one, nothing.
ExpireMiss(k) ==
    /\ unlocked /\ k \in DOMAIN items /\ isExpired(items[k])
    /\ Drop({k}, get)
    /\ UNCHANGED <<now, expiring, wasLive, closed, tick, cleanup>>

-------------------------------------------------------------------------------
\* Get: read the map under RLock, ...
GetRead(g, k) ==
    /\ get[g].at = "idle" /\ unlocked
    /\ LET i == IF k \in DOMAIN items THEN items[k] ELSE none
       IN  /\ get' = [get EXCEPT ![g] = [at |-> "check", key |-> k, item |-> i]]
           /\ wasLive' = [wasLive EXCEPT ![g] = i # none /\ ~isExpired(i)]
    /\ UNCHANGED <<items, heap, now, expiring, closed, tick, cleanup>>

\* What isExpired answers without the lock: while Expire overwrites the item
\* it may see words of both times and answer anything.
Judged(i) == IF i = none THEN {TRUE}
             ELSE IF ~unlocked /\ expiring.item = i THEN BOOLEAN
             ELSE {isExpired(i)}

\* ... judge the item without the lock, ...
GetCheck(g) ==
    /\ get[g].at = "check"
    /\ \E gone \in Judged(get[g].item) :
          get' = [get EXCEPT ![g].at = IF gone THEN "delete" ELSE "hit"]
    /\ UNCHANGED <<items, heap, now, expiring, wasLive, closed, tick, cleanup>>

\* ... and return the value, or delete the key, whatever it now maps to.
GetHit(g) ==
    /\ get[g].at = "hit"
    /\ Drop({}, [get EXCEPT ![g] = NoCall])
    /\ wasLive' = [wasLive EXCEPT ![g] = FALSE]
    /\ UNCHANGED <<now, expiring, closed, tick, cleanup>>

GetDelete(g) ==
    /\ get[g].at = "delete" /\ unlocked
    /\ Drop({get[g].key}, [get EXCEPT ![g] = NoCall])
    /\ wasLive' = [wasLive EXCEPT ![g] = FALSE]
    /\ UNCHANGED <<now, expiring, closed, tick, cleanup>>

-------------------------------------------------------------------------------
\* The cleanup goroutine: a tick, the clock, and then the lock and the sweep.
CleanupTick ==
    /\ cleanup.at = "wait" /\ tick
    /\ tick' = FALSE
    /\ cleanup' = [at |-> "lock", now |-> now]
    /\ UNCHANGED <<items, heap, now, expiring, get, wasLive, closed>>

\* Mutant: the sweep does not know the zero time.
cleanupExpired_NoZeroTime ==
    /\ cleanup.at = "lock" /\ unlocked
    /\ Drop({k \in DOMAIN items : cleanup.now > heap[items[k]].expiresAt}, get)
    /\ cleanup' = [at |-> "wait", now |-> 0]
    /\ UNCHANGED <<now, expiring, wasLive, closed, tick>>

\* Mutant: the sweep's comparison is the wrong way round.
cleanupExpired_Reversed ==
    /\ cleanup.at = "lock" /\ unlocked
    /\ Drop({k \in DOMAIN items : /\ heap[items[k]].expiresAt # Never
                                 /\ heap[items[k]].expiresAt > cleanup.now}, get)
    /\ cleanup' = [at |-> "wait", now |-> 0]
    /\ UNCHANGED <<now, expiring, wasLive, closed, tick>>

cleanupExpired ==
    /\ cleanup.at = "lock" /\ unlocked
    /\ Drop({k \in DOMAIN items : /\ heap[items[k]].expiresAt # Never
                                 /\ cleanup.now > heap[items[k]].expiresAt}, get)
    /\ cleanup' = [at |-> "wait", now |-> 0]
    /\ UNCHANGED <<now, expiring, wasLive, closed, tick>>

\* Mutant: the stop case ends the select and not the loop.
CleanupStop_BreaksSelect ==
    /\ cleanup.at = "wait" /\ closed
    /\ UNCHANGED vars

CleanupStop ==
    /\ cleanup.at = "wait" /\ closed
    /\ cleanup' = [at |-> "done", now |-> 0]
    /\ UNCHANGED <<items, heap, now, expiring, get, wasLive, closed, tick>>

Close ==
    /\ ~closed
    /\ closed' = TRUE
    /\ UNCHANGED <<items, heap, now, expiring, get, wasLive, tick, cleanup>>

Tick ==
    /\ ~tick /\ cleanup.at # "done"
    /\ tick' = TRUE
    /\ UNCHANGED <<items, heap, now, expiring, get, wasLive, closed, cleanup>>

Advance ==
    /\ now < MaxTime
    /\ now' = now + 1
    /\ UNCHANGED <<items, heap, expiring, get, wasLive, closed, tick, cleanup>>

Next ==
    \/ \E k \in Keys :
          \/ \E number \in BOOLEAN, ttl \in TTLs : Set_(k, number, ttl)
          \/ Delete(k)
          \/ add(k)
          \/ \E ttl \in TTLs : Expire(k, ttl)
          \/ ExpireMiss(k)
          \/ \E g \in Getters : GetRead(g, k)
    \/ \E g \in Getters : GetCheck(g) \/ GetHit(g) \/ GetDelete(g)
    \/ ExpireWritten \/ CleanupTick \/ cleanupExpired \/ CleanupStop
    \/ Close \/ Tick \/ Advance

\* The ticker fires; a goroutine inside a call or holding the lock goes on;
\* the mutex does not starve its waiters and select does not starve a case.
Fairness ==
    /\ WF_vars(Tick) /\ WF_vars(ExpireWritten)
    /\ SF_vars(CleanupTick) /\ SF_vars(cleanupExpired) /\ SF_vars(CleanupStop)

Spec == Init /\ [][Next]_vars /\ Fairness

-------------------------------------------------------------------------------
\* Get answers only with a value that was in the cache and alive when Get
\* looked, although it judges the expiry later, without the lock and while an
\* Expire may be writing it: Expire revives no item, and no other step extends
\* the life of an item a Get already holds.
HitWasLive == \A g \in Getters : get[g].at = "hit" => wasLive[g]

\* An item that has expired does not stay in the map for ever, nobody having
\* to ask for it.
ExpiredIsSwept ==
    \A k \in Keys : (k \in DOMAIN items /\ isExpired(items[k]))
                       ~> (k \notin DOMAIN items \/ ~isExpired(items[k]) \/ closed)

\* Close ends the cleanup goroutine, a sweep in progress or not.
CloseStopsCleanup == closed ~> cleanup.at = "done"

\* An item that never expires leaves the cache by a Delete of its key, by giving
\* way to another item, or to a Get that had looked the key up before this item
\* was there: the sweep and the other calls never take it.
NeverExpiringStays ==
    [][\A k \in DOMAIN items \ DOMAIN items' :
          heap[items[k]].expiresAt = Never =>
             \/ Delete(k)
             \/ \E g \in Getters : /\ GetDelete(g)
                                 /\ get[g].key = k /\ get[g].item # items[k]]_vars

===============================================================================
