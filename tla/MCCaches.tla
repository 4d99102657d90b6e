------------------------------- MODULE MCCaches -------------------------------
(***************************************************************************)
(* The in-process caches of gcache for TLC.  They share no state, so one    *)
(* run explores them side by side: the initial state picks the cache that   *)
(* is used, part, and the others stay as they were made.                    *)
(***************************************************************************)
EXTENDS Integers, Sequences, FiniteSets

CONSTANTS Keys, Values, Capacity, MaxFreq,         \* the LFU and LRU caches
          Readers, root, nil,                      \* ThreadSafeLRUCache
          TimedKeys, Getters, TTLs, Ids, MaxTime,  \* TimedCache and MemoryCache
          none

VARIABLES part,
          lfu, freqToList, minFreq, recency,
          ring, value, move,
          timed, timedNow, stop, timedClosed, timedTick, loop, waitsOn,
          items, heap, now, expiring, get, wasLive, closed, tick, cleanup

lfuVars    == <<lfu, freqToList, minFreq, recency>>
lruVars    == <<ring, value, move>>
timedVars  == <<timed, timedNow, stop, timedClosed, timedTick, loop, waitsOn>>
memoryVars == <<items, heap, now, expiring, get, wasLive, closed, tick, cleanup>>
vars       == <<part, lfuVars, lruVars, timedVars, memoryVars>>

LFU    == INSTANCE LFUCache WITH cache <- lfu
LRU    == INSTANCE ThreadSafeLRUCache
Timed  == INSTANCE TimedCache WITH Keys <- TimedKeys, cache <- timed, now <- timedNow,
             closed <- timedClosed, tick <- timedTick
Memory == INSTANCE MemoryCache WITH Keys <- TimedKeys

ASSUME CachesConstants ==
    /\ LFU!LFUConstants /\ LRU!TSLRUConstants
    /\ Timed!TimedConstants /\ Memory!MemoryConstants

Init ==
    /\ part \in {"lfu", "lru", "timed", "memory"}
    /\ LFU!Init /\ LRU!Init /\ Timed!Init /\ Memory!Init

Next ==
    \/ /\ part = "lfu" /\ LFU!Next
       /\ UNCHANGED <<part, lruVars, timedVars, memoryVars>>
    \/ /\ part = "lru" /\ LRU!Next
       /\ UNCHANGED <<part, lfuVars, timedVars, memoryVars>>
    \/ /\ part = "timed" /\ Timed!Next
       /\ UNCHANGED <<part, lfuVars, lruVars, memoryVars>>
    \/ /\ part = "memory" /\ Memory!Next
       /\ UNCHANGED <<part, lfuVars, lruVars, timedVars>>

\* The fairness of TimedCache and of MemoryCache.  Only one of them is used in a
\* behaviour, so a disjunction of one action of each asks of both what two conjuncts
\* would.
timers == <<timedVars, memoryVars>>
OfTimed  == part = "timed" /\ UNCHANGED memoryVars
OfMemory == part = "memory" /\ UNCHANGED timedVars

Fairness ==
    /\ WF_timers((Timed!Tick /\ OfTimed) \/ (Memory!Tick /\ OfMemory))
    /\ WF_timers((Timed!EnterSelect /\ OfTimed) \/ (Memory!ExpireWritten /\ OfMemory))
    /\ WF_timers(Timed!evictExpired /\ OfTimed)
    /\ SF_timers((Timed!TakeTick /\ OfTimed) \/ (Memory!CleanupTick /\ OfMemory))
    /\ SF_timers((Timed!TakeStop /\ OfTimed) \/ (Memory!CleanupStop /\ OfMemory))
    /\ SF_timers(Memory!cleanupExpired /\ OfMemory)

Spec == Init /\ [][Next]_vars /\ Fairness

-------------------------------------------------------------------------------
\* LFUCache: an entry is in the list of its own frequency, once and in no other,
\* and minFreq names the lowest list that is not empty, after whatever Gets, Sets
\* and evictions.  A stale minFreq makes evict return without evicting.
ListsAgree == LFU!IndexAgrees /\ LFU!MinFreqIsMin

\* LFUCache.evict: the key removed has the lowest frequency and, among those of
\* that frequency, was used longest ago, however the lists came to be ordered.
EvictsLeastFrequent == LFU!EvictsLeastFrequent

\* LFUCache is a bounded cache; ThreadSafeLRUCache, with one Get at a time moving
\* pointers, is LRUCache and so a bounded cache too: Get answers with the value of
\* the last Set, and a key is lost only to an insert into a full cache.
CachesImplement ==
    /\ LFU!ImplementsBoundedCache
    /\ LRU!ImplementsLRU
    /\ LRU!ImplementsBoundedCache

\* MemoryCache: Get answers only with a value that was alive when it looked,
\* although it judges the expiry without the lock while Expire may write it; and an
\* item that never expires goes by Delete, by giving way to another, or to a Get that
\* had looked the key up before the item was there.
MemoryKeeps == []Memory!HitWasLive /\ Memory!NeverExpiringStays

\* The cleanup goroutines of TimedCache and of MemoryCache sweep what has expired,
\* nobody having to ask for it, and Close of a MemoryCache ends its goroutine.
CleanupWorks ==
    /\ Timed!ExpiredIsSwept
    /\ Memory!ExpiredIsSwept
    /\ Memory!CloseStopsCleanup

===============================================================================
