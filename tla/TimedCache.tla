------------------------------ MODULE TimedCache ------------------------------
(***************************************************************************)
(* gcache/timed.go: the cache with a time to live per key and a background *)
(* goroutine that sweeps expired entries until Close.  Every method holds  *)
(* the lock throughout, so it is one step; the goroutine's select is not   *)
(* under the lock, and each round of its loop reads the field c.stop again. *)
(* The values stored are left out: nothing depends on them.                *)
(***************************************************************************)
EXTENDS Integers, FiniteSets

CONSTANTS Keys,
          TTLs,     \* the ttl arguments of Set, 0 for "never expires"
          MaxTime   \* bound on the clock

\* What the constants must be.
TimedConstants == TTLs \subseteq Nat /\ MaxTime \in Nat

Never == 0          \* the zero time of expiresAt; the clock starts at 1

VARIABLES cache,    \* key -> expiresAt, for the keys present
          now,      \* time.Now()
          stop,     \* the field c.stop: "chan" or "nil"
          closed,   \* the channel made by NewTimedCache has been closed
          tick,     \* a tick waits in the ticker's channel, which holds one
          loop,     \* where the goroutine is
          waitsOn   \* the channel operand its select evaluated

vars == <<cache, now, stop, closed, tick, loop, waitsOn>>

Init ==
    /\ cache = [k \in {} |-> Never]
    /\ now = 1
    /\ stop = "chan"
    /\ closed = FALSE
    /\ tick = FALSE
    /\ loop = "select"
    /\ waitsOn = "nil"

expired(expiresAt) == expiresAt # Never /\ now > expiresAt

-------------------------------------------------------------------------------
\* The callers' methods.
Set_(k, ttl) ==
    /\ cache' = [j \in DOMAIN cache \cup {k} |->
                    IF j # k THEN cache[j] ELSE IF ttl > 0 THEN now + ttl ELSE Never]
    /\ UNCHANGED <<now, stop, closed, tick, loop, waitsOn>>

Delete(k) ==
    /\ cache' = [j \in DOMAIN cache \ {k} |-> cache[j]]
    /\ UNCHANGED <<now, stop, closed, tick, loop, waitsOn>>

Close ==
    /\ stop = "chan"
    /\ closed' = TRUE
    /\ stop' = "nil"
    /\ UNCHANGED <<cache, now, tick, loop, waitsOn>>

\* The cleanup goroutine: the select evaluates ticker.C and c.stop, waits for
\* either, and takes one of those that are ready.
EnterSelect ==
    /\ loop = "select"
    /\ loop' = "wait"
    /\ waitsOn' = stop
    /\ UNCHANGED <<cache, now, stop, closed, tick>>

TakeTick ==
    /\ loop = "wait" /\ tick
    /\ tick' = FALSE
    /\ loop' = "evict"
    /\ UNCHANGED <<cache, now, stop, closed, waitsOn>>

TakeStop ==
    /\ loop = "wait" /\ waitsOn = "chan" /\ closed
    /\ loop' = "done"
    /\ UNCHANGED <<cache, now, stop, closed, tick, waitsOn>>

\* Mutant: the comparison is the wrong way round.
evictExpired_Reversed ==
    /\ loop = "evict"
    /\ cache' = [k \in {j \in DOMAIN cache : ~(cache[j] # Never /\ now < cache[j])}
                    |-> cache[k]]
    /\ loop' = "select"
    /\ UNCHANGED <<now, stop, closed, tick, waitsOn>>

evictExpired ==
    /\ loop = "evict"
    /\ cache' = [k \in {j \in DOMAIN cache : ~expired(cache[j])} |-> cache[k]]
    /\ loop' = "select"
    /\ UNCHANGED <<now, stop, closed, tick, waitsOn>>

\* The clock and the ticker.
Advance ==
    /\ now < MaxTime
    /\ now' = now + 1
    /\ UNCHANGED <<cache, stop, closed, tick, loop, waitsOn>>

Tick ==
    /\ ~tick /\ loop # "done"
    /\ tick' = TRUE
    /\ UNCHANGED <<cache, now, stop, closed, loop, waitsOn>>

Loop == EnterSelect \/ TakeTick \/ TakeStop \/ evictExpired

Next == \/ \E k \in Keys : Delete(k) \/ \E ttl \in TTLs : Set_(k, ttl)
        \/ Close \/ EnterSelect \/ TakeTick \/ TakeStop \/ evictExpired
        \/ Advance \/ Tick

\* The ticker fires and the goroutine runs; of two ready cases a select that
\* comes round again and again takes each at some time (its choice is uniform).
Fairness == /\ WF_vars(Tick) /\ WF_vars(EnterSelect) /\ WF_vars(evictExpired)
            /\ SF_vars(TakeTick) /\ SF_vars(TakeStop)

Spec == Init /\ [][Next]_vars /\ Fairness

-------------------------------------------------------------------------------
\* An expired entry does not stay for ever: the goroutine sweeps it away
\* unless it is set anew or the cache is closed first.
ExpiredIsSwept ==
    \A k \in Keys : (k \in DOMAIN cache /\ expired(cache[k]))
                       ~> (k \notin DOMAIN cache \/ ~expired(cache[k]) \/ closed)

\* "Close stops the background cleanup goroutine" (timed.go:88).
CloseStopsLoop == closed ~> loop = "done"

===============================================================================
