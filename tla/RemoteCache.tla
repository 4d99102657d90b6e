----------------------------- MODULE RemoteCache ------------------------------
(***************************************************************************)
(* gcache: RedisCache and ValkeyCache, two clients of a server that keeps a *)
(* value of some type, and perhaps an expiry, for a key.  The server is     *)
(* external; what the two clients make of the arguments and of the answers  *)
(* is not: durations, misses, and which end of a list they take.            *)
(*                                                                         *)
(* One key; time is counted in ticks, TicksPerSecond of them a second.      *)
(***************************************************************************)
EXTENDS Integers, Sequences, FiniteSets

CONSTANTS Values,     \* values, numbers that Increment can be asked for
          Durations,  \* expirations, in ticks
          MaxNow,     \* bound of the clock
          MaxCalls    \* bound of the calls

VARIABLES client,  \* "redis", "valkey"
          store,   \* the server: [type, val, exp], type "none" for no value, exp 0 for no expiry
          now,     \* the server's clock
          answer,  \* of the last call: [op, err, val]
          promise, \* history: [val, until] of the last Set or Expire that promised something
          calls

remoteVars == <<client, store, now, answer, promise, calls>>

TicksPerSecond == 2
nothing == [type |-> "none", val |-> 0, exp |-> 0]
whole(d) == d % TicksPerSecond = 0
noPromise == [val |-> 0, until |-> -1]

RemoteInit ==
    /\ client \in {"redis", "valkey"}
    /\ store = nothing /\ now = 1 /\ calls = 0
    /\ answer = [op |-> "none", err |-> "none", val |-> 0]
    /\ promise = noPromise

-------------------------------------------------------------------------------
\* The server: a value that has expired is not there.
live == IF store.exp # 0 /\ now >= store.exp THEN nothing ELSE store

\* An answer; "nil" is what the server says when there is no value.
translateError(err) == IF err = "nil" THEN "miss" ELSE err
Answer(op, err, val) == answer' = [op |-> op, err |-> translateError(err), val |-> val]

\* A command for values of a type is refused for values of another one.
Typed(op, type, do) ==
    IF live.type \notin {"none", type} THEN Answer(op, "wrong type", 0) /\ UNCHANGED <<store, promise>> ELSE do

Called == calls < MaxCalls /\ calls' = calls + 1 /\ UNCHANGED <<client, now>>
Break == promise' = noPromise
Keep == UNCHANGED <<store, promise>>

Tick == now < MaxNow /\ now' = now + 1 /\ UNCHANGED <<client, store, answer, promise, calls>>

\* What the clients send for an expiration.  redis: zero is no expiration, and
\* less than a second is sent as milliseconds; valkey: whole seconds, of which the
\* server wants at least one.
\* Mutant: redis sends whole seconds too.
SetExpiry_Seconds(d) ==
    IF client = "redis" /\ d = 0 THEN 0
    ELSE IF d < TicksPerSecond THEN -1 ELSE now + (d \div TicksPerSecond) * TicksPerSecond

SetExpiry(d) ==
    IF client = "redis" THEN IF d = 0 THEN 0 ELSE now + d
    ELSE IF d < TicksPerSecond THEN -1 ELSE now + (d \div TicksPerSecond) * TicksPerSecond

\* Expire sends seconds; redis makes one second of less than that.  The server
\* removes what has none left.
ExpireSeconds(d) == IF client = "redis" /\ 0 < d /\ d < TicksPerSecond THEN 1 ELSE d \div TicksPerSecond

-------------------------------------------------------------------------------
Set(v, d) ==
    /\ Called
    /\ IF SetExpiry(d) = -1 THEN Answer("Set", "invalid", 0) /\ Keep
       ELSE /\ store' = [type |-> "string", val |-> v, exp |-> SetExpiry(d)]
            /\ Answer("Set", "none", 0)
            /\ promise' = IF client = "redis" \/ whole(d) THEN [val |-> v, until |-> IF d = 0 THEN MaxNow + 1 ELSE now + d]
                          ELSE noPromise

Get ==
    /\ Called /\ Keep
    /\ CASE live.type = "none"   -> Answer("Get", "nil", 0)
         [] live.type = "string" -> Answer("Get", "none", live.val)
         [] OTHER                -> Answer("Get", "wrong type", 0)

Delete == Called /\ store' = nothing /\ Answer("Delete", "none", 0) /\ Break

Exists == Called /\ Keep /\ Answer("Exists", "none", live.type # "none")

Expire(d) ==
    LET s == ExpireSeconds(d)
    IN  /\ Called /\ Answer("Expire", "none", 0)
        /\ store' = IF live.type = "none" \/ s <= 0 THEN nothing ELSE [live EXCEPT !.exp = now + s * TicksPerSecond]
        /\ promise' = IF live.type = "string" /\ d > 0 /\ whole(d) THEN [val |-> live.val, until |-> now + d] ELSE noPromise

\* Seconds left; -1 and -2 stand for no expiry and no value.
TTL ==
    /\ Called /\ Keep
    /\ Answer("TTL", "none", CASE live.type = "none" -> -2
                               [] live.type # "none" /\ live.exp = 0 -> -1
                               [] live.type # "none" /\ live.exp # 0 -> (live.exp - now + 1) \div TicksPerSecond)

\* Increment and Decrement keep the expiry.
Add(op, n) ==
    /\ Called
    /\ Typed(op, "string",
             /\ store' = [live EXCEPT !.type = "string", !.val = @ + n]
             /\ Answer(op, "none", live.val + n)
             /\ promise' = IF now < promise.until THEN [promise EXCEPT !.val = live.val + n] ELSE noPromise)

\* A hash is a set of <<field, value>>; here with one field, which HashDelete
\* takes away, and the hash with it.
HashSet(v) ==
    Called /\ Typed("HashSet", "hash",
        store' = [live EXCEPT !.type = "hash", !.val = v] /\ Answer("HashSet", "none", 0) /\ Break)
HashGet ==
    Called /\ Typed("HashGet", "hash",
        Keep /\ IF live.type = "none" THEN Answer("HashGet", "nil", 0) ELSE Answer("HashGet", "none", live.val))
HashGetAll ==
    Called /\ Typed("HashGetAll", "hash",
        Keep /\ Answer("HashGetAll", "none", IF live.type = "none" THEN {} ELSE {live.val}))
HashDelete ==
    Called /\ Typed("HashDelete", "hash", store' = nothing /\ Answer("HashDelete", "none", 0) /\ Break)

\* Lists: pushed at the tail, popped from the head; an empty list is no value.
listOf(s) == IF s.type = "none" THEN <<>> ELSE s.val

ListPush(v) ==
    Called /\ Typed("ListPush", "list",
        /\ store' = [live EXCEPT !.type = "list", !.val = Append(listOf(live), v)]
        /\ Answer("ListPush", "none", 0) /\ Break)

ListPop ==
    Called /\ Typed("ListPop", "list",
        IF live.type = "none" THEN Answer("ListPop", "nil", 0) /\ Keep
        ELSE /\ store' = IF Len(live.val) = 1 THEN nothing ELSE [live EXCEPT !.val = Tail(@)]
             /\ Answer("ListPop", "none", Head(live.val))
             /\ UNCHANGED promise)

ListRange == Called /\ Keep /\ Typed("ListRange", "list", Answer("ListRange", "none", listOf(live)))

setOf(s) == IF s.type = "none" THEN {} ELSE s.val
SetAdd(v) ==
    Called /\ Typed("SetAdd", "set",
        store' = [live EXCEPT !.type = "set", !.val = setOf(live) \cup {v}] /\ Answer("SetAdd", "none", 0) /\ Break)
SetMembers == Called /\ Keep /\ Typed("SetMembers", "set", Answer("SetMembers", "none", setOf(live)))
SetIsMember(v) == Called /\ Keep /\ Typed("SetIsMember", "set", Answer("SetIsMember", "none", v \in setOf(live)))

RemoteNext ==
    \/ Tick \/ Get \/ Delete \/ Exists \/ TTL \/ HashGet \/ HashGetAll \/ HashDelete
    \/ ListPop \/ ListRange \/ SetMembers
    \/ \E v \in Values : \/ \E d \in Durations : Set(v, d)
                         \/ Add("Increment", v) \/ Add("Decrement", -v)
                         \/ HashSet(v) \/ ListPush(v) \/ SetAdd(v) \/ SetIsMember(v)
    \/ \E d \in Durations : Expire(d)

-------------------------------------------------------------------------------
\* A value is there, and is the sum of what was set and added since, until its
\* expiration has passed, and not longer, whatever is added to it and however its
\* expiration is changed meanwhile: with RedisCache for any duration given to Set,
\* else for whole seconds (Set, Expire, Increment).
KeepsWhatWasSet ==
    promise # noPromise =>
        IF now < promise.until THEN live.type = "string" /\ live.val = promise.val
        ELSE live.type = "none"

===============================================================================
