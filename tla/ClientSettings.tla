---------------------------- MODULE ClientSettings ----------------------------
(***************************************************************************)
(* gclient/client.go: the settings of a Client, which goroutines change,   *)
(* copy into requests (R) and copy into other clients (Clone, SubClient).  *)
(*                                                                         *)
(* Of the settings there is one map (the default headers; the query, form  *)
(* and path parameters are treated alike), one plain value (the auth       *)
(* token) and one object that clients share (the http.Client, whose        *)
(* timeout SetTimeout sets).  Maps and objects live in heap.               *)
(* mu is a sync.RWMutex: a Lock that waits keeps further RLocks out.  The  *)
(* cookies have a lock of their own, cookieMu, held for one step only: the *)
(* list only grows, and what was added last stands for it.                 *)
(***************************************************************************)
EXTENDS Integers, FiniteSets, Sequences

CONSTANTS Goroutines, Clients, \* the first client is 1; the others are made by Clone
          MaxCalls             \* calls all goroutines make

VARIABLES mu,       \* client -> [readers, waiting]
          client,   \* client -> [headers, auth, http], or none of its own: headers = 0
          heap,     \* the maps and objects: number -> value
          cookies,  \* client -> the cookie added last
          at,       \* goroutine -> [op, on, headers, auth] and, as history, the
                    \* settings seen and the cookies had when its call began
          requests, \* the requests R returned: [headers, auth, cookies, seen, had]
          calls     \* history: calls made, the value that a setter sets

settingsVars == <<mu, client, heap, cookies, at, requests, calls>>

Free == [readers |-> 0, waiting |-> FALSE]
Idle == [op |-> "idle", on |-> 1, headers |-> 0, auth |-> 0, seen |-> <<>>, had |-> 0]
absent == [headers |-> 0, auth |-> 0, http |-> 0]

SettingsInit ==
    /\ mu = [c \in Clients |-> Free]
    /\ heap = <<0, 0>> /\ cookies = [c \in Clients |-> 0]
    /\ client = [c \in Clients |-> IF c = 1 THEN [headers |-> 1, auth |-> 0, http |-> 2] ELSE absent]
    /\ at = [g \in Goroutines |-> Idle] /\ requests = {} /\ calls = 0

-------------------------------------------------------------------------------
Call(g, c) ==
    /\ at[g].op = "idle" /\ calls < MaxCalls /\ client[c] # absent
    /\ calls' = calls + 1

RLock(c)   == ~mu[c].waiting /\ mu' = [mu EXCEPT ![c].readers = @ + 1]
RUnlock(c) == mu' = [mu EXCEPT ![c].readers = @ - 1]

New(value) == Append(heap, value)
Settings(c) == <<heap[client[c].headers], client[c].auth>>
Reading(c) == [Idle EXCEPT !.op = "headers", !.on = c, !.seen = Settings(c), !.had = cookies[c]]

\* R holds the read lock; cloneDefaultHeaders takes it once more.
\* Mutant: R leaves the locking to cloneDefaultHeaders.
StartR_Unlocked(g, c) ==
    /\ Call(g, c) /\ ~mu[c].waiting
    /\ at' = [at EXCEPT ![g] = Reading(c)]
    /\ UNCHANGED <<mu, client, heap, cookies, requests>>

StartR(g, c) ==
    /\ Call(g, c) /\ RLock(c)
    /\ at' = [at EXCEPT ![g] = Reading(c)]
    /\ UNCHANGED <<client, heap, cookies, requests>>

cloneDefaultHeaders(g) ==
    /\ at[g].op = "headers" /\ RLock(at[g].on)
    /\ at' = [at EXCEPT ![g].op = "cloning"]
    /\ UNCHANGED <<client, heap, cookies, requests, calls>>

ClonedHeaders(g) ==
    /\ at[g].op = "cloning" /\ RUnlock(at[g].on)
    /\ heap' = New(heap[client[at[g].on].headers])
    /\ at' = [at EXCEPT ![g].op = "rest", ![g].headers = Len(heap')]
    /\ UNCHANGED <<client, cookies, requests, calls>>

\* Mutant: the lock is not given back.
EndR_KeepsLock(g) ==
    /\ at[g].op = "rest"
    /\ at' = [at EXCEPT ![g].op = "cookies", ![g].auth = client[at[g].on].auth]
    /\ UNCHANGED <<mu, client, heap, cookies, requests, calls>>

EndR(g) ==
    /\ at[g].op = "rest" /\ RUnlock(at[g].on)
    /\ at' = [at EXCEPT ![g].op = "cookies", ![g].auth = client[at[g].on].auth]
    /\ UNCHANGED <<client, heap, cookies, requests, calls>>

\* The cookies are copied last, after mu is given back: others may have set things
\* and added cookies in between.
cookiesSnapshot(g) ==
    /\ at[g].op = "cookies"
    /\ requests' = requests \cup {[headers |-> at[g].headers, auth |-> at[g].auth, cookies |-> cookies[at[g].on],
                                   seen |-> at[g].seen, had |-> at[g].had]}
    /\ at' = [at EXCEPT ![g] = Idle]
    /\ UNCHANGED <<mu, client, heap, cookies, calls>>

\* AddCookie asks for cookieMu only.
AddCookie(g, c) ==
    /\ Call(g, c)
    /\ cookies' = [cookies EXCEPT ![c] = calls']
    /\ UNCHANGED <<mu, client, heap, at, requests>>

\* The setters: each holds the lock for one change.  SetHeader and its kind change
\* a map in place, SetAuthToken and its kind a value, SetTimeout what is shared.
StartSet(g, c, what) ==
    /\ Call(g, c) /\ ~mu[c].waiting
    /\ mu' = [mu EXCEPT ![c].waiting = TRUE]
    /\ at' = [at EXCEPT ![g] = [Idle EXCEPT !.op = what, !.on = c]]
    /\ UNCHANGED <<client, heap, cookies, requests>>

SetHeader(g) ==
    /\ at[g].op = "set header" /\ mu[at[g].on].readers = 0
    /\ heap' = [heap EXCEPT ![client[at[g].on].headers] = calls]
    /\ mu' = [mu EXCEPT ![at[g].on].waiting = FALSE] /\ at' = [at EXCEPT ![g] = Idle]
    /\ UNCHANGED <<client, cookies, requests, calls>>

SetAuthToken(g) ==
    /\ at[g].op = "set auth" /\ mu[at[g].on].readers = 0
    /\ client' = [client EXCEPT ![at[g].on].auth = calls]
    /\ mu' = [mu EXCEPT ![at[g].on].waiting = FALSE] /\ at' = [at EXCEPT ![g] = Idle]
    /\ UNCHANGED <<heap, cookies, requests, calls>>

SetTimeout(g) ==
    /\ at[g].op = "set timeout" /\ mu[at[g].on].readers = 0
    /\ heap' = [heap EXCEPT ![client[at[g].on].http] = calls]
    /\ mu' = [mu EXCEPT ![at[g].on].waiting = FALSE] /\ at' = [at EXCEPT ![g] = Idle]
    /\ UNCHANGED <<client, cookies, requests, calls>>

\* Clone copies the maps and values and shares the rest, under the read lock; the
\* cookies too, which is the moment that counts.
\* Mutant: the map is shared too.
Clone_SharesMap(g, c) ==
    /\ Call(g, 1) /\ client[c] = absent /\ ~mu[1].waiting
    /\ client' = [client EXCEPT ![c] = client[1]]
    /\ cookies' = [cookies EXCEPT ![c] = cookies[1]]
    /\ UNCHANGED <<mu, at, heap, requests>>

Clone(g, c) ==
    /\ Call(g, 1) /\ client[c] = absent /\ ~mu[1].waiting
    /\ heap' = New(heap[client[1].headers])
    /\ client' = [client EXCEPT ![c] = [client[1] EXCEPT !.headers = Len(heap')]]
    /\ cookies' = [cookies EXCEPT ![c] = cookies[1]]
    /\ UNCHANGED <<mu, at, requests>>

\* SubClient makes a request of the clone, has the steps change that, and copies
\* it back; nobody else has the clone yet.
SubClient(g, c) ==
    /\ Call(g, 1) /\ client[c] = absent /\ ~mu[1].waiting
    /\ \E header \in {heap[client[1].headers], calls'}, auth \in {client[1].auth, calls'} :
          /\ heap' = New(header)
          /\ client' = [client EXCEPT ![c] = [headers |-> Len(heap'), auth |-> auth, http |-> client[1].http]]
    /\ \E last \in {cookies[1], calls'} : cookies' = [cookies EXCEPT ![c] = last]
    /\ UNCHANGED <<mu, at, requests>>

SettingsStep(g) ==
    \/ cloneDefaultHeaders(g) \/ ClonedHeaders(g) \/ EndR(g) \/ cookiesSnapshot(g)
    \/ SetHeader(g) \/ SetAuthToken(g) \/ SetTimeout(g)

SettingsNext ==
    \E g \in Goroutines :
        \/ SettingsStep(g)
        \/ \E c \in Clients :
              \/ StartR(g, c) \/ AddCookie(g, c) \/ Clone(g, c) \/ SubClient(g, c)
              \/ \E what \in {"set header", "set auth", "set timeout"} : StartSet(g, c, what)

-------------------------------------------------------------------------------
\* A map of settings belongs to one client or one request: what is set on a client
\* never shows in its clones, nor in requests made before (R, Clone, SubClient).
OwnMaps ==
    /\ \A c, d \in Clients : c # d /\ client[c] # absent => client[c].headers # client[d].headers
    /\ \A r, s \in requests : r # s => r.headers # s.headers
    /\ \A r \in requests, c \in Clients : r.headers # client[c].headers

\* The settings in a request that mu guards are those of the moment R began, although
\* setters run while it copies them (R holds the read lock throughout).  Its cookies
\* are not older, but may be newer: R copies them when it has given mu back, so a
\* request may have an old token with a cookie that was added after the new token.
OneMoment == \A r \in requests : <<heap[r.headers], r.auth>> = r.seen /\ r.had <= r.cookies

\* Calls that stop for ever do so in one way only: R waits for its second read
\* lock, behind a setter that waits for R's first (R, cloneDefaultHeaders).
StuckOnlyInR ==
    (\E g \in Goroutines : at[g].op # "idle") /\ (\A g \in Goroutines : ~ENABLED SettingsStep(g)) =>
        \E g \in Goroutines : at[g].op = "headers" /\ mu[at[g].on].waiting

===============================================================================
