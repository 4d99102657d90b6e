------------------------------ MODULE HTTPProofs -------------------------------
(***************************************************************************)
(* What serves HTTP and what configures a client of it, proved for any     *)
(* number of goroutines, clients, requests and calls, and any routes.      *)
(***************************************************************************)
EXTENDS MCHTTP, SequenceTheorems, FiniteSetTheorems, WellFoundedInduction, TLAPS

-------------------------------------------------------------------------------
(***************************************************************************)
(* The settings of a client.  Object 2 is the http.Client that all share;  *)
(* every other object of heap is a map that one client, one call of R or   *)
(* one request holds.  The read lock counts those who read: a call of R    *)
(* once, and twice while it clones the headers.                            *)
(***************************************************************************)
Setters == {"set header", "set auth", "set timeout"}
Ops == Setters \cup {"idle", "headers", "cloning", "rest", "cookies"}
Maps == 1..Len(heap) \ {2}
Locks == [readers : Int, waiting : BOOLEAN]
Calls == [op : Ops, on : Clients, headers : Nat, auth : Int, seen : {<<>>} \cup (Int \X Int), had : Int]
Made  == [headers : Maps, auth : Int, cookies : Int, seen : Int \X Int, had : Int]

SettingsTypes ==
    /\ heap \in Seq(Int) /\ Len(heap) >= 2 /\ calls \in Int
    /\ mu \in [Clients -> Locks]
    /\ client \in [Clients -> [headers : Nat, auth : Int, http : Nat]]
    /\ goroutine \in [Goroutines -> Calls]
    /\ \A r \in requests : r \in Made

SettingsPlaces ==
    /\ client[1] # Settings!absent
    /\ \A c \in Clients : client[c] = Settings!absent \/ (client[c].headers \in Maps /\ client[c].http = 2)
    /\ \A g \in Goroutines : goroutine[g].op # "idle" => client[goroutine[g].on] # Settings!absent

\* A copy of the headers that R has made and not handed on is nobody else's.
SettingsCopies ==
    \A g \in Goroutines : goroutine[g].op \in {"rest", "cookies"} =>
        /\ goroutine[g].headers \in Maps
        /\ \A c \in Clients : client[c].headers # goroutine[g].headers
        /\ \A r \in requests : r.headers # goroutine[g].headers
        /\ \A h \in Goroutines :
              h # g /\ goroutine[h].op \in {"rest", "cookies"} => goroutine[h].headers # goroutine[g].headers

\* What a call of R saw when it began is what is there until it gives mu back, and what
\* it has copied then.
SettingsSeen ==
    \A g \in Goroutines :
        /\ goroutine[g].op \in {"headers", "cloning"} => goroutine[g].seen = Settings!Settings(goroutine[g].on)
        /\ goroutine[g].op = "rest" =>
              goroutine[g].seen = <<heap[goroutine[g].headers], client[goroutine[g].on].auth>>
        /\ goroutine[g].op = "cookies" => goroutine[g].seen = <<heap[goroutine[g].headers], goroutine[g].auth>>

\* A client only gets cookies: a call of R finds those that were there when it began.
SettingsCookies ==
    /\ cookies \in [Clients -> Int] /\ \A c \in Clients : cookies[c] <= calls
    /\ \A g \in Goroutines : goroutine[g].op \in {"headers", "cloning", "rest", "cookies"} =>
           goroutine[g].had <= cookies[goroutine[g].on]

InR(c)     == {g \in Goroutines : goroutine[g].on = c /\ goroutine[g].op \in {"headers", "cloning", "rest"}}
Cloning(c) == {g \in Goroutines : goroutine[g].on = c /\ goroutine[g].op = "cloning"}
SettingsLock == \A c \in Clients : mu[c].readers = Cardinality(InR(c)) + Cardinality(Cloning(c))

SettingsHolds ==
    /\ SettingsTypes /\ SettingsPlaces /\ SettingsCopies /\ SettingsSeen /\ SettingsLock
    /\ Settings!OwnMaps /\ Settings!OneMoment

SettingsInv == SettingsHolds /\ SettingsCookies

\* How often a call in the state x holds the read lock of c.
Holds(x, c) == IF x.on = c THEN IF x.op = "cloning" THEN 2
                                ELSE IF x.op \in {"headers", "rest"} THEN 1 ELSE 0
               ELSE 0

LEMMA FirstClient == 1 \in Clients /\ IsFiniteSet(Goroutines)
BY HTTPConstants

LEMMA Counted ==
    ASSUME NEW A \in SUBSET Goroutines, NEW g \in Goroutines
    PROVE  /\ Cardinality(A) \in Nat
           /\ g \notin A => Cardinality(A \cup {g}) = Cardinality(A) + 1
           /\ g \in A => Cardinality(A \ {g}) = Cardinality(A) - 1 /\ Cardinality(A) > 0
<1>1. IsFiniteSet(A)
  BY FirstClient, FS_Subset
<1>2. Cardinality(A) \in Nat
  BY <1>1, FS_CardinalityType
<1>3. g \in A => Cardinality(A) # 0
  BY <1>1, FS_EmptySet
<1>4. g \notin A => Cardinality(A \cup {g}) = Cardinality(A) + 1
  BY <1>1, FS_AddElement
<1>5. g \in A => Cardinality(A \ {g}) = Cardinality(A) - 1
  BY <1>1, FS_RemoveElement
<1> QED
  BY <1>2, <1>3, <1>4, <1>5

LEMMA Moved ==
    ASSUME NEW A \in SUBSET Goroutines, NEW g \in Goroutines, NEW b \in BOOLEAN, NEW T,
           T = IF b THEN A \cup {g} ELSE A \ {g}
    PROVE  Cardinality(T) = Cardinality(A) + (IF b THEN 1 ELSE 0) - (IF g \in A THEN 1 ELSE 0)
<1>1. PICK n \in Nat : n = Cardinality(A)
  BY Counted
<1>2. g \in A => A \cup {g} = A
  OBVIOUS
<1>3. g \notin A => A \ {g} = A
  OBVIOUS
<1>4. g \notin A => Cardinality(A \cup {g}) = n + 1
  BY <1>1, Counted
<1>5. g \in A => Cardinality(A \ {g}) = n - 1
  BY <1>1, Counted
<1>6. CASE b /\ g \in A
  <2>1. Cardinality(T) = n
    BY <1>1, <1>2, <1>6
  <2>2. n = n + 1 - 1
    BY <1>1
  <2> QED
    BY <1>1, <1>6, <2>1, <2>2
<1>7. CASE b /\ g \notin A
  BY <1>1, <1>4, <1>7
<1>8. CASE ~b /\ g \in A
  BY <1>1, <1>5, <1>8
<1>9. CASE ~b /\ g \notin A
  <2>1. Cardinality(T) = n
    BY <1>1, <1>3, <1>9
  <2>2. n = n + 0 - 0
    BY <1>1
  <2> QED
    BY <1>1, <1>9, <2>1, <2>2
<1> QED
  BY <1>6, <1>7, <1>8, <1>9

\* No setter changes anything under a call of R.
LEMMA ReadersCount ==
    ASSUME SettingsInv, NEW g \in Goroutines, goroutine[g].op \in {"headers", "cloning", "rest"}
    PROVE  mu[goroutine[g].on].readers # 0
<1> DEFINE c == goroutine[g].on
<1>1. c \in Clients /\ g \in InR(c) /\ InR(c) \in SUBSET Goroutines /\ Cloning(c) \in SUBSET Goroutines
  BY DEF SettingsInv, SettingsHolds, SettingsTypes, InR, Cloning, Calls
<1>2. mu[c].readers = Cardinality(InR(c)) + Cardinality(Cloning(c))
  BY <1>1 DEF SettingsInv, SettingsHolds, SettingsLock
<1>3. Cardinality(InR(c)) > 0 /\ Cardinality(InR(c)) \in Nat /\ Cardinality(Cloning(c)) \in Nat
  BY <1>1, Counted
<1> QED
  BY <1>2, <1>3

\* The counts after a step of g.
LEMMA LockCounts ==
    ASSUME SettingsInv, NEW g \in Goroutines, NEW x, goroutine' = [goroutine EXCEPT ![g] = x],
           \A c \in Clients : mu'[c].readers = mu[c].readers + Holds(x, c) - Holds(goroutine[g], c)
    PROVE  SettingsLock'
<1> SUFFICES ASSUME NEW c \in Clients
             PROVE  mu'[c].readers = Cardinality(InR(c)') + Cardinality(Cloning(c)')
  BY DEF SettingsLock
<1>1. /\ InR(c) \in SUBSET Goroutines /\ Cloning(c) \in SUBSET Goroutines
      /\ goroutine \in [Goroutines -> Calls]
  BY DEF SettingsInv, SettingsHolds, SettingsTypes, InR, Cloning
<1>2. InR(c)' = IF x.on = c /\ x.op \in {"headers", "cloning", "rest"} THEN InR(c) \cup {g} ELSE InR(c) \ {g}
  BY <1>1 DEF InR
<1>3. Cloning(c)' = IF x.on = c /\ x.op = "cloning" THEN Cloning(c) \cup {g} ELSE Cloning(c) \ {g}
  BY <1>1 DEF Cloning
<1>4. /\ g \in InR(c) <=> goroutine[g].on = c /\ goroutine[g].op \in {"headers", "cloning", "rest"}
      /\ g \in Cloning(c) <=> goroutine[g].on = c /\ goroutine[g].op = "cloning"
  BY DEF InR, Cloning
<1>5. Cardinality(InR(c)') = Cardinality(InR(c))
          + (IF x.on = c /\ x.op \in {"headers", "cloning", "rest"} THEN 1 ELSE 0)
          - (IF g \in InR(c) THEN 1 ELSE 0)
  <2>1. PICK b \in BOOLEAN : b <=> x.on = c /\ x.op \in {"headers", "cloning", "rest"}
    OBVIOUS
  <2>2. InR(c)' = IF b THEN InR(c) \cup {g} ELSE InR(c) \ {g}
    BY <1>2, <2>1
  <2>3. Cardinality(InR(c)') = Cardinality(InR(c)) + (IF b THEN 1 ELSE 0) - (IF g \in InR(c) THEN 1 ELSE 0)
    BY <1>1, <2>2, Moved
  <2> QED
    BY <2>1, <2>3
<1>6. Cardinality(Cloning(c)') = Cardinality(Cloning(c))
          + (IF x.on = c /\ x.op = "cloning" THEN 1 ELSE 0) - (IF g \in Cloning(c) THEN 1 ELSE 0)
  <2>1. PICK b \in BOOLEAN : b <=> x.on = c /\ x.op = "cloning"
    OBVIOUS
  <2>2. Cloning(c)' = IF b THEN Cloning(c) \cup {g} ELSE Cloning(c) \ {g}
    BY <1>3, <2>1
  <2>3. Cardinality(Cloning(c)') = Cardinality(Cloning(c)) + (IF b THEN 1 ELSE 0)
            - (IF g \in Cloning(c) THEN 1 ELSE 0)
    BY <1>1, <2>2, Moved
  <2> QED
    BY <2>1, <2>3
<1>7. mu[c].readers = Cardinality(InR(c)) + Cardinality(Cloning(c))
  BY DEF SettingsInv, SettingsHolds, SettingsLock
<1>8. Cardinality(InR(c)) \in Nat /\ Cardinality(Cloning(c)) \in Nat
  BY <1>1, Counted
<1>9. mu'[c].readers = mu[c].readers + Holds(x, c) - Holds(goroutine[g], c)
  OBVIOUS
<1>10. Holds(x, c) = (IF x.on = c /\ x.op \in {"headers", "cloning", "rest"} THEN 1 ELSE 0)
                     + (IF x.on = c /\ x.op = "cloning" THEN 1 ELSE 0)
  BY DEF Holds
<1>11. Holds(goroutine[g], c) = (IF g \in InR(c) THEN 1 ELSE 0) + (IF g \in Cloning(c) THEN 1 ELSE 0)
  BY <1>4 DEF Holds
<1> QED
  BY <1>5, <1>6, <1>7, <1>8, <1>9, <1>10, <1>11

\* A call that is begun, or a call of R that locks again: maps and requests stay.
LEMMA CallMoves ==
    ASSUME SettingsInv, NEW g \in Goroutines, NEW x \in Calls, goroutine' = [goroutine EXCEPT ![g] = x],
           UNCHANGED <<client, heap, requests>>, calls' \in Int, mu' \in [Clients -> Locks],
           x.op \notin {"idle", "rest", "cookies"}, client[x.on] # Settings!absent,
           x.op \in {"headers", "cloning"} => x.seen = Settings!Settings(x.on), SettingsLock'
    PROVE  SettingsHolds'
<1>0. SettingsTypes /\ SettingsPlaces /\ SettingsCopies /\ SettingsSeen
  BY DEF SettingsInv, SettingsHolds
<1>1. \A h \in Goroutines : goroutine'[h] = IF h = g THEN x ELSE goroutine[h]
  BY <1>0 DEF SettingsTypes
<1>2. SettingsTypes'
  BY <1>0 DEF SettingsTypes, Made, Maps
<1>3. SettingsPlaces'
  BY <1>0, <1>1 DEF SettingsPlaces, Maps, Settings!absent
<1>4. SettingsCopies'
  BY <1>0, <1>1 DEF SettingsCopies, Maps
<1>5. SettingsSeen'
  BY <1>0, <1>1 DEF SettingsSeen, Settings!Settings
<1>6. Settings!OwnMaps' /\ Settings!OneMoment'
  BY DEF SettingsInv, SettingsHolds, Settings!OwnMaps, Settings!OneMoment, Settings!absent
<1> QED
  BY <1>2, <1>3, <1>4, <1>5, <1>6 DEF SettingsHolds

LEMMA ReadersMove ==
    ASSUME SettingsTypes, NEW c \in Clients, NEW v \in Int, mu' = [mu EXCEPT ![c].readers = v]
    PROVE  /\ mu' \in [Clients -> Locks]
           /\ \A d \in Clients : /\ mu[d].readers \in Int
                                 /\ mu'[d].readers = IF d = c THEN v ELSE mu[d].readers
<1>1. /\ mu \in [Clients -> Locks] /\ mu[c] \in Locks
      /\ \A d \in Clients : mu[d].readers \in Int
  BY DEF SettingsTypes, Locks
<1>2. PICK m : m = [mu[c] EXCEPT !.readers = v]
  OBVIOUS
<1>3. m \in Locks /\ m.readers = v
  BY <1>1, <1>2 DEF Locks
<1>4. mu' = [mu EXCEPT ![c] = m]
  BY <1>2
<1> QED
  BY <1>1, <1>3, <1>4

LEMMA LockTaken ==
    ASSUME SettingsTypes, NEW c \in Clients, mu' = [mu EXCEPT ![c].readers = @ + 1]
    PROVE  /\ mu' \in [Clients -> Locks]
           /\ \A d \in Clients : /\ mu[d].readers \in Int
                                 /\ mu'[d].readers = mu[d].readers + (IF d = c THEN 1 ELSE 0)
<1>1. PICK v \in Int : v = mu[c].readers + 1
  BY DEF SettingsTypes, Locks
<1>2. mu' = [mu EXCEPT ![c].readers = v]
  BY <1>1
<1>3. /\ mu' \in [Clients -> Locks]
      /\ \A d \in Clients : /\ mu[d].readers \in Int
                            /\ mu'[d].readers = IF d = c THEN v ELSE mu[d].readers
  BY <1>2, ReadersMove
<1> QED
  BY <1>1, <1>3

LEMMA LockReturned ==
    ASSUME SettingsTypes, NEW c \in Clients, mu' = [mu EXCEPT ![c].readers = @ - 1]
    PROVE  /\ mu' \in [Clients -> Locks]
           /\ \A d \in Clients : /\ mu[d].readers \in Int
                                 /\ mu'[d].readers = mu[d].readers - (IF d = c THEN 1 ELSE 0)
<1>1. PICK v \in Int : v = mu[c].readers - 1
  BY DEF SettingsTypes, Locks
<1>2. mu' = [mu EXCEPT ![c].readers = v]
  BY <1>1
<1>3. /\ mu' \in [Clients -> Locks]
      /\ \A d \in Clients : /\ mu[d].readers \in Int
                            /\ mu'[d].readers = IF d = c THEN v ELSE mu[d].readers
  BY <1>2, ReadersMove
<1> QED
  BY <1>1, <1>3

LEMMA WaitingMoves ==
    ASSUME SettingsTypes, NEW c \in Clients, NEW b \in BOOLEAN, mu' = [mu EXCEPT ![c].waiting = b]
    PROVE  /\ mu' \in [Clients -> Locks]
           /\ \A d \in Clients : mu[d].readers \in Int /\ mu'[d].readers = mu[d].readers
<1>1. /\ mu \in [Clients -> Locks] /\ mu[c] \in Locks
      /\ \A d \in Clients : mu[d].readers \in Int
  BY DEF SettingsTypes, Locks
<1>2. PICK m : m = [mu[c] EXCEPT !.waiting = b]
  OBVIOUS
<1>3. m \in Locks /\ m.readers = mu[c].readers
  BY <1>1, <1>2 DEF Locks
<1>4. mu' = [mu EXCEPT ![c] = m]
  BY <1>2
<1> QED
  BY <1>1, <1>3, <1>4

LEMMA StartRKeeps ==
    ASSUME SettingsInv, NEW g \in Goroutines, NEW c \in Clients, Settings!StartR(g, c)
    PROVE  SettingsHolds'
<1>0. SettingsTypes /\ SettingsPlaces
  BY DEF SettingsInv, SettingsHolds
<1>1. PICK x : x = Settings!Reading(c)
  OBVIOUS
<1>x. x = [op |-> "headers", on |-> c, headers |-> 0, auth |-> 0, seen |-> Settings!Settings(c), had |-> cookies[c]]
  BY <1>1 DEF Settings!Reading, Settings!Idle
<1>2. /\ goroutine' = [goroutine EXCEPT ![g] = x] /\ goroutine[g].op = "idle" /\ client[c] # Settings!absent
      /\ mu' = [mu EXCEPT ![c].readers = @ + 1] /\ UNCHANGED <<client, heap, requests>> /\ calls' \in Int
  BY <1>0, <1>1 DEF Settings!StartR, Settings!Call, Settings!RLock, SettingsTypes
<1>3. Settings!Settings(c) \in Int \X Int
  BY <1>0, <1>2 DEF SettingsTypes, SettingsPlaces, Settings!Settings, Maps
<1>4. x \in Calls
  BY <1>x, <1>3 DEF Calls, Ops, SettingsInv, SettingsCookies
<1>5. /\ mu' \in [Clients -> Locks]
      /\ \A d \in Clients : mu'[d].readers = mu[d].readers + (IF d = c THEN 1 ELSE 0)
                          /\ mu[d].readers \in Int
  BY <1>0, <1>2, LockTaken
<1>6. SettingsLock'
  <2>1. \A d \in Clients : mu'[d].readers = mu[d].readers + Holds(x, d) - Holds(goroutine[g], d)
    BY <1>x, <1>2, <1>5 DEF Holds
  <2> QED
    BY <1>2, <2>1, LockCounts
<1> QED
  BY <1>x, <1>2, <1>4, <1>5, <1>6, CallMoves

LEMMA CloningKeeps ==
    ASSUME SettingsInv, NEW g \in Goroutines, Settings!cloneDefaultHeaders(g)
    PROVE  SettingsHolds'
<1>0. SettingsTypes /\ SettingsPlaces /\ SettingsSeen
  BY DEF SettingsInv, SettingsHolds
<1>1. PICK x : x = [goroutine[g] EXCEPT !.op = "cloning"]
  OBVIOUS
<1>2. /\ goroutine' = [goroutine EXCEPT ![g] = x] /\ goroutine[g].op = "headers" /\ goroutine[g] \in Calls
      /\ mu' = [mu EXCEPT ![goroutine[g].on].readers = @ + 1]
      /\ UNCHANGED <<client, heap, requests>> /\ calls' \in Int
  BY <1>0, <1>1 DEF Settings!cloneDefaultHeaders, Settings!RLock, SettingsTypes
<1>3. x \in Calls /\ x.op = "cloning" /\ x.on = goroutine[g].on /\ x.seen = goroutine[g].seen
  BY <1>1, <1>2 DEF Calls, Ops
<1>4. client[x.on] # Settings!absent /\ x.seen = Settings!Settings(x.on)
  BY <1>0, <1>2, <1>3 DEF SettingsPlaces, SettingsSeen
<1>5. /\ mu' \in [Clients -> Locks]
      /\ \A d \in Clients : /\ mu'[d].readers = mu[d].readers + (IF d = goroutine[g].on THEN 1 ELSE 0)
                            /\ mu[d].readers \in Int
  BY <1>0, <1>2, LockTaken DEF Calls
<1>6. SettingsLock'
  <2>1. \A d \in Clients : mu'[d].readers = mu[d].readers + Holds(x, d) - Holds(goroutine[g], d)
    BY <1>2, <1>3, <1>5 DEF Holds
  <2> QED
    BY <1>2, <2>1, LockCounts
<1> QED
  BY <1>2, <1>3, <1>4, <1>5, <1>6, CallMoves

LEMMA StartSetKeeps ==
    ASSUME SettingsInv, NEW g \in Goroutines, NEW c \in Clients, NEW what \in Setters,
           Settings!StartSet(g, c, what)
    PROVE  SettingsHolds'
<1>0. SettingsTypes
  BY DEF SettingsInv, SettingsHolds
<1>1. PICK x : x = [Settings!Idle EXCEPT !.op = what, !.on = c]
  OBVIOUS
<1>x. x = [op |-> what, on |-> c, headers |-> 0, auth |-> 0, seen |-> <<>>, had |-> 0]
  BY <1>1 DEF Settings!Idle
<1>2. /\ goroutine' = [goroutine EXCEPT ![g] = x] /\ goroutine[g].op = "idle" /\ client[c] # Settings!absent
      /\ mu' = [mu EXCEPT ![c].waiting = TRUE] /\ UNCHANGED <<client, heap, requests>> /\ calls' \in Int
  BY <1>0, <1>1 DEF Settings!StartSet, Settings!Call, SettingsTypes
<1>3. x \in Calls /\ x.op \notin {"idle", "headers", "cloning", "rest", "cookies"} /\ x.on = c
  <2>1. x.op = what /\ x.on = c
    BY <1>x
  <2>2. what \in Ops
    BY DEF Ops
  <2>3. x \in Calls
    BY <1>x, <2>2 DEF Calls
  <2> QED
    BY <2>1, <2>3 DEF Setters
<1>4. /\ mu' \in [Clients -> Locks]
      /\ \A d \in Clients : mu'[d].readers = mu[d].readers /\ mu[d].readers \in Int
  BY <1>0, <1>2, WaitingMoves
<1>5. SettingsLock'
  <2>1. \A d \in Clients : mu'[d].readers = mu[d].readers + Holds(x, d) - Holds(goroutine[g], d)
    BY <1>2, <1>3, <1>4 DEF Holds
  <2> QED
    BY <1>2, <2>1, LockCounts
<1> QED
  BY <1>2, <1>3, <1>4, <1>5, CallMoves

\* The headers are copied: the copy is a new map, which nobody else has.
LEMMA ClonedKeeps ==
    ASSUME SettingsInv, NEW g \in Goroutines, Settings!ClonedHeaders(g)
    PROVE  SettingsHolds'
<1> DEFINE c == goroutine[g].on
           fresh == Len(heap) + 1
<1>0. SettingsTypes /\ SettingsPlaces /\ SettingsCopies /\ SettingsSeen /\ Settings!OwnMaps /\ Settings!OneMoment
  BY DEF SettingsInv, SettingsHolds
<1>1. /\ goroutine[g].op = "cloning" /\ goroutine[g] \in Calls /\ c \in Clients
      /\ mu' = [mu EXCEPT ![c].readers = @ - 1]
      /\ heap' = Append(heap, heap[client[c].headers]) /\ UNCHANGED <<client, requests, calls>>
  BY <1>0 DEF Settings!ClonedHeaders, Settings!RUnlock, Settings!New, SettingsTypes, Calls
<1>2. /\ Len(heap) \in Nat /\ heap' \in Seq(Int) /\ Len(heap') = fresh /\ fresh \in Maps' /\ Maps \subseteq Maps'
      /\ heap'[fresh] = heap[client[c].headers] /\ \A i \in 1..Len(heap) : heap'[i] = heap[i]
      /\ client[c].headers \in Maps
  <2>1. client[c].headers \in Maps /\ heap \in Seq(Int) /\ Len(heap) \in Nat /\ Len(heap) >= 2
    BY <1>0, <1>1 DEF SettingsTypes, SettingsPlaces
  <2>2. heap[client[c].headers] \in Int
    BY <2>1 DEF Maps
  <2>3. /\ heap' \in Seq(Int) /\ Len(heap') = fresh /\ heap'[fresh] = heap[client[c].headers]
        /\ \A i \in 1..Len(heap) : heap'[i] = heap[i]
    BY <1>1, <2>1, <2>2, AppendProperties
  <2> QED
    BY <2>1, <2>3 DEF Maps
<1>3. PICK y, x : y = [goroutine[g] EXCEPT !.op = "rest"] /\ x = [y EXCEPT !.headers = fresh]
  OBVIOUS
<1>4. /\ x \in Calls /\ x.op = "rest" /\ x.on = c /\ x.headers = fresh /\ x.seen = goroutine[g].seen
      /\ goroutine' = [goroutine EXCEPT ![g] = x]
  <2>1. x \in Calls /\ x.op = "rest" /\ x.on = c /\ x.headers = fresh /\ x.seen = goroutine[g].seen
    <3>1. y \in Calls /\ y.op = "rest" /\ y.on = c /\ y.seen = goroutine[g].seen
      BY <1>1, <1>3 DEF Calls, Ops
    <3>2. fresh \in Nat
      BY <1>2
    <3> QED
      BY <1>3, <3>1, <3>2 DEF Calls
  <2>2. goroutine' = [goroutine EXCEPT ![g] = x]
    BY <1>0, <1>2, <1>3 DEF Settings!ClonedHeaders, SettingsTypes
  <2> QED
    BY <2>1, <2>2
<1>5. \A h \in Goroutines : goroutine'[h] = IF h = g THEN x ELSE goroutine[h]
  BY <1>0, <1>4 DEF SettingsTypes
<1>6. mu' \in [Clients -> Locks] /\ SettingsLock'
  <2>1. /\ mu' \in [Clients -> Locks]
        /\ \A d \in Clients : /\ mu[d].readers \in Int
                              /\ mu'[d].readers = mu[d].readers - (IF d = c THEN 1 ELSE 0)
    BY <1>0, <1>1, LockReturned
  <2>2. \A d \in Clients : mu'[d].readers = mu[d].readers + Holds(x, d) - Holds(goroutine[g], d)
    BY <1>1, <1>4, <2>1 DEF Holds
  <2> QED
    BY <1>4, <2>1, <2>2, LockCounts
<1>7. SettingsTypes'
  <2>1. goroutine' \in [Goroutines -> Calls]
    BY <1>0, <1>4 DEF SettingsTypes
  <2>2. \A r \in requests' : r \in Made'
    BY <1>0, <1>1, <1>2 DEF SettingsTypes, Made
  <2> QED
    BY <1>0, <1>1, <1>2, <1>6, <2>1, <2>2 DEF SettingsTypes
<1>8. SettingsPlaces'
  BY <1>0, <1>1, <1>2, <1>4, <1>5 DEF SettingsPlaces, Settings!absent
<1>9. SettingsCopies'
  <2>1. \A d \in Clients : client[d].headers # fresh
    BY <1>0, <1>2 DEF SettingsPlaces, Settings!absent, Maps
  <2>2. \A r \in requests : r.headers # fresh
    BY <1>0, <1>2 DEF SettingsTypes, Made, Maps
  <2>3. \A h \in Goroutines : goroutine[h].op \in {"rest", "cookies"} =>
            goroutine[h].headers # fresh /\ goroutine[h].headers \in Maps'
    BY <1>0, <1>2 DEF SettingsCopies, Maps
  <2> QED
    BY <1>0, <1>1, <1>2, <1>4, <1>5, <2>1, <2>2, <2>3 DEF SettingsCopies
<1>10. SettingsSeen'
  <2>1. \A d \in Clients : client[d] # Settings!absent => client[d].headers \in 1..Len(heap)
    BY <1>0 DEF SettingsPlaces, Maps
  <2>2. \A h \in Goroutines : goroutine[h].op \in {"rest", "cookies"} => goroutine[h].headers \in 1..Len(heap)
    BY <1>0 DEF SettingsCopies, Maps
  <2>3. \A h \in Goroutines : goroutine[h].op # "idle" => client[goroutine[h].on] # Settings!absent
    BY <1>0 DEF SettingsPlaces
  <2>4. \A d \in Clients : client[d] # Settings!absent => heap'[client[d].headers] = heap[client[d].headers]
    BY <1>2, <2>1
  <2>5. ASSUME NEW h \in Goroutines
        PROVE  /\ goroutine'[h].op \in {"headers", "cloning"} =>
                      goroutine'[h].seen = <<heap'[client'[goroutine'[h].on].headers], client'[goroutine'[h].on].auth>>
               /\ goroutine'[h].op = "rest" =>
                      goroutine'[h].seen = <<heap'[goroutine'[h].headers], client'[goroutine'[h].on].auth>>
               /\ goroutine'[h].op = "cookies" =>
                      goroutine'[h].seen = <<heap'[goroutine'[h].headers], goroutine'[h].auth>>
    <3>1. CASE h = g
      <4>1. goroutine[g].seen = <<heap[client[c].headers], client[c].auth>>
        BY <1>0, <1>1 DEF SettingsSeen, Settings!Settings
      <4> QED
        BY <1>1, <1>2, <1>4, <1>5, <3>1, <4>1
    <3>2. CASE h # g
      <4>1. goroutine'[h] = goroutine[h] /\ goroutine[h].on \in Clients
        BY <1>0, <1>5, <3>2 DEF SettingsTypes, Calls
      <4>2. goroutine[h].op \in {"headers", "cloning"} =>
                goroutine[h].seen = <<heap'[client[goroutine[h].on].headers], client[goroutine[h].on].auth>>
        BY <1>0, <2>3, <2>4, <4>1 DEF SettingsSeen, Settings!Settings
      <4>3. goroutine[h].op = "rest" =>
                goroutine[h].seen = <<heap'[goroutine[h].headers], client[goroutine[h].on].auth>>
        BY <1>0, <1>2, <2>2 DEF SettingsSeen
      <4>4. goroutine[h].op = "cookies" => goroutine[h].seen = <<heap'[goroutine[h].headers], goroutine[h].auth>>
        BY <1>0, <1>2, <2>2 DEF SettingsSeen
      <4> QED
        BY <1>1, <4>1, <4>2, <4>3, <4>4
    <3> QED
      BY <3>1, <3>2
  <2> QED
    BY <2>5 DEF SettingsSeen, Settings!Settings
<1>11. Settings!OwnMaps' /\ Settings!OneMoment'
  <2>1. \A r \in requests : r.headers \in 1..Len(heap)
    BY <1>0 DEF SettingsTypes, Made, Maps
  <2> QED
    BY <1>0, <1>1, <1>2, <2>1 DEF Settings!OwnMaps, Settings!OneMoment, Settings!absent
<1> QED
  BY <1>6, <1>7, <1>8, <1>9, <1>10, <1>11 DEF SettingsHolds

\* R has copied what mu guards, and gives it back.
LEMMA EndRKeeps ==
    ASSUME SettingsInv, NEW g \in Goroutines, Settings!EndR(g)
    PROVE  SettingsHolds'
<1> DEFINE c == goroutine[g].on
<1>0. SettingsTypes /\ SettingsPlaces /\ SettingsCopies /\ SettingsSeen /\ Settings!OwnMaps /\ Settings!OneMoment
  BY DEF SettingsInv, SettingsHolds
<1>1. PICK y, x : y = [goroutine[g] EXCEPT !.op = "cookies"] /\ x = [y EXCEPT !.auth = client[c].auth]
  OBVIOUS
<1>2. /\ goroutine[g].op = "rest" /\ goroutine[g] \in Calls /\ c \in Clients
      /\ mu' = [mu EXCEPT ![c].readers = @ - 1] /\ UNCHANGED <<client, heap, requests, calls>>
  BY <1>0 DEF Settings!EndR, Settings!RUnlock, SettingsTypes, Calls
<1>3. /\ x \in Calls /\ x.op = "cookies" /\ x.on = c /\ x.headers = goroutine[g].headers
      /\ x.seen = goroutine[g].seen /\ x.auth = client[c].auth
  <2>1. /\ y \in Calls /\ y.op = "cookies" /\ y.on = c /\ y.headers = goroutine[g].headers
        /\ y.seen = goroutine[g].seen
    BY <1>1, <1>2 DEF Calls, Ops
  <2>2. client[c].auth \in Int
    BY <1>0, <1>2 DEF SettingsTypes
  <2> QED
    BY <1>1, <2>1, <2>2 DEF Calls
<1>g. goroutine' = [goroutine EXCEPT ![g] = x]
  BY <1>0, <1>1 DEF Settings!EndR, SettingsTypes
<1>4. \A h \in Goroutines : goroutine'[h] = IF h = g THEN x ELSE goroutine[h]
  BY <1>0, <1>g DEF SettingsTypes
<1>7. mu' \in [Clients -> Locks] /\ SettingsLock'
  <2>1. /\ mu' \in [Clients -> Locks]
        /\ \A d \in Clients : /\ mu[d].readers \in Int
                              /\ mu'[d].readers = mu[d].readers - (IF d = c THEN 1 ELSE 0)
    BY <1>0, <1>2, LockReturned
  <2>2. \A d \in Clients : mu'[d].readers = mu[d].readers + Holds(x, d) - Holds(goroutine[g], d)
    BY <1>2, <1>3, <2>1 DEF Holds
  <2> QED
    BY <1>g, <2>1, <2>2, LockCounts
<1>8. SettingsTypes'
  BY <1>0, <1>2, <1>3, <1>g, <1>7 DEF SettingsTypes, Made, Maps
<1>9. SettingsPlaces'
  BY <1>0, <1>2, <1>3, <1>4 DEF SettingsPlaces, Maps, Settings!absent
<1>10. SettingsCopies'
  BY <1>0, <1>2, <1>3, <1>4 DEF SettingsCopies, Maps
<1>11. SettingsSeen'
  <2>1. goroutine[g].seen = <<heap[goroutine[g].headers], client[c].auth>>
    BY <1>0, <1>2 DEF SettingsSeen
  <2> QED
    BY <1>0, <1>2, <1>3, <1>4, <2>1 DEF SettingsSeen, Settings!Settings
<1>12. Settings!OwnMaps' /\ Settings!OneMoment'
  BY <1>0, <1>2 DEF Settings!OwnMaps, Settings!OneMoment, Settings!absent
<1> QED
  BY <1>7, <1>8, <1>9, <1>10, <1>11, <1>12 DEF SettingsHolds

\* R hands its copies on, with the cookies that are there now.
LEMMA SnapshotKeeps ==
    ASSUME SettingsInv, NEW g \in Goroutines, Settings!cookiesSnapshot(g)
    PROVE  SettingsHolds'
<1> DEFINE c == goroutine[g].on
<1>0. SettingsTypes /\ SettingsPlaces /\ SettingsCopies /\ SettingsSeen /\ Settings!OwnMaps /\ Settings!OneMoment
  BY DEF SettingsInv, SettingsHolds
<1>1. PICK r, x : r = [headers |-> goroutine[g].headers, auth |-> goroutine[g].auth, cookies |-> cookies[c],
                       seen |-> goroutine[g].seen, had |-> goroutine[g].had]
                  /\ x = Settings!Idle
  OBVIOUS
<1>2. /\ goroutine[g].op = "cookies" /\ goroutine[g] \in Calls /\ c \in Clients
      /\ requests' = requests \cup {r} /\ goroutine' = [goroutine EXCEPT ![g] = x]
      /\ UNCHANGED <<mu, client, heap, calls>>
  BY <1>0, <1>1 DEF Settings!cookiesSnapshot, SettingsTypes, Calls
<1>3. x \in Calls /\ x.op = "idle"
  BY <1>1, FirstClient DEF Settings!Idle, Calls, Ops
<1>4. \A h \in Goroutines : goroutine'[h] = IF h = g THEN x ELSE goroutine[h]
  BY <1>0, <1>2 DEF SettingsTypes
<1>5. r.headers = goroutine[g].headers /\ <<heap[r.headers], r.auth>> = r.seen /\ r.had <= r.cookies
  BY <1>0, <1>1, <1>2 DEF SettingsSeen, SettingsInv, SettingsCookies
<1>6. r \in Made
  <2>1. goroutine[g].headers \in Maps /\ goroutine[g].auth \in Int /\ heap[goroutine[g].headers] \in Int
    <3>1. goroutine[g].headers \in Maps
      BY <1>0, <1>2 DEF SettingsCopies
    <3>2. heap[goroutine[g].headers] \in Int
      BY <1>0, <3>1 DEF SettingsTypes, Maps
    <3>3. goroutine[g].auth \in Int
      BY <1>2 DEF Calls
    <3> QED
      BY <3>1, <3>2, <3>3
  <2>2. goroutine[g].seen = <<heap[goroutine[g].headers], goroutine[g].auth>>
    BY <1>0, <1>2 DEF SettingsSeen
  <2>3. goroutine[g].seen \in Int \X Int
    BY <2>1, <2>2
  <2>4. cookies[c] \in Int /\ goroutine[g].had \in Int
    BY <1>2 DEF SettingsInv, SettingsCookies, Calls
  <2> QED
    BY <1>1, <2>1, <2>3, <2>4 DEF Made
<1>7. SettingsLock'
  <2>1. \A d \in Clients : mu'[d].readers = mu[d].readers + Holds(x, d) - Holds(goroutine[g], d)
    BY <1>0, <1>2, <1>3 DEF Holds, SettingsTypes, Locks
  <2> QED
    BY <1>2, <2>1, LockCounts
<1>8. SettingsTypes'
  BY <1>0, <1>2, <1>3, <1>6 DEF SettingsTypes, Made, Maps
<1>9. SettingsPlaces'
  BY <1>0, <1>2, <1>3, <1>4 DEF SettingsPlaces, Maps, Settings!absent
<1>10. SettingsCopies'
  BY <1>0, <1>2, <1>3, <1>4, <1>5 DEF SettingsCopies, Maps
<1>11. SettingsSeen'
  BY <1>0, <1>2, <1>3, <1>4 DEF SettingsSeen, Settings!Settings
<1>12. Settings!OwnMaps'
  <2>1. /\ \A q \in requests : q.headers # r.headers
        /\ \A d \in Clients : client[d].headers # r.headers
    BY <1>0, <1>2, <1>5 DEF SettingsCopies
  <2> QED
    BY <1>0, <1>2, <2>1 DEF Settings!OwnMaps, Settings!absent
<1>13. Settings!OneMoment'
  BY <1>0, <1>2, <1>5 DEF Settings!OneMoment
<1> QED
  BY <1>7, <1>8, <1>9, <1>10, <1>11, <1>12, <1>13 DEF SettingsHolds

\* A cookie changes nothing else.
LEMMA AddCookieKeeps ==
    ASSUME SettingsInv, NEW g \in Goroutines, NEW c \in Clients, Settings!AddCookie(g, c)
    PROVE  SettingsHolds'
<1>1. UNCHANGED <<mu, client, heap, goroutine, requests>> /\ calls' = calls + 1
  BY DEF Settings!AddCookie, Settings!Call
<1>2. SettingsTypes' /\ SettingsPlaces' /\ SettingsCopies'
  BY <1>1 DEF SettingsInv, SettingsHolds, SettingsTypes, SettingsPlaces, SettingsCopies, Made, Maps, Settings!absent
<1>3. SettingsSeen' /\ SettingsLock'
  BY <1>1 DEF SettingsInv, SettingsHolds, SettingsSeen, SettingsLock, InR, Cloning, Settings!Settings
<1>4. Settings!OwnMaps' /\ Settings!OneMoment'
  BY <1>1 DEF SettingsInv, SettingsHolds, Settings!OwnMaps, Settings!OneMoment, Settings!absent
<1> QED
  BY <1>2, <1>3, <1>4 DEF SettingsHolds

\* A setter changes its client's map, its client's value or what all share, when no
\* call of R reads that client.
LEMMA SetterKeeps ==
    ASSUME SettingsInv, NEW g \in Goroutines, goroutine[g].op \in Setters, NEW c \in Clients,
           c = goroutine[g].on, mu[c].readers = 0, mu' = [mu EXCEPT ![c].waiting = FALSE],
           goroutine' = [goroutine EXCEPT ![g] = Settings!Idle], UNCHANGED <<requests, calls>>,
           heap' \in Seq(Int), Len(heap') = Len(heap),
           client' \in [Clients -> [headers : Nat, auth : Int, http : Nat]],
           \A d \in Clients : /\ d # c => client'[d] = client[d]
                             /\ client'[d].headers = client[d].headers /\ client'[d].http = client[d].http,
           \A i \in Maps : i # client[c].headers => heap'[i] = heap[i]
    PROVE  SettingsHolds'
<1>0. SettingsTypes /\ SettingsPlaces /\ SettingsCopies /\ SettingsSeen /\ Settings!OwnMaps /\ Settings!OneMoment
  BY DEF SettingsInv, SettingsHolds
<1>1. PICK x : x = Settings!Idle
  OBVIOUS
<1>2. x \in Calls /\ x.op = "idle" /\ goroutine[g].op \notin {"idle", "headers", "cloning", "rest", "cookies"}
  <2>1. x \in Calls /\ x.op = "idle"
    BY <1>1, FirstClient DEF Settings!Idle, Calls, Ops
  <2>2. goroutine[g].op \notin {"idle", "headers", "cloning", "rest", "cookies"}
    BY DEF Setters
  <2> QED
    BY <2>1, <2>2
<1>3. \A h \in Goroutines : goroutine'[h] = IF h = g THEN x ELSE goroutine[h]
  BY <1>0, <1>1 DEF SettingsTypes
<1>4. mu' \in [Clients -> Locks] /\ SettingsLock'
  <2>1. /\ mu' \in [Clients -> Locks]
        /\ \A d \in Clients : mu[d].readers \in Int /\ mu'[d].readers = mu[d].readers
    BY <1>0, WaitingMoves
  <2>2. \A d \in Clients : mu'[d].readers = mu[d].readers + Holds(x, d) - Holds(goroutine[g], d)
    BY <1>2, <2>1 DEF Holds
  <2>3. goroutine' = [goroutine EXCEPT ![g] = x]
    BY <1>1
  <2>4. SettingsLock'
    BY ONLY SettingsInv, g \in Goroutines, <2>2, <2>3, LockCounts
  <2> QED
    BY <2>1, <2>4
<1>5. \A d \in Clients : /\ client[d] = Settings!absent => client[d].headers = 0
                         /\ client[d] # Settings!absent => client[d].headers \in Maps /\ client[d].headers # 0
  BY <1>0 DEF SettingsPlaces, Settings!absent, Maps
<1>6. \A d \in Clients : client'[d] = Settings!absent <=> client[d] = Settings!absent
  <2>1. ASSUME client[c] = Settings!absent PROVE FALSE
    BY <1>0, <1>2, <2>1 DEF SettingsPlaces
  <2>2. client[c].headers # 0
    BY <1>5, <2>1
  <2>3. client'[c] # Settings!absent
    BY <2>2 DEF Settings!absent
  <2> QED
    BY <2>1, <2>3
<1>7. SettingsTypes'
  <2>1. goroutine' \in [Goroutines -> Calls]
    BY <1>0, <1>1, <1>2 DEF SettingsTypes
  <2>2. Maps' = Maps /\ Len(heap') >= 2 /\ calls' \in Int
    BY <1>0 DEF SettingsTypes, Maps
  <2>3. \A r \in requests' : r \in Made'
    BY <1>0, <2>2 DEF SettingsTypes, Made
  <2> QED
    BY <1>4, <2>1, <2>2, <2>3 DEF SettingsTypes
<1>8. SettingsPlaces'
  <2>1. Maps' = Maps
    BY DEF Maps
  <2>2. client'[1] # Settings!absent
    BY <1>0, <1>6, FirstClient DEF SettingsPlaces
  <2>3. \A d \in Clients : client'[d] = Settings!absent \/ (client'[d].headers \in Maps /\ client'[d].http = 2)
    BY <1>0, <1>6 DEF SettingsPlaces
  <2>4. ASSUME NEW h \in Goroutines, goroutine'[h].op # "idle"
        PROVE  client'[goroutine'[h].on] # Settings!absent
    <3>1. goroutine'[h] = goroutine[h] /\ goroutine[h].on \in Clients
      BY <1>0, <1>2, <1>3, <2>4 DEF SettingsTypes, Calls
    <3>2. client[goroutine[h].on] # Settings!absent
      BY <1>0, <2>4, <3>1 DEF SettingsPlaces
    <3> QED
      BY <1>6, <3>1, <3>2
  <2>5. Settings!absent' = Settings!absent
    BY DEF Settings!absent
  <2> QED
    BY <2>1, <2>2, <2>3, <2>4, <2>5 DEF SettingsPlaces
<1>9. SettingsCopies'
  BY <1>0, <1>2, <1>3 DEF SettingsCopies, Maps
<1>10. SettingsSeen'
  <2>1. ASSUME NEW h \in Goroutines, h # g, goroutine[h].op \in {"headers", "cloning", "rest"}
        PROVE  goroutine[h].on \in Clients /\ goroutine[h].on # c
    BY <1>0, <2>1, ReadersCount DEF SettingsTypes, Calls
  <2>2. ASSUME NEW h \in Goroutines, h # g, goroutine[h].op \in {"headers", "cloning"}
        PROVE  goroutine[h].seen = <<heap'[client'[goroutine[h].on].headers], client'[goroutine[h].on].auth>>
    <3>1. goroutine[h].on \in Clients /\ goroutine[h].on # c
      BY <2>1, <2>2
    <3>2. client[goroutine[h].on] # Settings!absent
      BY <1>0, <2>2 DEF SettingsPlaces
    <3>3. client[goroutine[h].on].headers \in Maps /\ client[goroutine[h].on].headers # client[c].headers
      BY <1>0, <1>5, <3>1, <3>2 DEF Settings!OwnMaps
    <3>4. goroutine[h].seen = <<heap[client[goroutine[h].on].headers], client[goroutine[h].on].auth>>
      BY <1>0, <2>2 DEF SettingsSeen, Settings!Settings
    <3> QED
      BY <3>1, <3>3, <3>4
  <2>3. ASSUME NEW h \in Goroutines, h # g, goroutine[h].op = "rest"
        PROVE  goroutine[h].seen = <<heap'[goroutine[h].headers], client'[goroutine[h].on].auth>>
    <3>1. goroutine[h].on \in Clients /\ goroutine[h].on # c
      BY <2>1, <2>3
    <3>2. goroutine[h].headers \in Maps /\ goroutine[h].headers # client[c].headers
      BY <1>0, <2>3 DEF SettingsCopies
    <3>3. goroutine[h].seen = <<heap[goroutine[h].headers], client[goroutine[h].on].auth>>
      BY <1>0, <2>3 DEF SettingsSeen
    <3> QED
      BY <3>1, <3>2, <3>3
  <2>4. ASSUME NEW h \in Goroutines, h # g, goroutine[h].op = "cookies"
        PROVE  goroutine[h].seen = <<heap'[goroutine[h].headers], goroutine[h].auth>>
    <3>1. goroutine[h].headers \in Maps /\ goroutine[h].headers # client[c].headers
      BY <1>0, <2>4 DEF SettingsCopies
    <3>2. goroutine[h].seen = <<heap[goroutine[h].headers], goroutine[h].auth>>
      BY <1>0, <2>4 DEF SettingsSeen
    <3> QED
      BY <3>1, <3>2
  <2>5. ASSUME NEW h \in Goroutines
        PROVE  /\ goroutine'[h].op \in {"headers", "cloning"} =>
                      goroutine'[h].seen = <<heap'[client'[goroutine'[h].on].headers], client'[goroutine'[h].on].auth>>
               /\ goroutine'[h].op = "rest" =>
                      goroutine'[h].seen = <<heap'[goroutine'[h].headers], client'[goroutine'[h].on].auth>>
               /\ goroutine'[h].op = "cookies" =>
                      goroutine'[h].seen = <<heap'[goroutine'[h].headers], goroutine'[h].auth>>
    <3>1. CASE h = g
      BY <1>2, <1>3, <3>1
    <3>2. CASE h # g
      <4>1. goroutine'[h] = goroutine[h]
        BY <1>3, <3>2
      <4> QED
        BY <2>2, <2>3, <2>4, <3>2, <4>1
    <3> QED
      BY <3>1, <3>2
  <2> QED
    BY <2>5 DEF SettingsSeen, Settings!Settings
<1>11. Settings!OwnMaps'
  <2>1. Settings!absent' = Settings!absent
    BY DEF Settings!absent
  <2>2. ASSUME NEW d \in Clients, NEW e \in Clients, d # e, client'[d] # Settings!absent
        PROVE  client'[d].headers # client'[e].headers
    <3>1. client[d] # Settings!absent
      BY <1>6, <2>2
    <3>2. client[d].headers # client[e].headers
      BY <1>0, <2>2, <3>1 DEF Settings!OwnMaps
    <3> QED
      BY <3>2
  <2>3. \A r \in requests, d \in Clients : r.headers # client'[d].headers
    BY <1>0 DEF Settings!OwnMaps
  <2>4. \A r, q \in requests : r # q => r.headers # q.headers
    BY <1>0 DEF Settings!OwnMaps
  <2> QED
    BY <2>1, <2>2, <2>3, <2>4 DEF Settings!OwnMaps
<1>12. Settings!OneMoment'
  <2>1. \A r \in requests : r.headers \in Maps /\ r.headers # client[c].headers
    BY <1>0 DEF SettingsTypes, Made, Settings!OwnMaps
  <2> QED
    BY <1>0, <2>1 DEF Settings!OneMoment
<1> QED
  BY <1>4, <1>7, <1>8, <1>9, <1>10, <1>11, <1>12 DEF SettingsHolds

LEMMA SettersKeep ==
    ASSUME SettingsInv, NEW g \in Goroutines,
           Settings!SetHeader(g) \/ Settings!SetAuthToken(g) \/ Settings!SetTimeout(g)
    PROVE  SettingsHolds'
<1> DEFINE c == goroutine[g].on
<1>0. SettingsTypes /\ SettingsPlaces
  BY DEF SettingsInv, SettingsHolds
<1>1. /\ goroutine[g].op \in Setters /\ c \in Clients /\ mu[c].readers = 0
      /\ mu' = [mu EXCEPT ![c].waiting = FALSE] /\ goroutine' = [goroutine EXCEPT ![g] = Settings!Idle]
      /\ UNCHANGED <<requests, calls>>
  BY <1>0 DEF Settings!SetHeader, Settings!SetAuthToken, Settings!SetTimeout, SettingsTypes, Calls, Setters
<1>2. /\ client[c] \in [headers : Nat, auth : Int, http : Nat] /\ client[c].headers \in Maps /\ client[c].http = 2
      /\ 2 \in 1..Len(heap) /\ heap \in Seq(Int) /\ calls \in Int
  <2>1. client[c] # Settings!absent
    BY <1>0, <1>1 DEF SettingsPlaces, Setters
  <2>2. client[c].headers \in Maps /\ client[c].http = 2
    BY <1>0, <1>1, <2>1 DEF SettingsPlaces
  <2> QED
    BY <1>0, <1>1, <2>2 DEF SettingsTypes
<1>3. CASE Settings!SetHeader(g)
  <2>1. heap' = [heap EXCEPT ![client[c].headers] = calls] /\ UNCHANGED client
    BY <1>3 DEF Settings!SetHeader
  <2>2. heap' \in Seq(Int) /\ Len(heap') = Len(heap) /\ \A i \in Maps : i # client[c].headers => heap'[i] = heap[i]
    BY <1>2, <2>1, ExceptSeq DEF Maps
  <2>3. client' \in [Clients -> [headers : Nat, auth : Int, http : Nat]]
    BY <1>0, <2>1 DEF SettingsTypes
  <2> QED
    BY <1>1, <2>1, <2>2, <2>3, SetterKeeps
<1>4. CASE Settings!SetAuthToken(g)
  <2>1. client' = [client EXCEPT ![c].auth = calls] /\ UNCHANGED heap
    BY <1>4 DEF Settings!SetAuthToken
  <2>2. PICK m : m = [client[c] EXCEPT !.auth = calls]
    OBVIOUS
  <2>3. m \in [headers : Nat, auth : Int, http : Nat] /\ m.headers = client[c].headers /\ m.http = client[c].http
    BY <1>2, <2>2
  <2>4. client' = [client EXCEPT ![c] = m]
    BY <2>1, <2>2
  <2>5. /\ client' \in [Clients -> [headers : Nat, auth : Int, http : Nat]]
        /\ \A d \in Clients : /\ d # c => client'[d] = client[d]
                              /\ client'[d].headers = client[d].headers /\ client'[d].http = client[d].http
    BY <1>0, <1>1, <2>3, <2>4 DEF SettingsTypes
  <2>6. heap' \in Seq(Int) /\ Len(heap') = Len(heap)
    BY <1>2, <2>1
  <2> QED
    BY <1>1, <2>1, <2>5, <2>6, SetterKeeps
<1>5. CASE Settings!SetTimeout(g)
  <2>1. heap' = [heap EXCEPT ![2] = calls] /\ UNCHANGED client
    BY <1>2, <1>5 DEF Settings!SetTimeout
  <2>2. heap' \in Seq(Int) /\ Len(heap') = Len(heap) /\ \A i \in Maps : heap'[i] = heap[i]
    BY <1>2, <2>1, ExceptSeq DEF Maps
  <2>3. client' \in [Clients -> [headers : Nat, auth : Int, http : Nat]]
    BY <1>0, <2>1 DEF SettingsTypes
  <2> QED
    BY <1>1, <2>1, <2>2, <2>3, SetterKeeps
<1> QED
  BY <1>3, <1>4, <1>5

\* A clone gets a new map; what is there stays.
LEMMA CloneKeeps ==
    ASSUME SettingsInv, NEW g \in Goroutines, NEW c \in Clients,
           Settings!Clone(g, c) \/ Settings!SubClient(g, c)
    PROVE  SettingsHolds'
<1> DEFINE fresh == Len(heap) + 1
<1>0. SettingsTypes /\ SettingsPlaces /\ SettingsCopies /\ SettingsSeen /\ Settings!OwnMaps /\ Settings!OneMoment
  BY DEF SettingsInv, SettingsHolds
<1>1. /\ 1 \in Clients /\ client[1] \in [headers : Nat, auth : Int, http : Nat] /\ client[1].headers \in Maps
      /\ client[1].http = 2 /\ heap \in Seq(Int) /\ Len(heap) \in Nat /\ Len(heap) >= 2
      /\ heap[client[1].headers] \in Int
  <2>1. 1 \in Clients /\ client[1].headers \in Maps /\ client[1].http = 2 /\ heap \in Seq(Int)
    BY <1>0, FirstClient DEF SettingsTypes, SettingsPlaces
  <2> QED
    BY <1>0, <2>1 DEF SettingsTypes, Maps
<1>2. PICK v \in Int, a \in Int :
          /\ heap' = Append(heap, v)
          /\ client' = [client EXCEPT ![c] = [headers |-> fresh, auth |-> a, http |-> 2]]
          /\ client[c] = Settings!absent /\ calls' \in Int /\ UNCHANGED <<mu, goroutine, requests>>
  <2>1. calls' \in Int /\ client[c] = Settings!absent /\ UNCHANGED <<mu, goroutine, requests>>
    BY <1>0 DEF Settings!Clone, Settings!SubClient, Settings!Call, SettingsTypes
  <2>2. \A v \in Int : Len(Append(heap, v)) = fresh
    BY <1>1, AppendProperties
  <2>3. CASE Settings!Clone(g, c)
    <3>1. heap' = Append(heap, heap[client[1].headers])
      BY <2>3 DEF Settings!Clone, Settings!New
    <3>2. client' = [client EXCEPT ![c] = [client[1] EXCEPT !.headers = Len(heap')]]
      BY <2>3 DEF Settings!Clone
    <3>3. Len(heap') = fresh
      BY <1>1, <2>2, <3>1
    <3>4. [client[1] EXCEPT !.headers = Len(heap')] = [headers |-> fresh, auth |-> client[1].auth, http |-> 2]
      BY <1>1, <3>3
    <3>5. client[1].auth \in Int
      BY <1>1
    <3> QED
      BY <1>1, <2>1, <3>1, <3>2, <3>4, <3>5
  <2>4. CASE Settings!SubClient(g, c)
    <3>1. PICK v \in {heap[client[1].headers], calls'}, a \in {client[1].auth, calls'} :
              /\ heap' = Append(heap, v)
              /\ client' = [client EXCEPT ![c] = [headers |-> Len(heap'), auth |-> a, http |-> client[1].http]]
      BY <2>4 DEF Settings!SubClient, Settings!New
    <3>2. v \in Int /\ a \in Int
      BY <1>1, <2>1, <3>1
    <3>3. Len(heap') = fresh
      BY <2>2, <3>1, <3>2
    <3> QED
      BY <1>1, <2>1, <3>1, <3>2, <3>3
  <2> QED
    BY <2>3, <2>4
<1>3. PICK n : n = [headers |-> fresh, auth |-> a, http |-> 2]
  OBVIOUS
<1>4. /\ heap' \in Seq(Int) /\ Len(heap') = fresh /\ fresh \in Maps' /\ Maps \subseteq Maps'
      /\ \A i \in 1..Len(heap) : heap'[i] = heap[i]
  <2>1. heap' \in Seq(Int) /\ Len(heap') = fresh /\ \A i \in 1..Len(heap) : heap'[i] = heap[i]
    BY <1>1, <1>2, AppendProperties
  <2>2. Maps' = 1..fresh \ {2}
    BY <2>1 DEF Maps
  <2>3. fresh \in 1..fresh /\ fresh # 2 /\ \A i \in 1..Len(heap) : i \in 1..fresh
    BY <1>1
  <2> QED
    BY <2>1, <2>2, <2>3 DEF Maps
<1>5. /\ n \in [headers : Nat, auth : Int, http : Nat] /\ n.headers = fresh /\ n.http = 2
      /\ n # Settings!absent
  <2>1. n.headers = fresh /\ fresh # 0 /\ fresh \in Nat
    BY <1>1, <1>3
  <2> QED
    BY <1>2, <1>3, <2>1 DEF Settings!absent
<1>6. \A d \in Clients : client'[d] = IF d = c THEN n ELSE client[d]
  BY <1>0, <1>2, <1>3 DEF SettingsTypes
<1>7. \A d \in Clients : client[d] # Settings!absent => d # c /\ client'[d] = client[d] /\ client[d].headers \in Maps
  BY <1>0, <1>2, <1>6 DEF SettingsPlaces
<1>8. SettingsTypes'
  <2>1. client' \in [Clients -> [headers : Nat, auth : Int, http : Nat]]
    BY <1>0, <1>2, <1>3, <1>5 DEF SettingsTypes
  <2>2. \A r \in requests' : r \in Made'
    BY <1>0, <1>2, <1>4 DEF SettingsTypes, Made
  <2>3. Len(heap') >= 2
    BY <1>1, <1>4
  <2> QED
    BY <1>0, <1>2, <1>4, <2>1, <2>2, <2>3 DEF SettingsTypes
<1>9. Settings!absent' = Settings!absent
  BY DEF Settings!absent
<1>10. SettingsPlaces'
  <2>1. client'[1] # Settings!absent
    BY <1>0, <1>1, <1>7 DEF SettingsPlaces
  <2>2. ASSUME NEW d \in Clients
        PROVE  client'[d] = Settings!absent \/ (client'[d].headers \in Maps' /\ client'[d].http = 2)
    <3>1. CASE d = c
      BY <1>4, <1>5, <1>6, <3>1
    <3>2. CASE d # c
      BY <1>0, <1>4, <1>6, <3>2 DEF SettingsPlaces
    <3> QED
      BY <3>1, <3>2
  <2>3. ASSUME NEW h \in Goroutines, goroutine[h].op # "idle"
        PROVE  client'[goroutine[h].on] # Settings!absent
    <3>1. goroutine[h].on \in Clients /\ client[goroutine[h].on] # Settings!absent
      BY <1>0, <2>3 DEF SettingsTypes, SettingsPlaces, Calls
    <3> QED
      BY <1>7, <3>1
  <2> QED
    BY <1>2, <1>9, <2>1, <2>2, <2>3 DEF SettingsPlaces
<1>11. SettingsCopies'
  <2>1. ASSUME NEW h \in Goroutines, goroutine[h].op \in {"rest", "cookies"}
        PROVE  goroutine[h].headers \in Maps' /\ \A d \in Clients : client'[d].headers # goroutine[h].headers
    <3>1. goroutine[h].headers \in Maps /\ \A d \in Clients : client[d].headers # goroutine[h].headers
      BY <1>0, <2>1 DEF SettingsCopies
    <3>2. goroutine[h].headers # fresh
      BY <1>1, <3>1 DEF Maps
    <3> QED
      BY <1>4, <1>5, <1>6, <3>1, <3>2
  <2> QED
    BY <1>0, <1>2, <2>1 DEF SettingsCopies
<1>12. SettingsSeen'
  <2>1. ASSUME NEW h \in Goroutines, goroutine[h].op \in {"headers", "cloning", "rest"}
        PROVE  /\ client'[goroutine[h].on] = client[goroutine[h].on]
               /\ heap'[client[goroutine[h].on].headers] = heap[client[goroutine[h].on].headers]
    <3>1. goroutine[h].on \in Clients /\ client[goroutine[h].on] # Settings!absent
      BY <1>0, <2>1 DEF SettingsTypes, SettingsPlaces, Calls
    <3>2. client[goroutine[h].on].headers \in 1..Len(heap)
      BY <1>7, <3>1 DEF Maps
    <3> QED
      BY <1>4, <1>7, <3>1, <3>2
  <2>2. ASSUME NEW h \in Goroutines, goroutine[h].op \in {"rest", "cookies"}
        PROVE  heap'[goroutine[h].headers] = heap[goroutine[h].headers]
    BY <1>0, <1>4, <2>2 DEF SettingsCopies, Maps
  <2>3. ASSUME NEW h \in Goroutines
        PROVE  /\ goroutine[h].op \in {"headers", "cloning"} =>
                      goroutine[h].seen = <<heap'[client'[goroutine[h].on].headers], client'[goroutine[h].on].auth>>
               /\ goroutine[h].op = "rest" =>
                      goroutine[h].seen = <<heap'[goroutine[h].headers], client'[goroutine[h].on].auth>>
               /\ goroutine[h].op = "cookies" => goroutine[h].seen = <<heap'[goroutine[h].headers], goroutine[h].auth>>
    <3>1. /\ goroutine[h].op \in {"headers", "cloning"} =>
                 goroutine[h].seen = <<heap[client[goroutine[h].on].headers], client[goroutine[h].on].auth>>
          /\ goroutine[h].op = "rest" =>
                 goroutine[h].seen = <<heap[goroutine[h].headers], client[goroutine[h].on].auth>>
          /\ goroutine[h].op = "cookies" => goroutine[h].seen = <<heap[goroutine[h].headers], goroutine[h].auth>>
      BY <1>0 DEF SettingsSeen, Settings!Settings
    <3> QED
      BY <2>1, <2>2, <3>1
  <2> QED
    BY <1>2, <2>3 DEF SettingsSeen, Settings!Settings
<1>13. Settings!OwnMaps'
  <2>1. \A d \in Clients : client[d].headers # fresh
    BY <1>0, <1>1 DEF SettingsPlaces, Settings!absent, Maps
  <2>2. \A r \in requests : r.headers # fresh
    BY <1>0, <1>1 DEF SettingsTypes, Made, Maps
  <2>3. ASSUME NEW d \in Clients, NEW e \in Clients, d # e, client'[d] # Settings!absent
        PROVE  client'[d].headers # client'[e].headers
    <3>1. CASE d = c
      BY <1>5, <1>6, <2>1, <2>3, <3>1
    <3>2. CASE d # c
      <4>1. client[d].headers # client[e].headers /\ client'[d] = client[d]
        BY <1>0, <1>6, <2>3, <3>2 DEF Settings!OwnMaps
      <4> QED
        BY <1>5, <1>6, <2>1, <4>1
    <3> QED
      BY <3>1, <3>2
  <2>4. \A r \in requests, d \in Clients : r.headers # client'[d].headers
    BY <1>0, <1>5, <1>6, <2>2 DEF Settings!OwnMaps
  <2>5. \A r, q \in requests : r # q => r.headers # q.headers
    BY <1>0 DEF Settings!OwnMaps
  <2> QED
    BY <1>2, <1>9, <2>3, <2>4, <2>5 DEF Settings!OwnMaps
<1>14. Settings!OneMoment'
  <2>1. \A r \in requests : r.headers \in 1..Len(heap)
    BY <1>0 DEF SettingsTypes, Made, Maps
  <2> QED
    BY <1>0, <1>2, <1>4, <2>1 DEF Settings!OneMoment
<1>15. SettingsLock'
  BY <1>2 DEF SettingsInv, SettingsHolds, SettingsLock, InR, Cloning
<1> QED
  BY <1>8, <1>10, <1>11, <1>12, <1>13, <1>14, <1>15 DEF SettingsHolds

LEMMA SettingsInitially == Settings!SettingsInit => SettingsInv
<1> SUFFICES ASSUME Settings!SettingsInit PROVE SettingsInv
  OBVIOUS
<1>1. /\ mu = [c \in Clients |-> [readers |-> 0, waiting |-> FALSE]] /\ heap = <<0, 0>> /\ calls = 0 /\ requests = {}
      /\ client = [c \in Clients |-> IF c = 1 THEN [headers |-> 1, auth |-> 0, http |-> 2]
                                     ELSE [headers |-> 0, auth |-> 0, http |-> 0]]
      /\ goroutine = [g \in Goroutines |-> [op |-> "idle", on |-> 1, headers |-> 0, auth |-> 0,
                                          seen |-> <<>>, had |-> 0]]
      /\ cookies = [c \in Clients |-> 0]
  BY DEF Settings!SettingsInit, Settings!Free, Settings!Idle, Settings!absent
<1>2. 1 \in Maps /\ Len(heap) = 2 /\ heap \in Seq(Int)
  BY <1>1 DEF Maps
<1>3. SettingsTypes
  BY <1>1, <1>2, FirstClient DEF SettingsTypes, Locks, Calls, Ops
<1>4. client[1] # Settings!absent /\ \A c \in Clients : c # 1 => client[c] = Settings!absent
  BY <1>1, FirstClient DEF Settings!absent
<1>5. SettingsPlaces
  BY <1>1, <1>2, <1>4, FirstClient DEF SettingsPlaces
<1>6. SettingsCopies /\ SettingsSeen /\ Settings!OneMoment
  BY <1>1 DEF SettingsCopies, SettingsSeen, Settings!OneMoment
<1>7. Settings!OwnMaps
  BY <1>1 DEF Settings!OwnMaps, Settings!absent
<1>8. SettingsLock
  <2>1. \A c \in Clients : InR(c) = {} /\ Cloning(c) = {}
    BY <1>1 DEF InR, Cloning
  <2>2. Cardinality({}) = 0
    BY FS_EmptySet
  <2>3. \A c \in Clients : mu[c].readers = 0
    BY <1>1
  <2>4. \A c \in Clients : mu[c].readers = Cardinality(InR(c)) + Cardinality(Cloning(c))
    BY <2>1, <2>2, <2>3
  <2> QED
    BY <2>4 DEF SettingsLock
<1>9. SettingsCookies
  BY <1>1 DEF SettingsCookies
<1> QED
  BY <1>3, <1>5, <1>6, <1>7, <1>8, <1>9 DEF SettingsInv, SettingsHolds

\* Cookies are only added, and nobody reads a client that is yet to be made.
LEMMA CookiesKeep == SettingsInv /\ Settings!SettingsNext => SettingsCookies'
<1> DEFINE Reads == {"headers", "cloning", "rest", "cookies"}
<1> SUFFICES ASSUME SettingsInv, Settings!SettingsNext PROVE SettingsCookies'
  OBVIOUS
<1>0. /\ SettingsTypes /\ SettingsPlaces
      /\ cookies \in [Clients -> Int] /\ \A c \in Clients : cookies[c] <= calls
      /\ \A g \in Goroutines : goroutine[g].op \in Reads => goroutine[g].had <= cookies[goroutine[g].on]
  BY DEF SettingsInv, SettingsHolds, SettingsCookies
<1>1. PICK g \in Goroutines :
          \/ Settings!SettingsStep(g)
          \/ \E c \in Clients : \/ Settings!StartR(g, c) \/ Settings!AddCookie(g, c)
                               \/ Settings!Clone(g, c) \/ Settings!SubClient(g, c)
                               \/ \E what \in Setters : Settings!StartSet(g, c, what)
  BY DEF Settings!SettingsNext, Setters
<1>2. \A h \in Goroutines : goroutine[h].op # "idle" =>
          goroutine[h].on \in Clients /\ client[goroutine[h].on] # Settings!absent
  BY <1>0 DEF SettingsTypes, SettingsPlaces, Calls
\* Cookies move: only forward on a client that is there, and not past calls.
<1>3. ASSUME cookies' \in [Clients -> Int], \A c \in Clients : cookies'[c] <= calls',
             \A c \in Clients : client[c] # Settings!absent => cookies[c] <= cookies'[c],
             \A h \in Goroutines : goroutine'[h].op \in Reads =>
                 /\ goroutine'[h].on \in Clients /\ client[goroutine'[h].on] # Settings!absent
                 /\ goroutine'[h].had \in Int /\ goroutine'[h].had <= cookies[goroutine'[h].on]
      PROVE  SettingsCookies'
  <2>1. ASSUME NEW h \in Goroutines, goroutine'[h].op \in Reads
        PROVE  goroutine'[h].had <= cookies'[goroutine'[h].on]
    <3>1. PICK d \in Clients : d = goroutine'[h].on
      BY <1>3, <2>1
    <3>2. /\ goroutine'[h].had \in Int /\ cookies[d] \in Int /\ cookies'[d] \in Int
          /\ goroutine'[h].had <= cookies[d] /\ cookies[d] <= cookies'[d]
      BY <1>0, <1>3, <2>1, <3>1
    <3>3. goroutine'[h].had <= cookies'[d]
      BY <3>2
    <3> QED
      BY <3>1, <3>3
  <2> QED
    BY <1>3, <2>1 DEF SettingsCookies
\* A goroutine moves: a call of R keeps its client and what it had.
<1>4. ASSUME NEW x, goroutine' = [goroutine EXCEPT ![g] = x],
             x.op \in Reads => /\ x.on \in Clients /\ client[x.on] # Settings!absent
                               /\ x.had \in Int /\ x.had <= cookies[x.on]
      PROVE  \A h \in Goroutines : goroutine'[h].op \in Reads =>
                 /\ goroutine'[h].on \in Clients /\ client[goroutine'[h].on] # Settings!absent
                 /\ goroutine'[h].had \in Int /\ goroutine'[h].had <= cookies[goroutine'[h].on]
  <2>1. \A h \in Goroutines : goroutine'[h] = IF h = g THEN x ELSE goroutine[h]
    BY <1>0, <1>4 DEF SettingsTypes
  <2>2. \A h \in Goroutines : goroutine[h].op \in Reads => goroutine[h].op # "idle" /\ goroutine[h].had \in Int
    BY <1>0 DEF SettingsTypes, Calls
  <2> QED
    BY <1>0, <1>2, <1>4, <2>1, <2>2
<1>5. CASE UNCHANGED <<cookies, calls>> /\ Settings!SettingsStep(g)
  <2>1. goroutine[g] \in Calls /\ goroutine \in [Goroutines -> Calls]
    BY <1>0 DEF SettingsTypes
  <2>2. PICK x : /\ goroutine' = [goroutine EXCEPT ![g] = x]
                 /\ \/ x.op = "idle"
                    \/ goroutine[g].op \in Reads /\ x.on = goroutine[g].on /\ x.had = goroutine[g].had
    <3>1. CASE Settings!cloneDefaultHeaders(g)
      <4>1. PICK x : x = [goroutine[g] EXCEPT !.op = "cloning"]
        OBVIOUS
      <4>2. x.on = goroutine[g].on /\ x.had = goroutine[g].had
        BY <2>1, <4>1 DEF Calls
      <4>3. goroutine' = [goroutine EXCEPT ![g] = x] /\ goroutine[g].op = "headers"
        BY <3>1, <4>1 DEF Settings!cloneDefaultHeaders
      <4> QED
        BY <4>2, <4>3
    <3>2. CASE Settings!ClonedHeaders(g)
      <4>1. PICK y, x : y = [goroutine[g] EXCEPT !.op = "rest"] /\ x = [y EXCEPT !.headers = Len(heap')]
        OBVIOUS
      <4>2. x.on = goroutine[g].on /\ x.had = goroutine[g].had
        BY <2>1, <4>1 DEF Calls
      <4>3. goroutine' = [goroutine EXCEPT ![g] = x] /\ goroutine[g].op = "cloning"
        BY <2>1, <3>2, <4>1 DEF Settings!ClonedHeaders
      <4> QED
        BY <4>2, <4>3
    <3>3. CASE Settings!EndR(g)
      <4>1. PICK y, x : /\ y = [goroutine[g] EXCEPT !.op = "cookies"]
                        /\ x = [y EXCEPT !.auth = client[goroutine[g].on].auth]
        OBVIOUS
      <4>2. x.on = goroutine[g].on /\ x.had = goroutine[g].had
        BY <2>1, <4>1 DEF Calls
      <4>3. goroutine' = [goroutine EXCEPT ![g] = x] /\ goroutine[g].op = "rest"
        BY <2>1, <3>3, <4>1 DEF Settings!EndR
      <4> QED
        BY <4>2, <4>3
    <3>4. CASE \/ Settings!cookiesSnapshot(g)
               \/ Settings!SetHeader(g) \/ Settings!SetAuthToken(g) \/ Settings!SetTimeout(g)
      <4>1. goroutine' = [goroutine EXCEPT ![g] = Settings!Idle]
        BY <3>4 DEF Settings!cookiesSnapshot, Settings!SetHeader, Settings!SetAuthToken, Settings!SetTimeout
      <4>2. Settings!Idle.op = "idle"
        BY DEF Settings!Idle
      <4> QED
        BY <4>1, <4>2
    <3> QED
      BY <1>5, <3>1, <3>2, <3>3, <3>4 DEF Settings!SettingsStep
  <2>3. x.op \in Reads => /\ x.on \in Clients /\ client[x.on] # Settings!absent
                          /\ x.had \in Int /\ x.had <= cookies[x.on]
    <3>1. x.op \in Reads => goroutine[g].op \in Reads /\ x.on = goroutine[g].on /\ x.had = goroutine[g].had
      BY <2>2
    <3> QED
      BY <1>0, <1>2, <2>1, <3>1 DEF Calls
  <2>4. \A h \in Goroutines : goroutine'[h].op \in Reads =>
            /\ goroutine'[h].on \in Clients /\ client[goroutine'[h].on] # Settings!absent
            /\ goroutine'[h].had \in Int /\ goroutine'[h].had <= cookies[goroutine'[h].on]
    BY <1>4, <2>2, <2>3
  <2>5. \A d \in Clients : cookies[d] \in Int /\ cookies'[d] = cookies[d] /\ cookies'[d] <= calls'
    BY <1>0, <1>5
  <2>6. cookies' \in [Clients -> Int] /\ \A d \in Clients : cookies[d] <= cookies'[d]
    BY <1>0, <1>5, <2>5
  <2> QED
    BY <1>3, <2>4, <2>5, <2>6
<1>6. ASSUME Settings!SettingsStep(g) PROVE UNCHANGED <<cookies, calls>>
  BY <1>6 DEF Settings!SettingsStep, Settings!cloneDefaultHeaders, Settings!ClonedHeaders, Settings!EndR,
              Settings!cookiesSnapshot, Settings!SetHeader, Settings!SetAuthToken, Settings!SetTimeout
<1>7. ASSUME NEW c \in Clients, Settings!StartR(g, c) \/ (\E what \in Setters : Settings!StartSet(g, c, what))
      PROVE  SettingsCookies'
  <2>1. UNCHANGED cookies /\ calls' = calls + 1 /\ calls \in Int /\ client[c] # Settings!absent
    BY <1>0, <1>7 DEF Settings!StartR, Settings!StartSet, Settings!Call, SettingsTypes
  <2>2. PICK x : /\ goroutine' = [goroutine EXCEPT ![g] = x]
                 /\ x.op \notin Reads \/ (x.on = c /\ x.had = cookies[c])
    <3>1. CASE Settings!StartR(g, c)
      <4>1. /\ goroutine' = [goroutine EXCEPT ![g] = Settings!Reading(c)]
            /\ Settings!Reading(c).on = c /\ Settings!Reading(c).had = cookies[c]
        BY <3>1 DEF Settings!StartR, Settings!Reading, Settings!Idle
      <4> QED
        BY <4>1
    <3>2. ASSUME NEW what \in Setters, Settings!StartSet(g, c, what)
          PROVE  \E x : goroutine' = [goroutine EXCEPT ![g] = x] /\ x.op \notin Reads
      <4>1. PICK x : x = [Settings!Idle EXCEPT !.op = what, !.on = c]
        OBVIOUS
      <4>2. goroutine' = [goroutine EXCEPT ![g] = x] /\ x.op = what
        BY <3>2, <4>1 DEF Settings!StartSet, Settings!Idle
      <4> QED
        BY <4>2 DEF Setters
    <3> QED
      BY <1>7, <3>1, <3>2
  <2>3. \A d \in Clients : cookies[d] \in Int /\ cookies[d] <= calls'
    BY <1>0, <2>1
  <2>4. x.op \in Reads => /\ x.on \in Clients /\ client[x.on] # Settings!absent
                          /\ x.had \in Int /\ x.had <= cookies[x.on]
    BY <2>1, <2>2, <2>3
  <2>5. \A h \in Goroutines : goroutine'[h].op \in Reads =>
            /\ goroutine'[h].on \in Clients /\ client[goroutine'[h].on] # Settings!absent
            /\ goroutine'[h].had \in Int /\ goroutine'[h].had <= cookies[goroutine'[h].on]
    BY <1>4, <2>2, <2>4
  <2>6. \A d \in Clients : cookies'[d] <= calls' /\ cookies[d] <= cookies'[d]
    BY <2>1, <2>3
  <2>7. cookies' \in [Clients -> Int]
    BY <1>0, <2>1
  <2> QED
    BY <1>3, <2>5, <2>6, <2>7
<1>8. ASSUME NEW c \in Clients, Settings!AddCookie(g, c) \/ Settings!Clone(g, c) \/ Settings!SubClient(g, c)
      PROVE  SettingsCookies'
  <2>1. UNCHANGED goroutine /\ calls' = calls + 1 /\ calls \in Int /\ 1 \in Clients
    BY <1>0, <1>8, FirstClient
    DEF Settings!AddCookie, Settings!Clone, Settings!SubClient, Settings!Call, SettingsTypes
  <2>2. PICK v \in {cookies[1], calls'} : /\ cookies' = [cookies EXCEPT ![c] = v]
                                          /\ v = calls' \/ client[c] = Settings!absent
    BY <1>8 DEF Settings!AddCookie, Settings!Clone, Settings!SubClient
  <2>3. v \in Int /\ v <= calls' /\ \A d \in Clients : cookies[d] \in Int /\ cookies[d] <= calls'
    BY <1>0, <2>1
  <2>4. \A d \in Clients : cookies'[d] = IF d = c THEN v ELSE cookies[d]
    BY <1>0, <2>2
  <2>5. cookies' \in [Clients -> Int]
    BY <1>0, <2>2, <2>3
  <2>6. \A d \in Clients : client[d] # Settings!absent => cookies[d] <= cookies'[d]
    BY <2>2, <2>3, <2>4
  <2>7. \A h \in Goroutines : goroutine[h].had \in Int
    BY <1>0 DEF SettingsTypes, Calls
  <2>8. \A d \in Clients : cookies'[d] <= calls'
    BY <2>3, <2>4
  <2> QED
    BY <1>0, <1>2, <1>3, <2>1, <2>5, <2>6, <2>7, <2>8
<1> QED
  BY <1>1, <1>5, <1>6, <1>7, <1>8

LEMMA SettingsSteps == SettingsInv /\ Settings!SettingsNext => SettingsInv'
<1> SUFFICES ASSUME SettingsInv, Settings!SettingsNext PROVE SettingsHolds'
  BY CookiesKeep DEF SettingsInv
<1>1. PICK g \in Goroutines :
          \/ Settings!SettingsStep(g)
          \/ \E c \in Clients : \/ Settings!StartR(g, c) \/ Settings!AddCookie(g, c)
                               \/ Settings!Clone(g, c) \/ Settings!SubClient(g, c)
                               \/ \E what \in Setters : Settings!StartSet(g, c, what)
  BY DEF Settings!SettingsNext, Setters
<1>2. CASE Settings!SettingsStep(g)
  BY <1>2, CloningKeeps, ClonedKeeps, EndRKeeps, SnapshotKeeps, SettersKeep DEF Settings!SettingsStep
<1>3. ASSUME NEW c \in Clients, Settings!StartR(g, c) PROVE SettingsHolds'
  BY <1>3, StartRKeeps
<1>6. ASSUME NEW c \in Clients, Settings!AddCookie(g, c) PROVE SettingsHolds'
  BY <1>6, AddCookieKeeps
<1>4. ASSUME NEW c \in Clients, Settings!Clone(g, c) \/ Settings!SubClient(g, c) PROVE SettingsHolds'
  BY <1>4, CloneKeeps
<1>5. ASSUME NEW c \in Clients, NEW what \in Setters, Settings!StartSet(g, c, what) PROVE SettingsHolds'
  BY <1>5, StartSetKeeps
<1> QED
  BY <1>1, <1>2, <1>3, <1>4, <1>5, <1>6

LEMMA SettingsStay == SettingsInv /\ UNCHANGED settingsVars => SettingsInv'
<1> SUFFICES ASSUME SettingsInv, UNCHANGED settingsVars PROVE SettingsInv'
  OBVIOUS
<1>1. UNCHANGED <<mu, client, heap, cookies, goroutine, requests, calls>>
  BY DEF settingsVars
<1>2. SettingsTypes' /\ SettingsPlaces' /\ SettingsCopies'
  BY <1>1 DEF SettingsInv, SettingsHolds, SettingsTypes, SettingsPlaces, SettingsCopies, Made, Maps, Settings!absent
<1>3. SettingsSeen' /\ SettingsLock'
  BY <1>1 DEF SettingsInv, SettingsHolds, SettingsSeen, SettingsLock, InR, Cloning, Settings!Settings
<1>4. Settings!OwnMaps' /\ Settings!OneMoment'
  BY <1>1 DEF SettingsInv, SettingsHolds, Settings!OwnMaps, Settings!OneMoment, Settings!absent
<1>5. SettingsCookies'
  BY <1>1 DEF SettingsInv, SettingsCookies
<1> QED
  BY <1>2, <1>3, <1>4, <1>5 DEF SettingsInv, SettingsHolds

\* A goroutine that waits for a lock: R for its second read lock while a setter waits,
\* a setter while the client is read.
Blocked(g) ==
    \/ goroutine[g].op = "headers" /\ mu[goroutine[g].on].waiting
    \/ goroutine[g].op \in Setters /\ mu[goroutine[g].on].readers # 0

\* If all goroutines in a call wait, then one of them is in R.
StuckInR ==
    (\E g \in Goroutines : goroutine[g].op # "idle") /\ (\A g \in Goroutines : goroutine[g].op # "idle" => Blocked(g)) =>
        \E g \in Goroutines : goroutine[g].op = "headers" /\ mu[goroutine[g].on].waiting

\* What makes a setter wait is a call of R that reads.
LEMMA SettingsStuck == SettingsInv => StuckInR
<1> SUFFICES ASSUME SettingsInv,
                    NEW g \in Goroutines, goroutine[g].op # "idle",
                    \A h \in Goroutines : goroutine[h].op # "idle" => Blocked(h)
             PROVE  \E h \in Goroutines : goroutine[h].op = "headers" /\ mu[goroutine[h].on].waiting
  BY DEF StuckInR
<1> DEFINE c == goroutine[g].on
<1>1. CASE goroutine[g].op \in Setters
  <2>1. mu[c].readers # 0 /\ c \in Clients
    BY <1>1 DEF Blocked, Setters, SettingsInv, SettingsHolds, SettingsTypes, Calls
  <2>2. InR(c) # {}
    <3>1. SUFFICES ASSUME InR(c) = {} PROVE FALSE
      OBVIOUS
    <3>2. Cloning(c) = {}
      BY <3>1 DEF InR, Cloning
    <3>3. mu[c].readers = Cardinality({}) + Cardinality({})
      BY <2>1, <3>1, <3>2 DEF SettingsInv, SettingsHolds, SettingsLock
    <3> QED
      BY <2>1, <3>3, FS_EmptySet
  <2>3. PICK h \in Goroutines : goroutine[h].op \in {"headers", "cloning", "rest"}
    BY <2>2 DEF InR
  <2>4. Blocked(h)
    BY <2>3
  <2> QED
    BY <2>3, <2>4 DEF Blocked, Setters
<1>2. CASE goroutine[g].op \notin Setters
  <2>1. Blocked(g)
    OBVIOUS
  <2> QED
    BY <1>2, <2>1 DEF Blocked
<1> QED
  BY <1>1, <1>2

\* gclient's R, Clone, SubClient and the setters, for any number of goroutines, clients
\* and calls: a map of settings belongs to one client or one request, the settings in a
\* request that mu guards are those of the moment R began and its cookies, which another
\* lock guards, not older, and when all calls wait for a lock, one of them is R, which
\* waits for its second read lock behind a setter.
THEOREM SettingsSafe == Spec => [](Settings!OwnMaps /\ Settings!OneMoment /\ StuckInR)
<1>1. Init => SettingsInv
  BY SettingsInitially DEF Init
<1>2. SettingsInv /\ [Next]_vars => SettingsInv'
  <2> SUFFICES ASSUME SettingsInv, [Next]_vars PROVE SettingsInv'
    OBVIOUS
  <2>1. Settings!SettingsNext \/ UNCHANGED settingsVars
    BY DEF Next, Still, vars
  <2> QED
    BY <2>1, SettingsSteps, SettingsStay
<1>3. SettingsInv => Settings!OwnMaps /\ Settings!OneMoment /\ StuckInR
  BY SettingsStuck DEF SettingsInv, SettingsHolds
<1> QED
  BY <1>1, <1>2, <1>3, PTL DEF Spec

-------------------------------------------------------------------------------
(***************************************************************************)
(* A SOAP call.  What is under way says what happened so far: the request  *)
(* holds the body that was set last, and the answer what the operation,    *)
(* which is the one of that body, came to.                                 *)
(***************************************************************************)
Ran(b) == [asked |-> b, operation |-> invoked.operation, body |-> b, outcome |-> invoked.outcome,
           value |-> invoked.value]

SOAPTypes ==
    /\ service \in Services \cup {<<>>}
    /\ soapRequest = [operation |-> soapRequest.operation, endpoint |-> soapRequest.endpoint,
                      soapHeader |-> soapRequest.soapHeader, body |-> soapRequest.body,
                      envelope |-> soapRequest.envelope]
    /\ soapRequest.envelope = [ns |-> soapRequest.envelope.ns, header |-> FALSE,
                               content |-> soapRequest.envelope.content, fault |-> ""]
    /\ http = [at |-> http.at, env |-> http.env, out |-> http.out]

\* What is sent next is what was set last.
BodyIsLast ==
    IF soapRequest.envelope = Soap!noEnvelope THEN soapRequest.body = body ELSE soapRequest.envelope.content = body

\* An operation that was called is the one that was asked for.
Asked ==
    \/ invoked = Soap!notRun(invoked.asked)
    \/ /\ invoked.operation # <<>> /\ invoked = Ran(invoked.asked)
       /\ Soap!running.request = invoked.asked.name

Answered(env) ==
    \/ invoked.operation = <<>> /\ env.fault = "soap:Client"
    \/ /\ invoked.operation # <<>>
       /\ \/ /\ invoked.outcome = "response" /\ env.fault = "" /\ env.content = invoked.value
             /\ Soap!checkResponseWrapper(Soap!running.response, invoked.value.name)
          \/ invoked.outcome = "response" /\ env.fault = "soap:Server"
          \/ invoked.outcome # "response" /\ env.fault = Soap!Served(invoked.outcome) /\ env.fault # ""

UnderWay ==
    /\ http.at \in {"idle", "request", "handler", "reply"}
    /\ http.at # "idle" => result = Soap!noResult
    /\ http.at = "request" => invoked = Soap!notRun(http.env.content)
    /\ http.at = "handler" => invoked.operation # <<>>
    /\ http.at = "reply" => Answered(http.env)

SOAPInv == SOAPTypes /\ BodyIsLast /\ Asked /\ UnderWay /\ Soap!CallTruthful

\* A service has a first operation among those that match.
LEMMA FirstMatch ==
    ASSUME service \in Services, NEW name, Soap!Matches(name) # {}
    PROVE  Soap!findOperationByWrapper(name).request = name
<1>1. service \in Seq(SOAPOperations)
  BY HTTPConstants
<1>2. Soap!Matches(name) \subseteq Nat
  BY <1>1, LenProperties DEF Soap!Matches
<1> DEFINE T == Soap!Matches(name)
           Before == OpToRel(<, Nat)
<1>3. \E i \in T : \A j \in T : ~(<<j, i>> \in Before)
  <2>1. IsWellFoundedOn(Before, Nat) /\ T \subseteq Nat /\ T # {}
    BY <1>2, NatLessThanWellFounded
  <2> HIDE DEF T, Before
  <2> QED
    BY <2>1, WFMin
<1>4. PICK i \in T : \A j \in T : i <= j
  <2>1. PICK i \in T : \A j \in T : ~(<<j, i>> \in Before)
    BY <1>3
  <2>2. ASSUME NEW j \in T PROVE i <= j
    <3>1. i \in Nat /\ j \in Nat /\ ~(<<j, i>> \in Before)
      BY <1>2, <2>1
    <3>2. Before = {p \in Nat \X Nat : p[1] < p[2]}
      BY DEF OpToRel
    <3> HIDE DEF Before
    <3>3. j < i => <<j, i>> \in Before
      BY <3>1, <3>2
    <3> QED
      BY <3>1, <3>3
  <2> QED
    BY <2>2
<1>5. (CHOOSE k \in Soap!Matches(name) : \A j \in Soap!Matches(name) : k <= j) \in Soap!Matches(name)
  BY <1>4
<1> QED
  BY <1>5 DEF Soap!findOperationByWrapper, Soap!Matches

LEMMA SOAPInitially == Soap!SOAPInit => SOAPInv
<1> SUFFICES ASSUME Soap!SOAPInit PROVE SOAPInv
  OBVIOUS
<1>1. SOAPTypes /\ BodyIsLast
  <2>1. PICK op \in Operations : soapRequest = [operation |-> op, endpoint |-> FALSE, soapHeader |-> FALSE,
                                                body |-> Soap!nil, envelope |-> Soap!noEnvelope]
    BY DEF Soap!SOAPInit
  <2>2. http = Soap!idle /\ service = <<>> /\ body = Soap!nil
    BY DEF Soap!SOAPInit
  <2>3. SOAPTypes
    BY <2>1, <2>2 DEF SOAPTypes, Soap!noEnvelope, Soap!idle
  <2> QED
    BY <2>1, <2>2, <2>3 DEF BodyIsLast
<1>2. Asked /\ UnderWay
  BY DEF Soap!SOAPInit, Asked, UnderWay, Soap!notRun, Soap!idle
<1>3. Soap!CallTruthful
  BY DEF Soap!SOAPInit, Soap!CallTruthful, Soap!notRun, Soap!noResult
<1> QED
  BY <1>1, <1>2, <1>3 DEF SOAPInv

\* The caller registers the service or sets something: what was called stays.
LEMMA SetsKeep ==
    ASSUME SOAPInv, UNCHANGED <<http, invoked, result>>, SOAPTypes', BodyIsLast'
    PROVE  SOAPInv'
<1>1. Asked' /\ UnderWay' /\ Soap!CallTruthful'
  BY DEF SOAPInv, Asked, UnderWay, Answered, Ran, Soap!notRun, Soap!CallTruthful, Soap!running, Soap!noResult,
         Soap!Served, Soap!checkResponseWrapper, Soap!nil
<1> QED
  BY <1>1 DEF SOAPInv

LEMMA SettersKeepCall ==
    ASSUME SOAPInv,
           \/ Soap!SetEndpoint \/ Soap!SetSOAPHeader
           \/ \E c \in Contents : Soap!SetBody(c) \/ Soap!SetEnvelope(c, "") \/ Soap!SetEnvelope(c, "soap12")
    PROVE  SOAPInv'
<1>1. SOAPTypes /\ BodyIsLast
  BY DEF SOAPInv
<1>2. UNCHANGED <<http, invoked, result>>
  BY DEF Soap!SetEndpoint, Soap!SetSOAPHeader, Soap!SetBody, Soap!SetEnvelope, Soap!Setter
<1>3. Soap!noEnvelope' = Soap!noEnvelope
  BY DEF Soap!noEnvelope, Soap!nil
<1>4. CASE Soap!SetEndpoint \/ Soap!SetSOAPHeader
  <2>1. soapRequest'.envelope = soapRequest.envelope /\ soapRequest'.body = soapRequest.body
        /\ UNCHANGED <<service, body>>
    BY <1>1, <1>4 DEF Soap!SetEndpoint, Soap!SetSOAPHeader, Soap!Setter, SOAPTypes
  <2>2. SOAPTypes' /\ BodyIsLast'
    BY <1>1, <1>2, <1>3, <1>4, <2>1 DEF Soap!SetEndpoint, Soap!SetSOAPHeader, SOAPTypes, BodyIsLast
  <2> QED
    BY <1>2, <2>2, SetsKeep
<1>5. ASSUME NEW c \in Contents, Soap!SetBody(c) PROVE SOAPInv'
  <2>1. /\ soapRequest' = [soapRequest EXCEPT !.body = c, !.envelope = Soap!noEnvelope] /\ body' = c
        /\ UNCHANGED service
    BY <1>5 DEF Soap!SetBody, Soap!Setter
  <2>2. soapRequest'.envelope = Soap!noEnvelope /\ soapRequest'.body = c
    BY <1>1, <2>1 DEF SOAPTypes
  <2>3. SOAPTypes'
    BY <1>1, <1>2, <2>1, <2>2 DEF SOAPTypes, Soap!noEnvelope
  <2>4. BodyIsLast'
    BY <1>3, <2>1, <2>2 DEF BodyIsLast
  <2> QED
    BY <1>2, <2>3, <2>4, SetsKeep
<1>6. ASSUME NEW c \in Contents, NEW ns, Soap!SetEnvelope(c, ns) PROVE SOAPInv'
  <2>1. PICK e : e = [ns |-> ns, header |-> FALSE, content |-> c, fault |-> ""]
    OBVIOUS
  <2>2. soapRequest' = [soapRequest EXCEPT !.envelope = e] /\ body' = c /\ UNCHANGED service
    BY <1>6, <2>1 DEF Soap!SetEnvelope, Soap!Setter
  <2>3. soapRequest'.envelope = e
    BY <1>1, <2>2 DEF SOAPTypes
  <2>4. SOAPTypes'
    <3>1. e = [ns |-> e.ns, header |-> FALSE, content |-> e.content, fault |-> ""]
      BY <2>1
    <3>2. soapRequest' = [operation |-> soapRequest'.operation, endpoint |-> soapRequest'.endpoint,
                          soapHeader |-> soapRequest'.soapHeader, body |-> soapRequest'.body,
                          envelope |-> soapRequest'.envelope]
      BY <1>1, <2>2 DEF SOAPTypes
    <3> QED
      BY <1>1, <1>2, <2>2, <2>3, <3>1, <3>2 DEF SOAPTypes
  <2>5. e # Soap!noEnvelope
    <3>1. e.content = c /\ c.name # ""
      BY <2>1, HTTPConstants
    <3>2. Soap!noEnvelope.content.name = ""
      BY DEF Soap!noEnvelope, Soap!nil
    <3> QED
      BY <3>1, <3>2
  <2>6. BodyIsLast'
    <3>1. e.content = body'
      BY <2>1, <2>2
    <3> QED
      BY <1>3, <2>3, <2>5, <3>1 DEF BodyIsLast
  <2> QED
    BY <1>2, <2>4, <2>6, SetsKeep
<1> QED
  BY <1>4, <1>5, <1>6

LEMMA DoKeeps ==
    ASSUME SOAPInv, NEW out \in BOOLEAN, Soap!Do(out)
    PROVE  SOAPInv'
<1> DEFINE e == Soap!BuildHTTPRequest(Soap!defaultVersion(soapRequest.operation))
<1>0. SOAPTypes /\ BodyIsLast
  BY DEF SOAPInv
<1>1. /\ invoked' = Soap!notRun(body) /\ UNCHANGED <<service, soapRequest, body>>
      /\ \/ result' = [kind |-> "not sent", value |-> Soap!nil] /\ http' = Soap!idle
         \/ result' = Soap!noResult /\ http' = [at |-> "request", env |-> e.env, out |-> out]
  BY DEF Soap!Do
<1>2. e.env.content = body
  <2>1. ASSUME NEW op PROVE Soap!Envelope(op).env.content = body
    BY <1>0 DEF Soap!Envelope, Soap!Pinned, SOAPTypes, BodyIsLast
  <2>2. ASSUME NEW op PROVE Soap!BuildHTTPRequest(op).env = Soap!Envelope(op).env
    BY DEF Soap!BuildHTTPRequest, Soap!Envelope
  <2> QED
    BY <2>1, <2>2
<1> HIDE DEF e
<1>3. SOAPTypes' /\ BodyIsLast'
  <2>1. http' = [at |-> http'.at, env |-> http'.env, out |-> http'.out]
    BY <1>1 DEF Soap!idle
  <2>2. Soap!noEnvelope' = Soap!noEnvelope
    BY DEF Soap!noEnvelope, Soap!nil
  <2> QED
    BY <1>0, <1>1, <2>1, <2>2 DEF SOAPTypes, BodyIsLast
<1>4. Asked'
  BY <1>1 DEF Asked, Soap!notRun, Soap!nil
<1>5. UnderWay'
  <2>1. Soap!notRun(body)' = Soap!notRun(body)
    BY <1>1 DEF Soap!notRun, Soap!nil
  <2>2. Soap!noResult' = Soap!noResult
    <3>1. Soap!nil' = Soap!nil
      BY DEF Soap!nil
    <3> QED
      BY <3>1 DEF Soap!noResult
  <2>3. CASE http' = Soap!idle
    <3>1. http'.at = "idle"
      BY <2>3 DEF Soap!idle
    <3> QED
      BY <3>1 DEF UnderWay
  <2>4. CASE result' = Soap!noResult /\ http' = [at |-> "request", env |-> e.env, out |-> out]
    <3>1. http'.at = "request" /\ http'.env.content = body
      BY <1>2, <2>4
    <3> QED
      BY <1>1, <2>1, <2>2, <2>4, <3>1 DEF UnderWay, Soap!notRun
  <2> QED
    BY <1>1, <2>3, <2>4
<1>6. Soap!CallTruthful'
  <2>1. invoked'.operation = <<>>
    BY <1>1 DEF Soap!notRun
  <2>2. CASE http' = Soap!idle /\ result' = [kind |-> "not sent", value |-> Soap!nil]
    BY <2>1, <2>2 DEF Soap!CallTruthful
  <2>3. CASE result' = Soap!noResult
    BY <2>1, <2>3 DEF Soap!CallTruthful, Soap!noResult
  <2> QED
    BY <1>1, <2>2, <2>3
<1> QED
  BY <1>3, <1>4, <1>5, <1>6 DEF SOAPInv

\* The handler answers what came of the call.
LEMMA ReplyKeeps ==
    ASSUME SOAPInv, NEW env, Soap!Reply(env), UNCHANGED <<service, soapRequest, body, result>>,
           result = Soap!noResult, Asked', Answered(env)'
    PROVE  SOAPInv'
<1>0. SOAPTypes /\ BodyIsLast
  BY DEF SOAPInv
<1>1. http' = [at |-> "reply", env |-> env, out |-> http.out]
  BY <1>0 DEF Soap!Reply, SOAPTypes
<1>2. Soap!noResult' = Soap!noResult /\ Soap!noEnvelope' = Soap!noEnvelope
  BY DEF Soap!noResult, Soap!noEnvelope, Soap!nil
<1>3. SOAPTypes' /\ BodyIsLast'
  BY <1>0, <1>1, <1>2 DEF SOAPTypes, BodyIsLast
<1>4. UnderWay'
  BY <1>1, <1>2 DEF UnderWay, Answered
<1>5. Soap!CallTruthful'
  <2>1. result'.kind = "none"
    BY DEF Soap!noResult
  <2>2. invoked'.operation # <<>> => invoked'.body = invoked'.asked
    BY DEF Asked, Soap!notRun, Ran
  <2> QED
    BY <2>1, <2>2 DEF Soap!CallTruthful
<1> QED
  BY <1>3, <1>4, <1>5 DEF SOAPInv

LEMMA servePOSTKeeps ==
    ASSUME SOAPInv, Soap!servePOST
    PROVE  SOAPInv'
<1>0. SOAPTypes /\ BodyIsLast /\ Asked /\ UnderWay /\ Soap!CallTruthful
  BY DEF SOAPInv
<1>1. PICK c : c = http.env.content
  OBVIOUS
<1>2. /\ http.at = "request" /\ service # <<>> /\ UNCHANGED <<service, soapRequest, body, result>>
      /\ invoked = Soap!notRun(c) /\ result = Soap!noResult
  BY <1>0, <1>1 DEF Soap!servePOST, UnderWay
<1>3. CASE Soap!refusal(c) # ""
  <2>1. PICK env : env = Soap!MarshalFaultEnvelope(Soap!refusal(c))
    OBVIOUS
  <2>2. Soap!Reply(env) /\ UNCHANGED invoked
    BY <1>1, <1>3, <2>1 DEF Soap!servePOST, Soap!writeFault
  <2>3. env.fault = "soap:Client"
    <3>1. Soap!refusal(c) = "soap:Client"
      BY <1>3 DEF Soap!refusal
    <3> QED
      BY <2>1, <3>1 DEF Soap!MarshalFaultEnvelope
  <2>4. Answered(env)'
    BY <1>2, <2>2, <2>3 DEF Answered, Soap!notRun
  <2>5. Asked'
    BY <1>2, <2>2 DEF Asked, Soap!notRun, Soap!nil
  <2> QED
    BY <1>2, <2>2, <2>4, <2>5, ReplyKeeps
<1>4. CASE Soap!refusal(c) = ""
  <2>1. PICK op : op = Soap!findOperationByWrapper(c.name)
    OBVIOUS
  <2>2. /\ http' = [http EXCEPT !.at = "handler"]
        /\ invoked' = [invoked EXCEPT !.operation = <<op>>, !.body = c]
    BY <1>1, <1>4, <2>1 DEF Soap!servePOST
  <2>3. Soap!Matches(c.name) # {}
    BY <1>4 DEF Soap!refusal
  <2>4. op.request = c.name
    BY <1>0, <1>2, <2>1, <2>3, FirstMatch DEF SOAPTypes
  <2>5. /\ http' = [at |-> "handler", env |-> http.env, out |-> http.out]
        /\ invoked' = [asked |-> c, operation |-> <<op>>, body |-> c, outcome |-> "none", value |-> Soap!nil]
    BY <1>0, <1>2, <2>2 DEF SOAPTypes, Soap!notRun
  <2>6. Soap!noResult' = Soap!noResult /\ Soap!noEnvelope' = Soap!noEnvelope
    BY DEF Soap!noResult, Soap!noEnvelope, Soap!nil
  <2>7. SOAPTypes' /\ BodyIsLast'
    BY <1>0, <1>2, <2>5, <2>6 DEF SOAPTypes, BodyIsLast
  <2>8. Asked'
    <3>1. <<op>> # <<>> /\ <<op>>[1] = op
      OBVIOUS
    <3> QED
      BY <2>4, <2>5, <3>1 DEF Asked, Ran, Soap!running
  <2>9. UnderWay'
    <3>1. <<op>> # <<>>
      OBVIOUS
    <3> QED
      BY <1>2, <2>5, <2>6, <3>1 DEF UnderWay
  <2>10. Soap!CallTruthful'
    <3>1. result'.kind = "none" /\ invoked'.body = invoked'.asked
      BY <1>2, <2>5 DEF Soap!noResult
    <3> QED
      BY <3>1 DEF Soap!CallTruthful
  <2> QED
    BY <2>7, <2>8, <2>9, <2>10 DEF SOAPInv
<1> QED
  BY <1>3, <1>4

\* The operation responds or fails.
LEMMA InvokeKeeps ==
    ASSUME SOAPInv,
           \/ \E c \in Contents \cup {Soap!nil} : Soap!InvokeResponds(c)
           \/ \E code \in {"soap:Server", "", "app:Refused"} : Soap!InvokeFails(code)
    PROVE  SOAPInv'
<1>0. SOAPTypes /\ Asked /\ UnderWay
  BY DEF SOAPInv
<1>1. /\ http.at = "handler" /\ invoked.operation # <<>> /\ result = Soap!noResult
      /\ UNCHANGED <<service, soapRequest, body, result>>
  BY <1>0 DEF Soap!InvokeResponds, Soap!InvokeFails, UnderWay
<1>2. PICK b, q, o1, v1 : /\ invoked = [asked |-> b, operation |-> q, body |-> b, outcome |-> o1, value |-> v1]
                          /\ Soap!running.request = b.name /\ q # <<>>
  <2>1. invoked = Ran(invoked.asked) /\ Soap!running.request = invoked.asked.name
    <3>1. Soap!notRun(invoked.asked).operation = <<>>
      BY DEF Soap!notRun
    <3> QED
      BY <1>0, <1>1, <3>1 DEF Asked
  <2>2. PICK b, q, o1, v1 : b = invoked.asked /\ q = invoked.operation /\ o1 = invoked.outcome /\ v1 = invoked.value
    OBVIOUS
  <2>3. invoked = [asked |-> b, operation |-> q, body |-> b, outcome |-> o1, value |-> v1]
    BY <2>1, <2>2 DEF Ran
  <2> QED
    BY <1>1, <2>1, <2>2, <2>3
<1>3. ASSUME NEW o, NEW v, invoked' = [invoked EXCEPT !.outcome = o, !.value = v]
      PROVE  /\ Asked' /\ invoked'.operation = invoked.operation /\ invoked'.outcome = o /\ invoked'.value = v
             /\ Soap!running' = Soap!running
  <2>1. invoked' = [asked |-> b, operation |-> q, body |-> b, outcome |-> o, value |-> v]
    BY <1>2, <1>3
  <2>2. Soap!running' = Soap!running
    BY <1>2, <2>1 DEF Soap!running
  <2>3. invoked' = Ran(invoked.asked)'
    BY <2>1 DEF Ran
  <2> QED
    BY <1>1, <1>2, <2>1, <2>2, <2>3 DEF Asked
<1>4. ASSUME NEW c \in Contents \cup {Soap!nil}, Soap!InvokeResponds(c) PROVE SOAPInv'
  <2>1. Asked' /\ invoked'.operation = invoked.operation /\ invoked'.outcome = "response" /\ invoked'.value = c
        /\ Soap!running' = Soap!running
    BY <1>3, <1>4 DEF Soap!InvokeResponds, Soap!Ran
  <2>2. CASE Soap!encodes(Soap!running, c)
    <3>1. PICK env : env = [ns |-> Soap!SOAP11Envelope, header |-> FALSE, content |-> c, fault |-> ""]
      OBVIOUS
    <3>2. Soap!Reply(env)
      BY <1>4, <2>2, <3>1 DEF Soap!InvokeResponds
    <3>3. Soap!checkResponseWrapper(Soap!running.response, c.name)
      BY <2>2 DEF Soap!encodes
    <3>4. Answered(env)'
      BY <1>1, <2>1, <3>1, <3>3 DEF Answered, Soap!checkResponseWrapper
    <3> QED
      BY <1>1, <2>1, <3>2, <3>4, ReplyKeeps
  <2>3. CASE ~Soap!encodes(Soap!running, c)
    <3>1. PICK env : env = Soap!MarshalFaultEnvelope("soap:Server")
      OBVIOUS
    <3>2. Soap!Reply(env)
      BY <1>4, <2>3, <3>1 DEF Soap!InvokeResponds, Soap!writeFault
    <3>3. env.fault = "soap:Server"
      BY <3>1 DEF Soap!MarshalFaultEnvelope
    <3>4. Answered(env)'
      BY <1>1, <2>1, <3>3 DEF Answered
    <3> QED
      BY <1>1, <2>1, <3>2, <3>4, ReplyKeeps
  <2> QED
    BY <2>2, <2>3
<1>5. ASSUME NEW code \in {"soap:Server", "", "app:Refused"}, Soap!InvokeFails(code) PROVE SOAPInv'
  <2>1. Asked' /\ invoked'.operation = invoked.operation /\ invoked'.outcome = code
    BY <1>3, <1>5 DEF Soap!InvokeFails, Soap!Ran
  <2>2. PICK env : env = Soap!MarshalFaultEnvelope(code)
    OBVIOUS
  <2>3. Soap!Reply(env)
    BY <1>5, <2>2 DEF Soap!InvokeFails, Soap!writeInvokeFault, Soap!writeFault
  <2>4. env.fault = Soap!Served(code) /\ env.fault # ""
    BY <2>2 DEF Soap!MarshalFaultEnvelope, Soap!Served
  <2>5. Answered(env)'
    BY <1>1, <2>1, <2>4 DEF Answered, Soap!Served
  <2> QED
    BY <1>1, <2>1, <2>3, <2>5, ReplyKeeps
<1> QED
  BY <1>1, <1>4, <1>5

\* Do returns.
LEMMA ReturnKeeps ==
    ASSUME SOAPInv, Soap!Lose \/ Soap!NotSOAP \/ Soap!DoHTTP
    PROVE  SOAPInv'
<1>0. SOAPTypes /\ BodyIsLast /\ Asked /\ UnderWay /\ Soap!CallTruthful
  BY DEF SOAPInv
<1>1. http' = Soap!idle /\ UNCHANGED <<service, soapRequest, body, invoked>>
  BY DEF Soap!Lose, Soap!NotSOAP, Soap!DoHTTP, Soap!Return
<1>2. SOAPTypes' /\ BodyIsLast'
  <2>1. http' = [at |-> http'.at, env |-> http'.env, out |-> http'.out]
    BY <1>1 DEF Soap!idle
  <2>2. Soap!noEnvelope' = Soap!noEnvelope
    BY DEF Soap!noEnvelope, Soap!nil
  <2> QED
    BY <1>0, <1>1, <2>1, <2>2 DEF SOAPTypes, BodyIsLast
<1>3. Asked'
  BY <1>0, <1>1 DEF Asked, Ran, Soap!notRun, Soap!running, Soap!nil
<1>4. UnderWay'
  <2>1. http'.at = "idle"
    BY <1>1 DEF Soap!idle
  <2> QED
    BY <2>1 DEF UnderWay
<1>5. invoked.operation # <<>> => invoked.body = invoked.asked
  BY <1>0 DEF Soap!CallTruthful
<1>6. ASSUME NEW v, result' = [kind |-> "error", value |-> v] PROVE Soap!CallTruthful'
  <2>1. result'.kind = "error"
    BY <1>6
  <2> QED
    BY <1>1, <1>5, <2>1 DEF Soap!CallTruthful
<1>7. ASSUME Soap!Lose \/ Soap!NotSOAP PROVE Soap!CallTruthful'
  BY <1>6, <1>7 DEF Soap!Lose, Soap!NotSOAP, Soap!Return
<1>8. ASSUME Soap!DoHTTP PROVE Soap!CallTruthful'
  <2> DEFINE c == http.env.content
  <2>1. Answered(http.env)
    BY <1>0, <1>8 DEF Soap!DoHTTP, UnderWay
  <2>2. CASE http.env.fault # ""
    <3>1. result'.kind = "fault" /\ result'.value.name = http.env.fault
      <4>1. result' = [kind |-> "fault", value |-> [name |-> http.env.fault, decodes |-> TRUE]]
        BY <1>8, <2>2 DEF Soap!DoHTTP, Soap!ExtractFault, Soap!Return
      <4> QED
        BY <4>1
    <3>2. invoked.operation # <<>> =>
              http.env.fault = IF invoked.outcome = "response" THEN "soap:Server" ELSE Soap!Served(invoked.outcome)
      BY <2>1, <2>2 DEF Answered
    <3>3. result'.kind # "ok"
      BY <3>1
    <3> QED
      BY <1>1, <1>5, <3>1, <3>2, <3>3 DEF Soap!CallTruthful, Soap!Served
  <2>3. CASE http.env.fault = ""
    <3>1. /\ invoked.operation # <<>> /\ invoked.outcome = "response" /\ c = invoked.value
          /\ Soap!checkResponseWrapper(Soap!running.response, invoked.value.name)
      BY <2>1, <2>3 DEF Answered
    <3>2. Soap!running.request = invoked.asked.name
      BY <1>0, <3>1 DEF Asked, Soap!notRun
    <3>3. \/ result' = [kind |-> "error", value |-> Soap!nil]
          \/ result' = [kind |-> "ok", value |-> c] \/ result' = [kind |-> "ok", value |-> Soap!nil]
      BY <1>8, <2>3 DEF Soap!DoHTTP, Soap!ExtractFault, Soap!Return
    <3>4. ASSUME NEW v \in {Soap!nil, invoked.value}, result' = [kind |-> "ok", value |-> v]
          PROVE  Soap!CallTruthful'
      <4>1. Soap!running' = Soap!running /\ Soap!nil' = Soap!nil
        BY <1>1 DEF Soap!running, Soap!nil
      <4>2. result'.kind = "ok" /\ result'.value \in {Soap!nil, invoked.value} /\ result'.kind # "fault"
        BY <3>4
      <4>3. Soap!checkResponseWrapper(Soap!running.response, invoked.value.name)'
        BY <1>1, <3>1, <4>1 DEF Soap!checkResponseWrapper
      <4> QED
        BY <1>1, <1>5, <3>1, <3>2, <4>1, <4>2, <4>3 DEF Soap!CallTruthful
    <3> QED
      BY <1>6, <3>1, <3>3, <3>4
  <2> QED
    BY <2>2, <2>3
<1> QED
  BY <1>2, <1>3, <1>4, <1>7, <1>8 DEF SOAPInv

LEMMA SOAPSteps == SOAPInv /\ Soap!SOAPNext => SOAPInv'
<1> SUFFICES ASSUME SOAPInv, Soap!SOAPNext PROVE SOAPInv'
  OBVIOUS
<1>1. CASE \E p \in {"", "service", "/service?wsdl", "/service"} : Soap!Register(p)
  <2>1. UNCHANGED <<http, invoked, result, soapRequest, body>> /\ service' \in Services
    BY <1>1 DEF Soap!Register
  <2>2. SOAPTypes' /\ BodyIsLast'
    BY <2>1 DEF SOAPInv, SOAPTypes, BodyIsLast, Soap!noEnvelope, Soap!nil
  <2>3. UNCHANGED <<http, invoked, result>>
    BY <2>1
  <2> QED
    BY <2>2, <2>3, SetsKeep
<1>2. CASE Soap!SetEndpoint \/ Soap!SetSOAPHeader
  BY <1>2, SettersKeepCall
<1>3. ASSUME NEW c \in Contents, Soap!SetBody(c) \/ Soap!SetEnvelope(c, "") \/ Soap!SetEnvelope(c, "soap12")
      PROVE  SOAPInv'
  BY <1>3, SettersKeepCall
<1>4. ASSUME NEW out \in BOOLEAN, Soap!Do(out) PROVE SOAPInv'
  BY <1>4, DoKeeps
<1> QED
  BY <1>1, <1>2, <1>3, <1>4, servePOSTKeeps, InvokeKeeps, ReturnKeeps DEF Soap!SOAPNext

LEMMA SOAPStays == SOAPInv /\ UNCHANGED soapVars => SOAPInv'
<1> SUFFICES ASSUME SOAPInv, UNCHANGED soapVars PROVE SOAPInv'
  OBVIOUS
<1>1. UNCHANGED <<service, soapRequest, body, http, invoked, result>>
  BY DEF soapVars
<1>2. SOAPTypes' /\ BodyIsLast'
  BY <1>1 DEF SOAPInv, SOAPTypes, BodyIsLast, Soap!noEnvelope, Soap!nil
<1> QED
  BY <1>1, <1>2, SetsKeep

\* gws's calls, for any services, bodies and numbers of calls: what the caller of an
\* operation is told is what happened (Request.Envelope, servePOST, writeInvokeFault,
\* DoHTTP).
THEOREM CallsAreTruthful == Spec => []CallTruthful
<1>1. Init => SOAPInv
  BY SOAPInitially DEF Init
<1>2. SOAPInv /\ [Next]_vars => SOAPInv'
  <2> SUFFICES ASSUME SOAPInv, [Next]_vars PROVE SOAPInv'
    OBVIOUS
  <2>1. Soap!SOAPNext \/ UNCHANGED soapVars
    BY DEF Next, Still, vars
  <2> QED
    BY <2>1, SOAPSteps, SOAPStays
<1>3. SOAPInv => CallTruthful
  BY DEF SOAPInv, CallTruthful
<1> QED
  BY <1>1, <1>2, <1>3, PTL DEF Spec

-------------------------------------------------------------------------------
(***************************************************************************)
(* A worker of gserver.  While a chain runs, the index that all loops share *)
(* counts the handlers that were started; a handler that aborts, and a      *)
(* Recovery that stops a panic, put it past the end.                        *)
(***************************************************************************)
Handlers  == Middleware \cup Endpoints
Names     == {"Content-Type", "Custom", "Location", "X-Request-ID", "Access-Control-Allow-Origin",
              "Access-Control-Allow-Methods"}
WriteOps  == [do : {"header"}, name : Names] \cup [do : {"status"}, code : Int] \cup [do : {"body"}]
Flows     == {"next", "return", "abort", "panic"}
Kinds     == {"dots", "unknown", "plain", "origin", "preflight", "unreadable"}
Headers   == [name : Names, of : Int]
Writers   == [header : SUBSET Headers, wroteHeader : BOOLEAN, statusCode : Int]
Responses == [status : Int, headers : SUBSET Headers]
Contexts  == [handlers : Seq(Handlers), handlerIndex : Int, values : SUBSET Int, pathParams : SUBSET Int,
              reqCtx : Int]
Histories == [started : Seq(Int), aborted : BOOLEAN, panicked : BOOLEAN, late : BOOLEAN,
              due : SUBSET Headers, logged : Int]

Serving == {"loop", "handler", "panic"}

ServerTypes ==
    /\ at \in {"setup", "idle", "crashed"} \cup Serving
    /\ chain \in Seq(Handlers) /\ groups \in [1..2 -> Seq(Handlers)]
    /\ request \in [n : Int, kind : Kinds]
    /\ context \in Contexts /\ writer \in Writers /\ response \in Responses /\ ran \in Histories
    /\ running \in Seq(Int)
    /\ doing \in [ops : Seq(WriteOps), flow : Flows]

\* What lies in the pools was reset; what is in use has the chain of the route.
Pools ==
    /\ at \notin Serving => context = Serve!freshContext /\ writer = Serve!freshWriter
    /\ at \in Serving => context.handlers = chain /\ context.handlerIndex >= 0
    /\ at = "setup" => request.kind = "unknown"

ChainOrder ==
    /\ ~ran.late
    /\ \A i, j \in DOMAIN ran.started : i < j => ran.started[i] < ran.started[j]
    /\ at = "loop" =>
          /\ \A i \in DOMAIN ran.started : ran.started[i] < context.handlerIndex
          /\ ran.aborted \/ ran.panicked => context.handlerIndex >= Len(chain)
          /\ ~ran.aborted /\ ~ran.panicked =>
                Len(ran.started) = IF context.handlerIndex <= Len(chain) THEN context.handlerIndex ELSE Len(chain)
    /\ at \in {"handler", "panic"} =>
          /\ \A i \in DOMAIN ran.started : ran.started[i] <= context.handlerIndex
          /\ context.handlerIndex < Len(chain) /\ ~ran.aborted
    /\ at = "handler" => ~ran.panicked /\ Len(ran.started) = context.handlerIndex + 1
    /\ at = "panic" => ran.panicked
    /\ (at = "idle" /\ request.kind \notin {"dots", "unknown", "unreadable"} /\ ~ran.aborted /\ ~ran.panicked) =>
          Len(ran.started) = Len(chain)

\* The writer knows the status of the response, and the response has the headers.
Sent ==
    /\ ran.due \subseteq response.headers
    /\ at \in Serving => response.status = Serve!Status
    /\ ran.logged # 0 =>
          /\ response.status = ran.logged /\ at \notin {"handler", "panic"}
          /\ at = "loop" => context.handlerIndex >= Len(chain)

ServerInv == ServerTypes /\ Pools /\ ChainOrder /\ Sent /\ Serve!NothingLeaks

\* The writer and the response after a write.
SendsAll(io) ==
    /\ io.w \in Writers /\ io.r \in Responses /\ io.w.header = {}
    /\ io.r.headers = response.headers \cup writer.header
    /\ io.r.status = io.w.statusCode /\ io.w.statusCode > 0

LEMMA StatusSends ==
    ASSUME ServerTypes, NEW code \in Int, NEW io, io = Serve!WriteHeader([w |-> writer, r |-> response], code)
    PROVE  SendsAll(io)
<1>1. PICK status : status = IF code <= 0 THEN 200 ELSE code
  OBVIOUS
<1>2. status \in Int /\ status > 0
  BY <1>1
<1>3. /\ io.w = [header |-> {}, wroteHeader |-> TRUE, statusCode |-> status]
      /\ io.r = [status |-> status, headers |-> response.headers \cup writer.header]
  BY <1>1 DEF Serve!WriteHeader
<1>4. PICK hs : hs = response.headers \cup writer.header
  OBVIOUS
<1>5. hs \in SUBSET Headers
  BY <1>4 DEF ServerTypes, Writers, Responses
<1>6. io.r = [status |-> status, headers |-> hs]
  BY <1>3, <1>4
<1>7. io.w \in Writers
  <2>1. PICK e, b : e = {} /\ b = TRUE
    OBVIOUS
  <2>2. e \in SUBSET Headers /\ b \in BOOLEAN
    BY <2>1
  <2>3. io.w = [header |-> e, wroteHeader |-> b, statusCode |-> status]
    BY <1>3, <2>1
  <2> QED
    BY <1>2, <2>2, <2>3 DEF Writers
<1>8. io.r \in Responses
  BY <1>2, <1>5, <1>6 DEF Responses
<1>9. /\ io.w.header = {} /\ io.r.headers = hs
      /\ io.r.status = status /\ io.w.statusCode = status
  BY <1>3, <1>6
<1> QED
  BY <1>2, <1>4, <1>7, <1>8, <1>9 DEF SendsAll

LEMMA ApplySends ==
    ASSUME NEW op \in WriteOps, ServerTypes, NEW io, io = Serve!Apply([w |-> writer, r |-> response], op),
           response.status = Serve!Status
    PROVE  \/ SendsAll(io)
           \/ /\ io.w \in Writers /\ io.r = response /\ io.w.statusCode = writer.statusCode /\ ~Serve!Sends(op)
              /\ \E name \in Names : io.w.header \subseteq writer.header \cup {Serve!Named(name)}
<1>0. writer \in Writers /\ response \in Responses /\ request.n \in Int
  BY DEF ServerTypes
<1>1. CASE op.do = "header"
  <2>1. PICK h : h = Serve!Named(op.name)
    OBVIOUS
  <2>2. op.name \in Names /\ h \in Headers
    BY <1>0, <1>1, <2>1 DEF WriteOps, Headers, Serve!Named
  <2>3. io.w = [writer EXCEPT !.header = @ \cup {h}] /\ io.r = response
    BY <1>1, <2>1 DEF Serve!Apply, Serve!Header
  <2>4. ~Serve!Sends(op)
    BY <1>1 DEF Serve!Sends
  <2>5. io.w \in Writers /\ io.w.header = writer.header \cup {h} /\ io.w.statusCode = writer.statusCode
    BY <1>0, <2>2, <2>3 DEF Writers
  <2> QED
    BY <2>1, <2>2, <2>3, <2>4, <2>5
<1>2. CASE op.do = "status"
  <2>1. op.code \in Int /\ io = Serve!WriteHeader([w |-> writer, r |-> response], op.code)
    BY <1>2 DEF WriteOps, Serve!Apply
  <2> QED
    BY <2>1, StatusSends
<1>3. CASE op.do = "body"
  <2>1. io = Serve!Write([w |-> writer, r |-> response])
    BY <1>3 DEF Serve!Apply
  <2>2. CASE writer.wroteHeader
    <3>1. io = [w |-> writer, r |-> response] /\ ~Serve!Sends(op)
      BY <1>3, <2>1, <2>2 DEF Serve!Write, Serve!Sends
    <3>2. "Custom" \in Names
      BY DEF Names
    <3> QED
      BY <1>0, <3>1, <3>2
  <2>3. CASE ~writer.wroteHeader
    <3>1. io = Serve!WriteHeader([w |-> writer, r |-> response], 200)
      BY <2>1, <2>3 DEF Serve!Write
    <3> QED
      BY <3>1, StatusSends
  <2> QED
    BY <2>2, <2>3
<1> QED
  BY <1>1, <1>2, <1>3 DEF WriteOps

\* What a Result does is a sequence of writes, which may end in a panic.
Outs == [ops : Seq(WriteOps), panics : BOOLEAN]

LEMMA OpsAreWrites ==
    ASSUME NEW code \in Int, NEW name \in Names
    PROVE  Serve!H(name) \in WriteOps /\ Serve!S(code) \in WriteOps /\ Serve!B \in WriteOps
<1>1. [do |-> "header", name |-> name] \in [do : {"header"}, name : Names]
  OBVIOUS
<1>2. [do |-> "status", code |-> code] \in [do : {"status"}, code : Int]
  OBVIOUS
<1>3. [do |-> "body"] \in [do : {"body"}]
  OBVIOUS
<1> QED
  BY <1>1, <1>2, <1>3 DEF Serve!H, Serve!S, Serve!B, WriteOps

LEMMA WritesAreOuts ==
    ASSUME NEW ops \in Seq(WriteOps)
    PROVE  Serve!Done(ops) \in Outs /\ Serve!Fails(ops) \in Outs
BY DEF Outs, Serve!Done, Serve!Fails

LEMMA CodesAreOuts ==
    ASSUME NEW code \in Int
    PROVE  Serve!Encoded(code) \subseteq Outs /\ Serve!Plain(code) \subseteq Outs
<1>1. PICK h, st, b : h = Serve!H("Content-Type") /\ st = Serve!S(code) /\ b = Serve!B
  OBVIOUS
<1>2. h \in WriteOps /\ st \in WriteOps /\ b \in WriteOps
  BY <1>1, OpsAreWrites DEF Names
<1>3. Serve!Done(<<h, st, b>>) \in Outs /\ Serve!Fails(<<h, st>>) \in Outs
  <2>1. <<h, st, b>> \in Seq(WriteOps) /\ <<h, st>> \in Seq(WriteOps)
    BY <1>2
  <2> QED
    BY <2>1, WritesAreOuts
<1>4. Serve!Encoded(code) = {Serve!Done(<<h, st, b>>), Serve!Fails(<<h, st>>)} /\ Serve!Plain(code) = {Serve!Done(<<h, st, b>>)}
  BY <1>1 DEF Serve!Encoded, Serve!Plain
<1> QED
  BY <1>3, <1>4

LEMMA ResultsWrite ==
    ASSUME ServerTypes, NEW kind \in Serve!Results
    PROVE  Serve!Outcomes(kind) \subseteq Outs
<1>5. Serve!Codes(200) \subseteq Int /\ Serve!Codes(302) \subseteq Int /\ Serve!Codes(500) \subseteq Int
  BY DEF Serve!Codes
<1>6. CASE kind = "auto"
  <2>1. PICK x : x = Serve!H("Custom")
    OBVIOUS
  <2>2. x \in WriteOps /\ <<x>> \in Seq(WriteOps) /\ Serve!Fails(<<x>>) \in Outs
    <3>1. "Custom" \in Names /\ 0 \in Int
      BY DEF Names
    <3>2. x \in WriteOps
      BY <2>1, <3>1, OpsAreWrites
    <3>3. <<x>> \in Seq(WriteOps)
      BY <3>2
    <3> QED
      BY <3>2, <3>3, WritesAreOuts
  <2>3. ASSUME NEW o \in Outs PROVE [o EXCEPT !.ops = <<x>> \o @] \in Outs
    <3>1. <<x>> \o o.ops \in Seq(WriteOps)
      BY <2>2, ConcatProperties DEF Outs
    <3> QED
      BY <3>1 DEF Outs
  <2>4. ASSUME NEW c \in Int
        PROVE  /\ Serve!Done(<<x, Serve!H("Content-Type"), Serve!S(c), Serve!B>>) \in Outs
               /\ \A o \in Serve!Encoded(c) \cup Serve!Plain(c) : [o EXCEPT !.ops = <<x>> \o @] \in Outs
    <3>1. PICK h, st, b : h = Serve!H("Content-Type") /\ st = Serve!S(c) /\ b = Serve!B
      OBVIOUS
    <3>2. Serve!Done(<<x, h, st, b>>) \in Outs
      <4>1. h \in WriteOps /\ st \in WriteOps /\ b \in WriteOps
        BY <3>1, OpsAreWrites DEF Names
      <4>2. <<x, h, st, b>> \in Seq(WriteOps)
        BY <2>2, <4>1
      <4> QED
        BY <4>2, WritesAreOuts
    <3> QED
      BY <2>3, <3>1, <3>2, CodesAreOuts
  <2>5. Serve!AutoResult \subseteq Outs
    <3> SUFFICES ASSUME NEW e \in Serve!AutoResult PROVE e \in Outs
      OBVIOUS
    <3>1. PICK c \in Serve!Codes(200) :
              \/ e = Serve!Fails(<<x>>) \/ e = Serve!Done(<<x, Serve!H("Content-Type"), Serve!S(c), Serve!B>>)
              \/ \E o \in Serve!Encoded(c) \cup Serve!Plain(c) : e = [o EXCEPT !.ops = <<x>> \o @]
      BY <2>1 DEF Serve!AutoResult
    <3>2. c \in Int
      BY <1>5
    <3> QED
      BY <2>2, <2>4, <3>1, <3>2
  <2> QED
    BY <1>6, <2>5 DEF Serve!Outcomes
<1>7. CASE kind \in {"coded", "error", "stream"}
  <2>1. Serve!CodedResult \subseteq Outs /\ Serve!ErrorResult \subseteq Outs /\ Serve!StreamResult \subseteq Outs
    BY <1>5, CodesAreOuts DEF Serve!CodedResult, Serve!ErrorResult, Serve!StreamResult
  <2> QED
    BY <1>7, <2>1 DEF Serve!Outcomes
<1>8. CASE kind = "redirect"
  <2>1. ASSUME NEW c \in Int PROVE Serve!Done(<<Serve!H("Location"), Serve!S(c)>>) \in Outs
    <3>1. PICK h, st : h = Serve!H("Location") /\ st = Serve!S(c)
      OBVIOUS
    <3>2. Serve!Done(<<h, st>>) \in Outs
      <4>1. h \in WriteOps /\ st \in WriteOps
        BY <3>1, OpsAreWrites DEF Names
      <4>2. <<h, st>> \in Seq(WriteOps)
        BY <4>1
      <4> QED
        BY <4>2, WritesAreOuts
    <3> QED
      BY <3>1, <3>2
  <2>2. Serve!RedirectResult \subseteq Outs
    <3> SUFFICES ASSUME NEW e \in Serve!RedirectResult PROVE e \in Outs
      OBVIOUS
    <3>1. PICK c \in Serve!Codes(302) : e = Serve!Done(<<Serve!H("Location"), Serve!S(c)>>)
      BY DEF Serve!RedirectResult
    <3>2. c \in Int
      BY <1>5
    <3> QED
      BY <2>1, <3>1, <3>2
  <2> QED
    BY <1>8, <2>2 DEF Serve!Outcomes
<1>9. CASE kind \in {"no content", "file", "static", "resp"}
  <2>1. PICK h, b, s2, s4, s0, s5, s1 :
            /\ h = Serve!H("Content-Type") /\ b = Serve!B /\ s2 = Serve!S(204) /\ s4 = Serve!S(404)
            /\ s0 = Serve!S(200) /\ s5 = Serve!S(500) /\ s1 = Serve!S(400)
    OBVIOUS
  <2>2. /\ h \in WriteOps /\ b \in WriteOps /\ s2 \in WriteOps /\ s4 \in WriteOps /\ s0 \in WriteOps
        /\ s5 \in WriteOps /\ s1 \in WriteOps
    BY <2>1, OpsAreWrites DEF Names
  <2>3. Serve!Done(<<>>) \in Outs /\ Serve!Fails(<<>>) \in Outs /\ Serve!Done(<<b>>) \in Outs
    <3>1. <<>> \in Seq(WriteOps) /\ <<b>> \in Seq(WriteOps)
      BY <2>2
    <3> QED
      BY <3>1, WritesAreOuts
  <2>4. Serve!Done(<<s2>>) \in Outs /\ Serve!Done(<<s4>>) \in Outs /\ Serve!Done(<<s5>>) \in Outs /\ Serve!Done(<<s1>>) \in Outs
    <3>1. <<s2>> \in Seq(WriteOps) /\ <<s4>> \in Seq(WriteOps) /\ <<s5>> \in Seq(WriteOps) /\ <<s1>> \in Seq(WriteOps)
      BY <2>2
    <3> QED
      BY <3>1, WritesAreOuts
  <2>5. Serve!Done(<<h, s0, s5>>) \in Outs /\ Serve!Done(<<h, s0, b>>) \in Outs
    <3>1. <<h, s0, s5>> \in Seq(WriteOps) /\ <<h, s0, b>> \in Seq(WriteOps)
      BY <2>2
    <3> QED
      BY <3>1, WritesAreOuts
  <2>6. Serve!NoContentResult \subseteq Outs
    <3>1. Serve!NoContentResult \subseteq {Serve!Done(<<>>), Serve!Done(<<s2>>)}
      BY <2>1 DEF Serve!NoContentResult
    <3> QED
      BY <2>3, <2>4, <3>1
  <2>7. Serve!RespAuto \subseteq Outs
    BY <2>1, <2>3 DEF Serve!RespAuto
  <2>8. Serve!FileResult \subseteq Outs
    BY <2>1, <2>4, <2>5 DEF Serve!FileResult
  <2>9. Serve!StaticFile \subseteq Outs
    <3>1. Serve!StaticFile \subseteq {Serve!Done(<<s1>>), Serve!Done(<<h, s0, b>>), Serve!Done(<<>>), Serve!Done(<<s4>>)}
      BY <2>1 DEF Serve!StaticFile
    <3> QED
      BY <2>3, <2>4, <2>5, <3>1
  <2> QED
    BY <1>9, <2>6, <2>7, <2>8, <2>9 DEF Serve!Outcomes
<1> QED
  BY <1>6, <1>7, <1>8, <1>9 DEF Serve!Results

\* A handler starts: it is the one the index names, and every earlier one has a lower place.
LEMMA StartKeeps ==
    ASSUME ServerInv, NEW kind, Serve!Starts(kind), NEW ops \in Seq(WriteOps), NEW flow \in Flows,
           NEW ctx \in Contexts, Serve!Run(ops, flow, ctx),
           ctx.handlers = context.handlers, ctx.handlerIndex = context.handlerIndex,
           ctx.pathParams = context.pathParams, ctx.values \subseteq context.values \cup {request.n},
           ctx.reqCtx \in {context.reqCtx, request.n}
    PROVE  ServerInv'
<1>0. ServerTypes /\ Pools /\ ChainOrder /\ Sent /\ Serve!NothingLeaks
  BY DEF ServerInv
<1>1. /\ at = "loop" /\ context.handlers = chain /\ context.handlerIndex >= 0 /\ context.handlerIndex \in Int
      /\ context.handlerIndex < Len(chain) /\ Len(chain) \in Nat /\ ran.started \in Seq(Int)
  BY <1>0, LenProperties DEF Serve!Starts, Pools, Serving, ServerTypes, Contexts, Histories
<1>2. /\ ~ran.aborted /\ ~ran.panicked /\ ~ran.late /\ Len(ran.started) = context.handlerIndex /\ ran.logged = 0
  BY <1>0, <1>1 DEF ChainOrder, Sent, ServerTypes, Histories
<1>3. /\ at' = "handler" /\ context' = ctx /\ doing' = [ops |-> ops, flow |-> flow]
      /\ UNCHANGED <<groups, chain, request, writer, response, running>>
  BY DEF Serve!Run, Serve!setup
<1>4. PICK q, l : q = Append(ran.started, context.handlerIndex) /\ l = FALSE
  OBVIOUS
<1>5. ran' = [ran EXCEPT !.started = q, !.late = l]
  <2>1. (ran.late \/ ran.aborted) = l
    BY <1>0, <1>2, <1>4 DEF ServerTypes, Histories
  <2> QED
    BY <1>4, <2>1 DEF Serve!Run
<1>6. /\ q \in Seq(Int) /\ Len(q) = context.handlerIndex + 1 /\ q[context.handlerIndex + 1] = context.handlerIndex
      /\ \A i \in 1..context.handlerIndex : q[i] = ran.started[i]
      /\ DOMAIN q = 1..(context.handlerIndex + 1) /\ DOMAIN ran.started = 1..context.handlerIndex
  BY <1>1, <1>2, <1>4, AppendProperties, LenProperties
<1>7. /\ ran' \in Histories /\ ran'.started = q /\ ran'.late = l /\ ran'.aborted = ran.aborted
      /\ ran'.panicked = ran.panicked /\ ran'.due = ran.due /\ ran'.logged = ran.logged
  <2>1. l \in BOOLEAN
    BY <1>4
  <2> QED
    BY <1>0, <1>5, <1>6, <2>1 DEF ServerTypes, Histories
<1>8. ServerTypes'
  BY <1>0, <1>3, <1>7 DEF ServerTypes, Serving
<1>9. Pools'
  BY <1>1, <1>3 DEF Pools, Serving
<1>10. ChainOrder'
  <2>1. ~ran'.late /\ ~ran'.aborted /\ ~ran'.panicked
    BY <1>2, <1>4, <1>7
  <2>2. \A i \in 1..context.handlerIndex : ran.started[i] < context.handlerIndex /\ ran.started[i] \in Int
    <3>1. \A i \in DOMAIN ran.started : ran.started[i] < context.handlerIndex
      BY <1>0, <1>1 DEF ChainOrder
    <3>2. \A i \in 1..Len(ran.started) : ran.started[i] \in Int
      BY <1>1, ElementOfSeq
    <3> QED
      BY <1>2, <1>6, <3>1, <3>2
  <2>3. \A i \in DOMAIN q : q[i] <= context.handlerIndex
    <3>1. ASSUME NEW i \in DOMAIN q PROVE q[i] <= context.handlerIndex
      <4>1. CASE i = context.handlerIndex + 1
        BY <1>1, <1>6, <4>1
      <4>2. CASE i # context.handlerIndex + 1
        <5>1. i \in 1..context.handlerIndex
          BY <1>1, <1>6, <4>2
        <5> QED
          BY <1>1, <1>6, <2>2, <5>1
      <4> QED
        BY <4>1, <4>2
    <3> QED
      BY <3>1
  <2>4. \A i, j \in DOMAIN q : i < j => q[i] < q[j]
    <3>1. ASSUME NEW i \in DOMAIN q, NEW j \in DOMAIN q, i < j PROVE q[i] < q[j]
      <4>1. i \in 1..context.handlerIndex
        BY <1>1, <1>6, <3>1
      <4>2. CASE j = context.handlerIndex + 1
        BY <1>1, <1>6, <2>2, <4>1, <4>2
      <4>3. CASE j # context.handlerIndex + 1
        <5>1. j \in 1..context.handlerIndex
          BY <1>1, <1>6, <4>3
        <5>2. ran.started[i] < ran.started[j]
          BY <1>0, <1>6, <3>1, <4>1, <5>1 DEF ChainOrder
        <5> QED
          BY <1>6, <4>1, <5>1, <5>2
      <4> QED
        BY <4>2, <4>3
    <3> QED
      BY <3>1
  <2> QED
    BY <1>1, <1>3, <1>6, <1>7, <2>1, <2>3, <2>4 DEF ChainOrder
<1>11. Sent'
  BY <1>0, <1>1, <1>2, <1>3, <1>7 DEF Sent, Serving, Serve!Status
<1>12. Serve!NothingLeaks'
  BY <1>0, <1>3 DEF Serve!NothingLeaks
<1> QED
  BY <1>8, <1>9, <1>10, <1>11, <1>12 DEF ServerInv

\* A handler writes: the response gets what is due.
LEMMA WritesKeep ==
    ASSUME ServerInv, Serve!Writes
    PROVE  ServerInv'
<1>0. ServerTypes /\ Pools /\ ChainOrder /\ Sent /\ Serve!NothingLeaks
  BY DEF ServerInv
<1>1. PICK op, io : op = Head(doing.ops) /\ io = Serve!Apply([w |-> writer, r |-> response], op)
  OBVIOUS
<1>2. /\ at = "handler" /\ doing.ops # <<>> /\ writer' = io.w /\ response' = io.r
      /\ ran' = IF Serve!Sends(op) THEN [ran EXCEPT !.due = @ \cup writer.header] ELSE ran
      /\ doing' = [doing EXCEPT !.ops = Tail(@)] /\ UNCHANGED <<groups, chain, request, context, running, at>>
  BY <1>1 DEF Serve!Writes, Serve!setup
<1>3. doing.ops \in Seq(WriteOps) /\ op \in WriteOps /\ Tail(doing.ops) \in Seq(WriteOps)
  BY <1>0, <1>1, <1>2, HeadTailProperties DEF ServerTypes
<1>4. response.status = Serve!Status
  BY <1>0, <1>2 DEF Sent, Serving
<1>5. \/ SendsAll(io)
      \/ /\ io.w \in Writers /\ io.r = response /\ io.w.statusCode = writer.statusCode /\ ~Serve!Sends(op)
         /\ \E name \in Names : io.w.header \subseteq writer.header \cup {Serve!Named(name)}
  BY <1>0, <1>1, <1>3, <1>4, ApplySends
<1>6. PICK due : due = IF Serve!Sends(op) THEN ran.due \cup writer.header ELSE ran.due
  OBVIOUS
<1>7. ran' = [ran EXCEPT !.due = due]
  BY <1>0, <1>2, <1>6 DEF ServerTypes, Histories
<1>8. due \in SUBSET Headers /\ due \subseteq io.r.headers
  BY <1>0, <1>5, <1>6 DEF ServerTypes, Histories, Writers, Sent, SendsAll
<1>9. /\ ran' \in Histories /\ ran'.started = ran.started /\ ran'.late = ran.late /\ ran'.aborted = ran.aborted
      /\ ran'.panicked = ran.panicked /\ ran'.due = due /\ ran'.logged = ran.logged
  BY <1>0, <1>7, <1>8 DEF ServerTypes, Histories
<1>10. ServerTypes'
  <2>1. io.w \in Writers /\ io.r \in Responses
    BY <1>0, <1>5 DEF SendsAll, ServerTypes
  <2>2. doing' \in [ops : Seq(WriteOps), flow : Flows]
    BY <1>0, <1>2, <1>3 DEF ServerTypes
  <2> QED
    BY <1>0, <1>2, <1>9, <2>1, <2>2 DEF ServerTypes, Serving
<1>11. Pools'
  BY <1>0, <1>2 DEF Pools, Serving
<1>12. ChainOrder'
  BY <1>0, <1>2, <1>9 DEF ChainOrder
<1>13. Sent'
  <2>1. io.r.status = IF io.w.statusCode = 0 THEN 200 ELSE io.w.statusCode
    BY <1>4, <1>5 DEF SendsAll, Serve!Status
  <2>2. ran.logged = 0
    BY <1>0, <1>2 DEF Sent
  <2> QED
    BY <1>2, <1>8, <1>9, <2>1, <2>2 DEF Sent, Serve!Status
<1>14. Serve!NothingLeaks'
  <2>1. \A name : Serve!Named(name).of = request.n
    BY DEF Serve!Named
  <2>2. \A h \in io.w.header \cup io.r.headers : h.of = request.n
    BY <1>0, <1>5, <2>1 DEF Serve!NothingLeaks, SendsAll
  <2> QED
    BY <1>0, <1>2, <2>2 DEF Serve!NothingLeaks
<1> QED
  BY <1>10, <1>11, <1>12, <1>13, <1>14 DEF ServerInv

LEMMA StartsKeep ==
    ASSUME ServerInv,
           \/ Serve!RequestID \/ Serve!CORS \/ Serve!TimeoutContext \/ Serve!RequestLogger \/ Serve!Recovery
           \/ Serve!AbortWithStatus \/ Serve!NextTwice
           \/ \E kind \in Serve!Results : Serve!Execute(kind)
    PROVE  ServerInv'
<1>0. ServerTypes /\ context \in Contexts /\ request.n \in Int
  BY DEF ServerInv, ServerTypes
<1>1. PICK none, id, origin, methods, s204, s403 :
          /\ none = <<>> /\ id = Serve!H("X-Request-ID") /\ origin = Serve!H("Access-Control-Allow-Origin")
          /\ methods = Serve!H("Access-Control-Allow-Methods") /\ s204 = Serve!S(204) /\ s403 = Serve!S(403)
  OBVIOUS
<1>2. /\ id \in WriteOps /\ origin \in WriteOps /\ methods \in WriteOps /\ s204 \in WriteOps /\ s403 \in WriteOps
  BY <1>1, OpsAreWrites DEF Names
<1>3. /\ none \in Seq(WriteOps) /\ <<id>> \in Seq(WriteOps) /\ <<origin>> \in Seq(WriteOps)
      /\ <<origin, methods, s204>> \in Seq(WriteOps) /\ <<s403>> \in Seq(WriteOps)
  BY <1>1, <1>2
<1>4. {"next", "return", "abort", "panic"} \subseteq Flows
  BY DEF Flows
<1>5. ASSUME NEW kind, Serve!Starts(kind), NEW ops \in Seq(WriteOps), NEW flow \in Flows, Serve!Run(ops, flow, context)
      PROVE  ServerInv'
  BY <1>0, <1>5, StartKeeps
<1>6. CASE Serve!RequestID
  <2>1. PICK ctx, writes : ctx = [context EXCEPT !.values = @ \cup {request.n}] /\ writes = <<id>>
    OBVIOUS
  <2>2. PICK values : values = context.values \cup {request.n}
    OBVIOUS
  <2>3. values \in SUBSET Int /\ ctx = [context EXCEPT !.values = values]
    BY <1>0, <2>1, <2>2 DEF Contexts
  <2>4. /\ ctx \in Contexts /\ ctx.handlers = context.handlers /\ ctx.handlerIndex = context.handlerIndex
        /\ ctx.pathParams = context.pathParams /\ ctx.values = values /\ ctx.reqCtx = context.reqCtx
    BY <1>0, <2>3 DEF Contexts
  <2>5. PICK kind : Serve!Starts(kind) /\ Serve!Run(writes, "next", ctx)
    BY <1>1, <1>6, <2>1, Zenon DEF Serve!RequestID
  <2> QED
    BY <1>3, <1>4, <2>1, <2>2, <2>4, <2>5, StartKeeps
<1>7. CASE Serve!CORS
  <2>1. /\ Serve!Starts("cors")
        /\ \/ Serve!Run(none, "next", context) \/ Serve!Run(<<origin>>, "next", context)
           \/ Serve!Run(<<origin, methods, s204>>, "abort", context)
    BY <1>1, <1>7 DEF Serve!CORS
  <2> QED
    BY <1>3, <1>4, <1>5, <2>1
<1>8. CASE Serve!TimeoutContext
  <2>1. PICK ctx : ctx = [context EXCEPT !.reqCtx = request.n]
    OBVIOUS
  <2>2. /\ ctx \in Contexts /\ ctx.handlers = context.handlers /\ ctx.handlerIndex = context.handlerIndex
        /\ ctx.pathParams = context.pathParams /\ ctx.values = context.values /\ ctx.reqCtx = request.n
    BY <1>0, <2>1 DEF Contexts
  <2>3. Serve!Starts("timeout") /\ Serve!Run(none, "next", ctx)
    BY <1>1, <1>8, <2>1 DEF Serve!TimeoutContext
  <2> QED
    BY <1>3, <1>4, <2>2, <2>3, StartKeeps
<1>9. CASE Serve!RequestLogger \/ Serve!Recovery \/ Serve!NextTwice
  <2>1. PICK kind : Serve!Starts(kind) /\ Serve!Run(none, "next", context)
    BY <1>1, <1>9 DEF Serve!RequestLogger, Serve!Recovery, Serve!NextTwice
  <2> QED
    BY <1>3, <1>4, <1>5, <2>1
<1>10. CASE Serve!AbortWithStatus
  <2>1. Serve!Starts("abort") /\ Serve!Run(<<s403>>, "abort", context)
    BY <1>1, <1>10 DEF Serve!AbortWithStatus
  <2> QED
    BY <1>3, <1>4, <1>5, <2>1
<1>11. ASSUME NEW kind \in Serve!Results, Serve!Execute(kind) PROVE ServerInv'
  <2>1. PICK o \in Serve!Outcomes(kind) : Serve!Run(o.ops, IF o.panics THEN "panic" ELSE "return", context)
    BY <1>11 DEF Serve!Execute
  <2>2. PICK flow : flow = IF o.panics THEN "panic" ELSE "return"
    OBVIOUS
  <2>3. o.ops \in Seq(WriteOps) /\ flow \in Flows /\ Serve!Run(o.ops, flow, context)
    BY <1>0, <1>4, <2>1, <2>2, ResultsWrite DEF Outs
  <2>4. Serve!Starts(kind)
    BY <1>11 DEF Serve!Execute
  <2> QED
    BY <1>5, <2>3, <2>4
<1> QED
  BY <1>6, <1>7, <1>8, <1>9, <1>10, <1>11

\* A handler that has written calls Next, returns, aborts or panics.
LEMMA FlowsKeep ==
    ASSUME ServerInv, Serve!CallsNext \/ Serve!Returns \/ Serve!Aborts \/ Serve!Panics
    PROVE  ServerInv'
<1>0. ServerTypes /\ Pools /\ ChainOrder /\ Sent /\ Serve!NothingLeaks
  BY DEF ServerInv
<1>1. /\ at = "handler" /\ doing' = Serve!nothing /\ UNCHANGED <<groups, chain, request, writer, response>>
  BY DEF Serve!CallsNext, Serve!Returns, Serve!Aborts, Serve!Panics, Serve!Written, Serve!setup
<1>2. doing' \in [ops : Seq(WriteOps), flow : Flows]
  <2>1. PICK e, f : e = <<>> /\ f = "return"
    OBVIOUS
  <2>2. e \in Seq(WriteOps) /\ f \in Flows
    BY <2>1 DEF Flows
  <2> QED
    BY <1>1, <2>1, <2>2 DEF Serve!nothing
<1>3. /\ context \in Contexts /\ context.handlers = chain /\ context.handlerIndex \in Int /\ context.handlerIndex >= 0
      /\ Len(chain) \in Nat /\ context.handlerIndex < Len(chain) /\ ran \in Histories /\ running \in Seq(Int)
  BY <1>0, <1>1, LenProperties DEF ServerTypes, Pools, Serving, ChainOrder, Contexts
<1>4. /\ ~ran.late /\ ~ran.aborted /\ ~ran.panicked /\ ran.logged = 0 /\ Len(ran.started) = context.handlerIndex + 1
      /\ \A i \in DOMAIN ran.started : ran.started[i] <= context.handlerIndex
  BY <1>0, <1>1 DEF ChainOrder, Sent
<1>5. \A i \in DOMAIN ran.started : ran.started[i] \in Int
  BY <1>3, ElementOfSeq, LenProperties DEF Histories
<1>6. ASSUME NEW ctx, NEW place \in Int, ctx = [context EXCEPT !.handlerIndex = place]
      PROVE  /\ ctx \in Contexts /\ ctx.handlerIndex = place /\ ctx.handlers = chain /\ ctx.values = context.values
             /\ ctx.pathParams = context.pathParams /\ ctx.reqCtx = context.reqCtx
  BY <1>3, <1>6 DEF Contexts
<1>7. CASE Serve!CallsNext \/ Serve!Returns
  <2>1. /\ context' = [context EXCEPT !.handlerIndex = @ + 1] /\ at' = "loop" /\ UNCHANGED ran
        /\ running' \in {running, Append(running, context.handlerIndex)}
    BY <1>7 DEF Serve!CallsNext, Serve!Returns, Serve!Advance
  <2>2. PICK place : place = context.handlerIndex + 1
    OBVIOUS
  <2>3. place \in Int /\ place > context.handlerIndex /\ place <= Len(chain) /\ place >= 0
    BY <1>3, <2>2
  <2>4. /\ context' \in Contexts /\ context'.handlerIndex = place /\ context'.handlers = chain
        /\ context'.values = context.values /\ context'.pathParams = context.pathParams
        /\ context'.reqCtx = context.reqCtx
    <3>1. context' = [context EXCEPT !.handlerIndex = place]
      BY <2>1, <2>2
    <3> QED
      BY <1>6, <2>3, <3>1
  <2>5. running' \in Seq(Int)
    <3>1. Append(running, context.handlerIndex) \in Seq(Int)
      BY <1>3, AppendProperties
    <3> QED
      BY <1>3, <2>1, <3>1
  <2>6. ServerTypes'
    BY <1>0, <1>1, <1>2, <2>1, <2>4, <2>5 DEF ServerTypes, Serving
  <2>7. Pools'
    BY <1>1, <2>1, <2>3, <2>4 DEF Pools, Serving
  <2>8. ChainOrder'
    <3>1. \A i \in DOMAIN ran.started : ran.started[i] < place
      BY <1>3, <1>4, <1>5, <2>2
    <3>2. Len(ran.started) = place
      BY <1>4, <2>2
    <3> QED
      BY <1>0, <1>1, <1>4, <2>1, <2>3, <2>4, <3>1, <3>2 DEF ChainOrder
  <2>9. Sent'
    BY <1>0, <1>1, <1>4, <2>1 DEF Sent, Serving, Serve!Status
  <2>10. Serve!NothingLeaks'
    BY <1>0, <1>1, <2>4 DEF Serve!NothingLeaks
  <2> QED
    BY <2>6, <2>7, <2>8, <2>9, <2>10 DEF ServerInv
<1>8. CASE Serve!Aborts
  <2>1. /\ context' = Serve!Advance(Serve!Abort(context)) /\ at' = "loop" /\ UNCHANGED running
        /\ ran' = [ran EXCEPT !.aborted = TRUE]
    BY <1>8 DEF Serve!Aborts
  <2>2. PICK place, b : place = Len(chain) + 1 /\ b = TRUE
    OBVIOUS
  <2>3. place \in Int /\ place > context.handlerIndex /\ place >= Len(chain) /\ place >= 0
    BY <1>3, <2>2
  <2>4. /\ context' \in Contexts /\ context'.handlerIndex = place /\ context'.handlers = chain
        /\ context'.values = context.values /\ context'.pathParams = context.pathParams
        /\ context'.reqCtx = context.reqCtx
    <3>1. context' = [context EXCEPT !.handlerIndex = place]
      BY <1>3, <2>1, <2>2 DEF Serve!Advance, Serve!Abort, Contexts
    <3> QED
      BY <1>6, <2>3, <3>1
  <2>5. /\ ran' \in Histories /\ ran'.started = ran.started /\ ran'.late = ran.late /\ ran'.aborted
        /\ ran'.panicked = ran.panicked /\ ran'.due = ran.due /\ ran'.logged = ran.logged
    <3>1. ran' = [ran EXCEPT !.aborted = b] /\ b \in BOOLEAN
      BY <2>1, <2>2
    <3> QED
      BY <1>3, <2>2, <3>1 DEF Histories
  <2>6. ServerTypes'
    BY <1>0, <1>1, <1>2, <2>1, <2>4, <2>5 DEF ServerTypes, Serving
  <2>7. Pools'
    BY <1>1, <2>1, <2>3, <2>4 DEF Pools, Serving
  <2>8. ChainOrder'
    <3>1. \A i \in DOMAIN ran.started : ran.started[i] < place
      BY <1>3, <1>4, <1>5, <2>3
    <3> QED
      BY <1>0, <1>1, <1>4, <2>1, <2>3, <2>4, <2>5, <3>1 DEF ChainOrder
  <2>9. Sent'
    BY <1>0, <1>1, <1>4, <2>1, <2>5 DEF Sent, Serving, Serve!Status
  <2>10. Serve!NothingLeaks'
    BY <1>0, <1>1, <2>4 DEF Serve!NothingLeaks
  <2> QED
    BY <2>6, <2>7, <2>8, <2>9, <2>10 DEF ServerInv
<1>9. CASE Serve!Panics
  <2>1. at' = "panic" /\ ran' = [ran EXCEPT !.panicked = TRUE] /\ UNCHANGED <<context, running>>
    BY <1>9 DEF Serve!Panics
  <2>2. /\ ran' \in Histories /\ ran'.started = ran.started /\ ran'.late = ran.late /\ ran'.aborted = ran.aborted
        /\ ran'.panicked /\ ran'.due = ran.due /\ ran'.logged = ran.logged
    <3>1. PICK b : b = TRUE
      OBVIOUS
    <3>2. ran' = [ran EXCEPT !.panicked = b] /\ b \in BOOLEAN
      BY <2>1, <3>1
    <3> QED
      BY <1>3, <3>1, <3>2 DEF Histories
  <2>3. ServerTypes'
    BY <1>0, <1>1, <1>2, <2>1, <2>2 DEF ServerTypes, Serving
  <2>4. Pools'
    BY <1>0, <1>1, <2>1 DEF Pools, Serving
  <2>5. ChainOrder'
    BY <1>0, <1>1, <1>3, <1>4, <2>1, <2>2 DEF ChainOrder
  <2>6. Sent'
    BY <1>0, <1>1, <1>4, <2>1, <2>2 DEF Sent, Serving, Serve!Status
  <2>7. Serve!NothingLeaks'
    BY <1>0, <1>1, <2>1 DEF Serve!NothingLeaks
  <2> QED
    BY <2>3, <2>4, <2>5, <2>6, <2>7 DEF ServerInv
<1> QED
  BY <1>7, <1>8, <1>9

LEMMA ReturnedRunning == running \in Seq(Int) /\ running # <<>> => Serve!Returned \in Seq(Int)
<1> SUFFICES ASSUME running \in Seq(Int), running # <<>> PROVE Serve!Returned \in Seq(Int)
  OBVIOUS
<1>1. Len(running) \in Nat /\ Len(running) > 0
  BY LenProperties, EmptySeq
<1> QED
  BY <1>1, SubSeqProperties DEF Serve!Returned

\* The index of the loops moves on, and a handler that waited finishes.
LEMMA AfterNextKeeps ==
    ASSUME ServerInv, Serve!AfterNext
    PROVE  ServerInv'
<1>0. ServerTypes /\ Pools /\ ChainOrder /\ Sent /\ Serve!NothingLeaks
  BY DEF ServerInv
<1>1. /\ at = "loop" /\ context.handlerIndex >= Len(context.handlers) /\ running # <<>>
      /\ running' = Serve!Returned /\ UNCHANGED <<groups, chain, request, writer, response, doing, at>>
  BY DEF Serve!AfterNext, Serve!LoopEnds, Serve!setup
<1>2. /\ context \in Contexts /\ context.handlers = chain /\ context.handlerIndex \in Int /\ context.handlerIndex >= 0
      /\ Len(chain) \in Nat /\ context.handlerIndex >= Len(chain) /\ ran \in Histories
  BY <1>0, <1>1, LenProperties DEF ServerTypes, Pools, Serving, Contexts
<1>3. PICK place : place = IF Serve!Waiting = "twice" THEN context.handlerIndex + 2 ELSE context.handlerIndex + 1
  OBVIOUS
<1>4. place \in Int /\ place > context.handlerIndex /\ place >= Len(chain) /\ place >= 0
  BY <1>2, <1>3
<1>5. context' = [context EXCEPT !.handlerIndex = place]
  <2>1. context' = IF Serve!Waiting = "twice" THEN Serve!Advance(Serve!Advance(context)) ELSE Serve!Advance(context)
    BY DEF Serve!AfterNext
  <2>2. Serve!Advance(context) = [context EXCEPT !.handlerIndex = context.handlerIndex + 1]
    BY DEF Serve!Advance
  <2>3. Serve!Advance(Serve!Advance(context)) = [context EXCEPT !.handlerIndex = context.handlerIndex + 2]
    <3>1. PICK next, next2 : next = context.handlerIndex + 1 /\ next2 = context.handlerIndex + 2
      OBVIOUS
    <3>2. next \in Int /\ next2 \in Int /\ next + 1 = next2
      BY <1>2, <3>1
    <3>3. PICK one : one = [context EXCEPT !.handlerIndex = next]
      OBVIOUS
    <3>4. one.handlerIndex = next /\ [one EXCEPT !.handlerIndex = next2] = [context EXCEPT !.handlerIndex = next2]
      BY <1>2, <3>3 DEF Contexts
    <3>5. Serve!Advance(one) = [one EXCEPT !.handlerIndex = next2]
      BY <3>2, <3>4 DEF Serve!Advance
    <3> QED
      BY <2>2, <3>1, <3>3, <3>4, <3>5
  <2> QED
    BY <1>3, <2>1, <2>2, <2>3
<1>6. /\ context' \in Contexts /\ context'.handlerIndex = place /\ context'.handlers = chain
      /\ context'.values = context.values /\ context'.pathParams = context.pathParams
      /\ context'.reqCtx = context.reqCtx
  BY <1>2, <1>4, <1>5 DEF Contexts
<1>7. PICK logged : logged = IF Serve!Waiting = "logger" THEN response.status ELSE ran.logged
  OBVIOUS
<1>8. ran' = [ran EXCEPT !.logged = logged]
  <2>1. ran' = IF Serve!Waiting = "logger" THEN [ran EXCEPT !.logged = Serve!Status] ELSE ran
    BY DEF Serve!AfterNext
  <2>2. response.status = Serve!Status
    BY <1>0, <1>1 DEF Sent, Serving
  <2> QED
    BY <1>2, <1>7, <2>1, <2>2 DEF Histories
<1>9. /\ ran' \in Histories /\ ran'.started = ran.started /\ ran'.late = ran.late /\ ran'.aborted = ran.aborted
      /\ ran'.panicked = ran.panicked /\ ran'.due = ran.due /\ ran'.logged = logged
  <2>1. logged \in Int
    BY <1>0, <1>2, <1>7 DEF ServerTypes, Responses, Histories
  <2> QED
    BY <1>2, <1>8, <2>1 DEF Histories
<1>10. ServerTypes'
  BY <1>0, <1>1, <1>6, <1>9, ReturnedRunning DEF ServerTypes, Serving
<1>11. Pools'
  BY <1>1, <1>4, <1>6 DEF Pools, Serving
<1>12. ChainOrder'
  <2>1. \A i \in DOMAIN ran.started : ran.started[i] \in Int
    BY <1>2, ElementOfSeq, LenProperties DEF Histories
  <2>2. \A i \in DOMAIN ran.started : ran.started[i] < place
    BY <1>0, <1>1, <1>2, <1>4, <2>1 DEF ChainOrder
  <2>3. ~ran.aborted /\ ~ran.panicked => Len(ran.started) = Len(chain)
    BY <1>0, <1>1, <1>2 DEF ChainOrder
  <2>4. place > Len(chain)
    BY <1>2, <1>4
  <2> QED
    BY <1>0, <1>1, <1>2, <1>4, <1>6, <1>9, <2>2, <2>3, <2>4 DEF ChainOrder
<1>13. Sent'
  BY <1>0, <1>1, <1>4, <1>6, <1>7, <1>9 DEF Sent, Serving, Serve!Status
<1>14. Serve!NothingLeaks'
  BY <1>0, <1>1, <1>6 DEF Serve!NothingLeaks
<1> QED
  BY <1>10, <1>11, <1>12, <1>13, <1>14 DEF ServerInv

\* A panic passes the handlers that wait; a Recovery answers it.
LEMMA UnwindKeeps ==
    ASSUME ServerInv, Serve!Unwind
    PROVE  ServerInv'
<1>0. ServerTypes /\ Pools /\ ChainOrder /\ Sent /\ Serve!NothingLeaks
  BY DEF ServerInv
<1>1. /\ at = "panic" /\ running # <<>> /\ running' = Serve!Returned /\ UNCHANGED <<groups, chain, request, doing>>
  BY DEF Serve!Unwind, Serve!setup
<1>2. /\ context \in Contexts /\ context.handlers = chain /\ context.handlerIndex \in Int /\ context.handlerIndex >= 0
      /\ Len(chain) \in Nat /\ ran \in Histories /\ running' \in Seq(Int)
      /\ context.handlerIndex < Len(chain) /\ ran.panicked /\ ~ran.aborted /\ ~ran.late /\ ran.logged = 0
      /\ \A i \in DOMAIN ran.started : ran.started[i] <= context.handlerIndex
  BY <1>0, <1>1, LenProperties, ReturnedRunning DEF ServerTypes, Pools, Serving, Contexts, ChainOrder, Sent
<1>3. CASE Serve!Waiting # "recovery"
  <2>1. UNCHANGED <<context, writer, response, at, ran>>
    BY <1>3 DEF Serve!Unwind
  <2>2. ServerTypes'
    BY <1>0, <1>1, <1>2, <2>1 DEF ServerTypes
  <2>3. Pools' /\ ChainOrder' /\ Sent' /\ Serve!NothingLeaks'
    BY <1>0, <1>1, <2>1 DEF Pools, ChainOrder, Sent, Serve!Status, Serve!NothingLeaks
  <2> QED
    BY <2>2, <2>3 DEF ServerInv
<1>4. CASE Serve!Waiting = "recovery"
  <2>1. PICK io : io = IF writer.wroteHeader THEN [w |-> writer, r |-> response]
                       ELSE Serve!WriteHeader([w |-> writer, r |-> response], 500)
    OBVIOUS
  <2>2. /\ writer' = io.w /\ response' = io.r /\ context' = Serve!Advance(Serve!Abort(context)) /\ at' = "loop"
        /\ ran' = IF ~writer.wroteHeader THEN [ran EXCEPT !.due = @ \cup writer.header] ELSE ran
    BY <1>4, <2>1 DEF Serve!Unwind
  <2>3. SendsAll(io) \/ (io.w = writer /\ io.r = response /\ writer.wroteHeader)
    <3>1. CASE writer.wroteHeader
      BY <2>1, <3>1
    <3>2. CASE ~writer.wroteHeader
      BY <1>0, <2>1, <3>2, StatusSends
    <3> QED
      BY <3>1, <3>2
  <2>4. PICK due : due = IF ~writer.wroteHeader THEN ran.due \cup writer.header ELSE ran.due
    OBVIOUS
  <2>5. due \in SUBSET Headers /\ due \subseteq io.r.headers
    BY <1>0, <2>3, <2>4 DEF ServerTypes, Histories, Writers, Sent, SendsAll
  <2>6. /\ ran' \in Histories /\ ran'.started = ran.started /\ ran'.late = ran.late /\ ran'.aborted = ran.aborted
        /\ ran'.panicked = ran.panicked /\ ran'.due = due /\ ran'.logged = ran.logged
    <3>1. ran' = [ran EXCEPT !.due = due]
      BY <1>2, <2>2, <2>4 DEF Histories
    <3> QED
      BY <1>2, <2>5, <3>1 DEF Histories
  <2>7. PICK place : place = Len(chain) + 1
    OBVIOUS
  <2>8. place \in Int /\ place > context.handlerIndex /\ place > Len(chain) /\ place >= 0
    BY <1>2, <2>7
  <2>9. /\ context' \in Contexts /\ context'.handlerIndex = place /\ context'.handlers = chain
        /\ context'.values = context.values /\ context'.pathParams = context.pathParams
        /\ context'.reqCtx = context.reqCtx
    <3>1. context' = [context EXCEPT !.handlerIndex = place]
      BY <1>2, <2>2, <2>7 DEF Serve!Advance, Serve!Abort, Contexts
    <3> QED
      BY <1>2, <2>8, <3>1 DEF Contexts
  <2>10. ServerTypes'
    <3>1. io.w \in Writers /\ io.r \in Responses
      BY <1>0, <2>3 DEF SendsAll, ServerTypes
    <3> QED
      BY <1>0, <1>1, <1>2, <2>2, <2>6, <2>9, <3>1 DEF ServerTypes, Serving
  <2>11. Pools'
    BY <1>1, <2>2, <2>8, <2>9 DEF Pools, Serving
  <2>12. ChainOrder'
    <3>1. \A i \in DOMAIN ran.started : ran.started[i] \in Int
      BY <1>2, ElementOfSeq, LenProperties DEF Histories
    <3>2. \A i \in DOMAIN ran.started : ran.started[i] < place
      BY <1>2, <2>8, <3>1
    <3> QED
      BY <1>0, <1>1, <1>2, <2>2, <2>6, <2>8, <2>9, <3>2 DEF ChainOrder
  <2>13. Sent'
    <3>1. io.r.status = IF io.w.statusCode = 0 THEN 200 ELSE io.w.statusCode
      BY <1>0, <1>1, <2>3 DEF SendsAll, Sent, Serving, Serve!Status
    <3> QED
      BY <1>2, <2>2, <2>5, <2>6, <3>1 DEF Sent, Serve!Status
  <2>14. Serve!NothingLeaks'
    <3>1. \A h \in io.w.header \cup io.r.headers : h.of = request.n
      BY <1>0, <2>3 DEF Serve!NothingLeaks, SendsAll
    <3> QED
      BY <1>0, <1>1, <2>2, <2>9, <3>1 DEF Serve!NothingLeaks
  <2> QED
    BY <2>10, <2>11, <2>12, <2>13, <2>14 DEF ServerInv
<1> QED
  BY <1>3, <1>4

LEMMA FreshTypes ==
    /\ Serve!freshContext \in Contexts /\ Serve!freshContext.values = {} /\ Serve!freshContext.pathParams = {}
    /\ Serve!freshContext.reqCtx = 0 /\ Serve!freshContext.handlers = <<>> /\ Serve!freshContext.handlerIndex = -1
    /\ Serve!freshWriter \in Writers /\ Serve!freshWriter.header = {} /\ Serve!freshWriter.statusCode = 0
    /\ Serve!freshResponse \in Responses /\ Serve!freshResponse.headers = {} /\ Serve!freshResponse.status = 200
    /\ Serve!freshRun \in Histories /\ Serve!freshRun.started = <<>> /\ ~Serve!freshRun.aborted
    /\ ~Serve!freshRun.panicked /\ ~Serve!freshRun.late /\ Serve!freshRun.due = {} /\ Serve!freshRun.logged = 0
<1>1. PICK e, q, b, z, one, ok : e = {} /\ q = <<>> /\ b = FALSE /\ z = 0 /\ one = -1 /\ ok = 200
  OBVIOUS
<1>2. /\ e \subseteq Int /\ e \subseteq Headers /\ q \in Seq(Handlers) /\ q \in Seq(Int) /\ b \in BOOLEAN /\ z \in Int
      /\ one \in Int /\ ok \in Int
  <2>1. e \subseteq Int /\ e \subseteq Headers /\ b \in BOOLEAN
    BY <1>1
  <2>2. q \in Seq(Handlers) /\ q \in Seq(Int)
    BY <1>1
  <2>3. -1 \in Int /\ 0 \in Int /\ 200 \in Int
    OBVIOUS
  <2> QED
    BY <1>1, <2>1, <2>2, <2>3
<1>3. /\ Serve!freshContext = [handlers |-> q, handlerIndex |-> one, values |-> e, pathParams |-> e, reqCtx |-> z]
      /\ Serve!freshWriter = [header |-> e, wroteHeader |-> b, statusCode |-> z]
      /\ Serve!freshResponse = [status |-> ok, headers |-> e]
      /\ Serve!freshRun = [started |-> q, aborted |-> b, panicked |-> b, late |-> b, due |-> e, logged |-> z]
  BY <1>1 DEF Serve!freshContext, Serve!freshWriter, Serve!freshResponse, Serve!freshRun
<1>4. Serve!freshContext \in Contexts /\ Serve!freshWriter \in Writers
  BY <1>2, <1>3 DEF Contexts, Writers
<1>5. Serve!freshResponse \in Responses /\ Serve!freshRun \in Histories
  BY <1>2, <1>3 DEF Responses, Histories
<1> QED
  BY <1>1, <1>3, <1>4, <1>5

\* The request ends: the Context and the writer are reset and put back.
LEMMA EndKeeps ==
    ASSUME ServerInv, Serve!End
    PROVE  ServerInv'
<1>0. ServerTypes /\ Pools /\ ChainOrder /\ Sent /\ Serve!NothingLeaks
  BY DEF ServerInv
<1>1. /\ \/ at = "loop" /\ context.handlerIndex >= Len(context.handlers) /\ at' = "idle"
         \/ at = "panic" /\ at' \in {"idle", "crashed"}
      /\ context' = Serve!freshContext /\ writer' = Serve!freshWriter
      /\ response' \in {response, Serve!writeFastResponseToHTTP}
      /\ UNCHANGED <<groups, chain, request, running, doing, ran>>
  BY DEF Serve!End, Serve!LoopEnds, Serve!Reset, Serve!setup
<1>2. /\ response' \in Responses /\ response'.headers = response.headers
      /\ response.status # 0 => response'.status = response.status
  <2>1. PICK status : status = IF response.status = 0 THEN 200 ELSE response.status
    OBVIOUS
  <2>2. response \in Responses /\ status \in Int
    BY <1>0, <2>1 DEF ServerTypes, Responses
  <2>3. response' \in {response, [response EXCEPT !.status = status]}
    BY <1>1, <2>1 DEF Serve!writeFastResponseToHTTP
  <2>4. /\ [response EXCEPT !.status = status] \in Responses
        /\ [response EXCEPT !.status = status].headers = response.headers
        /\ [response EXCEPT !.status = status].status = status
    BY <2>2 DEF Responses
  <2> QED
    BY <2>1, <2>2, <2>3, <2>4
<1>3. ServerTypes'
  BY <1>0, <1>1, <1>2, FreshTypes DEF ServerTypes, Serving
<1>4. Pools'
  BY <1>1 DEF Pools, Serving
<1>5. ChainOrder'
  <2>1. ~ran.aborted /\ ~ran.panicked => Len(ran.started) = Len(chain)
    <3>1. CASE at = "loop"
      <4>1. /\ context.handlers = chain /\ context.handlerIndex >= 0 /\ context.handlerIndex \in Int
            /\ Len(chain) \in Nat
        BY <1>0, <3>1, LenProperties DEF Pools, Serving, ServerTypes, Contexts
      <4> QED
        BY <1>0, <1>1, <3>1, <4>1 DEF ChainOrder
    <3>2. CASE at = "panic"
      BY <1>0, <3>2 DEF ChainOrder
    <3> QED
      BY <1>1, <3>1, <3>2
  <2> QED
    BY <1>0, <1>1, <2>1 DEF ChainOrder
<1>6. Sent'
  BY <1>0, <1>1, <1>2 DEF Sent, Serving
<1>7. Serve!NothingLeaks'
  BY <1>0, <1>1, <1>2, FreshTypes DEF Serve!NothingLeaks
<1> QED
  BY <1>3, <1>4, <1>5, <1>6, <1>7 DEF ServerInv

\* A request is taken: what it finds in the pools was reset.
LEMMA RequestKeeps ==
    ASSUME ServerInv, Serve!FastHandler \/ Serve!ServeHTTP
    PROVE  ServerInv'
<1>0. ServerTypes /\ Pools /\ ChainOrder /\ Sent /\ Serve!NothingLeaks
  BY DEF ServerInv
<1>1. /\ at = "idle" /\ UNCHANGED <<groups, chain, doing>> /\ running' = <<>> /\ ran' = Serve!freshRun
  BY DEF Serve!FastHandler, Serve!ServeHTTP, Serve!setup
<1>2. context = Serve!freshContext /\ writer = Serve!freshWriter
  BY <1>0, <1>1 DEF Pools, Serving
<1>3. PICK kind \in Kinds : request' = [n |-> request.n + 1, kind |-> kind]
  <2>1. {"dots", "unknown", "plain", "origin", "preflight"} \subseteq Kinds /\ "unreadable" \in Kinds
    BY DEF Kinds
  <2>2. CASE Serve!FastHandler
    <3>1. PICK kind \in {"dots", "unknown", "plain", "origin", "preflight"} : request' = [n |-> request.n + 1, kind |-> kind]
      BY <2>2, Zenon DEF Serve!FastHandler
    <3> QED
      BY <2>1, <3>1
  <2>3. CASE Serve!ServeHTTP
    <3>1. request' = [n |-> request.n + 1, kind |-> "unreadable"]
      BY <2>3, Zenon DEF Serve!ServeHTTP, Serve!copyHTTPRequestToFast
    <3> QED
      BY <2>1, <3>1, Zenon
  <2> QED
    BY <2>2, <2>3
<1>4. request' \in [n : Int, kind : Kinds] /\ request'.kind = kind
  <2>1. PICK m : m = request.n + 1
    OBVIOUS
  <2>2. m \in Int
    BY <1>0, <2>1 DEF ServerTypes
  <2>3. request' = [n |-> m, kind |-> kind]
    BY <1>3, <2>1
  <2> QED
    BY <1>3, <2>2, <2>3
<1>5. running' \in Seq(Int)
  BY <1>1
<1>6. ASSUME writer' = Serve!freshWriter, UNCHANGED <<context, at>>, response' \in Responses, response'.headers = {},
             kind \in {"dots", "unknown", "unreadable"}
      PROVE  ServerInv'
  <2>1. ServerTypes'
    BY <1>0, <1>1, <1>2, <1>4, <1>5, <1>6, FreshTypes DEF ServerTypes
  <2>2. Pools'
    BY <1>1, <1>2, <1>6 DEF Pools, Serving
  <2>3. ChainOrder'
    BY <1>1, <1>4, <1>6, FreshTypes DEF ChainOrder
  <2>4. Sent'
    BY <1>1, <1>6, FreshTypes DEF Sent, Serving
  <2>5. Serve!NothingLeaks'
    BY <1>2, <1>6, FreshTypes DEF Serve!NothingLeaks
  <2> QED
    BY <2>1, <2>2, <2>3, <2>4, <2>5 DEF ServerInv
<1>7. CASE Serve!ServeHTTP
  <2>1. PICK bad : bad = 400
    OBVIOUS
  <2>2. /\ response' = [Serve!freshResponse EXCEPT !.status = bad] /\ UNCHANGED <<context, writer, at>>
        /\ request'.kind = "unreadable"
    BY <1>7, <2>1 DEF Serve!ServeHTTP, Serve!copyHTTPRequestToFast
  <2>3. response' \in Responses /\ response'.headers = {}
    <3>1. bad \in Int
      BY <2>1
    <3> QED
      BY <2>2, <3>1, FreshTypes DEF Responses
  <2> QED
    BY <1>2, <1>4, <1>6, <2>2, <2>3
<1>8. CASE Serve!FastHandler /\ kind \in {"dots", "unknown"}
  <2>1. PICK code : code = IF kind = "dots" THEN 400 ELSE 404
    OBVIOUS
  <2>2. PICK io : io = Serve!WriteHeader([w |-> writer, r |-> Serve!freshResponse], code)
    OBVIOUS
  <2>3. response' = io.r /\ writer' = Serve!freshWriter /\ UNCHANGED <<context, at>>
    BY <1>4, <1>8, <2>1, <2>2 DEF Serve!FastHandler
  <2>4. PICK status, e : status = (IF code <= 0 THEN 200 ELSE code) /\ e = {}
    OBVIOUS
  <2>5. status \in Int /\ e \in SUBSET Headers
    BY <2>1, <2>4
  <2>6. io.r = [status |-> status, headers |-> e]
    <3>1. Serve!freshResponse.headers \cup writer.header = e
      BY <1>2, <2>4, FreshTypes
    <3> QED
      BY <2>2, <2>4, <3>1 DEF Serve!WriteHeader
  <2>7. response' \in Responses /\ response'.headers = {}
    BY <2>3, <2>4, <2>5, <2>6 DEF Responses
  <2> QED
    BY <1>6, <1>8, <2>3, <2>7
<1>9. CASE Serve!FastHandler /\ kind \notin {"dots", "unknown"}
  <2>1. /\ context' = [context EXCEPT !.handlers = @ \o chain, !.handlerIndex = @ + 1, !.pathParams = {request'.n}]
        /\ response' = Serve!freshResponse /\ at' = "loop" /\ UNCHANGED writer
    BY <1>4, <1>9 DEF Serve!FastHandler
  <2>2. PICK first, params : first = 0 /\ params = {request'.n}
    OBVIOUS
  <2>3. first \in Int /\ params \in SUBSET Int /\ chain \in Seq(Handlers)
    BY <1>0, <1>4, <2>2 DEF ServerTypes
  <2>4. context.handlers \o chain = chain /\ context.handlerIndex + 1 = first
    <3>1. <<>> \o chain = chain
      BY <2>3, ConcatEmptySeq
    <3>2. context.handlers = <<>> /\ context.handlerIndex = -1
      BY <1>2, FreshTypes
    <3> QED
      BY <2>2, <3>1, <3>2
  <2>5. context' = [context EXCEPT !.handlers = chain, !.handlerIndex = first, !.pathParams = params]
    BY <2>1, <2>2, <2>4
  <2>6. /\ context' \in Contexts /\ context'.handlers = chain /\ context'.handlerIndex = first
        /\ context'.values = {} /\ context'.pathParams = params /\ context'.reqCtx = 0
    <3>1. context \in Contexts /\ context.values = {} /\ context.reqCtx = 0
      BY <1>2, FreshTypes
    <3> QED
      BY <2>3, <2>5, <3>1 DEF Contexts
  <2>7. ServerTypes'
    BY <1>0, <1>1, <1>2, <1>4, <1>5, <2>1, <2>6, FreshTypes DEF ServerTypes, Serving
  <2>8. Pools'
    BY <1>1, <2>1, <2>2, <2>6 DEF Pools, Serving
  <2>9. ChainOrder'
    <3>1. Len(chain) \in Nat /\ Len(<<>>) = 0 /\ DOMAIN <<>> = {}
      BY <2>3, LenProperties
    <3> QED
      BY <1>1, <2>1, <2>2, <2>6, <3>1, FreshTypes DEF ChainOrder
  <2>10. Sent'
    BY <1>1, <1>2, <2>1, FreshTypes DEF Sent, Serve!Status
  <2>11. Serve!NothingLeaks'
    BY <1>2, <2>1, <2>2, <2>6, FreshTypes DEF Serve!NothingLeaks
  <2> QED
    BY <2>7, <2>8, <2>9, <2>10, <2>11 DEF ServerInv
<1> QED
  BY <1>7, <1>8, <1>9

\* The server is set up: no request is there yet.
LEMMA SetupKeeps ==
    ASSUME ServerInv, Serve!Group \/ \E g \in 1..2 : Serve!Use(g) \/ Serve!Handle(g)
    PROVE  ServerInv'
<1>0. ServerTypes /\ Pools /\ ChainOrder /\ Sent /\ Serve!NothingLeaks
  BY DEF ServerInv
<1>1. /\ at = "setup" /\ UNCHANGED <<request, context, writer, response, running, doing, ran>>
      /\ groups \in [1..2 -> Seq(Handlers)] /\ chain \in Seq(Handlers)
  BY <1>0 DEF Serve!Group, Serve!Use, Serve!Handle, Serve!serving, ServerTypes
<1>2. /\ groups' \in [1..2 -> Seq(Handlers)] /\ chain' \in Seq(Handlers)
      /\ at' = "setup" \/ (at' = "idle" /\ request.kind = "unknown")
  <2>1. CASE Serve!Group
    <3>1. PICK below : below = groups[1] \o <<>>
      OBVIOUS
    <3>2. below \in Seq(Handlers)
      BY <1>1, <3>1, ConcatProperties, EmptySeq
    <3>3. groups' = [groups EXCEPT ![2] = below] /\ UNCHANGED <<chain, at>>
      BY <2>1, <3>1 DEF Serve!Group, Serve!combineHandlers
    <3> QED
      BY <1>1, <3>2, <3>3
  <2>2. ASSUME NEW g \in 1..2, Serve!Use(g) PROVE groups' \in [1..2 -> Seq(Handlers)] /\ UNCHANGED <<chain, at>>
    <3>1. PICK h \in Middleware : groups' = [groups EXCEPT ![g] = Append(@, h)]
      BY <2>2 DEF Serve!Use
    <3>2. PICK longer : longer = Append(groups[g], h)
      OBVIOUS
    <3>3. longer \in Seq(Handlers)
      BY <1>1, <3>2, AppendProperties DEF Handlers
    <3>4. groups' = [groups EXCEPT ![g] = longer]
      BY <3>1, <3>2
    <3> QED
      BY <1>1, <2>2, <3>3, <3>4 DEF Serve!Use
  <2>3. ASSUME NEW g \in 1..2, Serve!Handle(g)
        PROVE  groups' \in [1..2 -> Seq(Handlers)] /\ chain' \in Seq(Handlers) /\ at' = "idle"
    <3>1. PICK h \in Endpoints : chain' = groups[g] \o <<h>>
      BY <2>3 DEF Serve!Handle, Serve!combineHandlers
    <3>2. <<h>> \in Seq(Handlers)
      BY DEF Handlers
    <3>3. chain' \in Seq(Handlers)
      BY <1>1, <3>1, <3>2, ConcatProperties
    <3>4. groups' = << <<>>, <<>> >> /\ at' = "idle"
      BY <2>3 DEF Serve!Handle
    <3>5. PICK e : e = <<>>
      OBVIOUS
    <3>6. e \in Seq(Handlers) /\ groups' = <<e, e>>
      BY <3>4, <3>5
    <3>7. <<e, e>> \in [1..2 -> Seq(Handlers)]
      BY <3>6
    <3> QED
      BY <3>3, <3>4, <3>6, <3>7
  <2>4. request.kind = "unknown"
    BY <1>0, <1>1 DEF Pools
  <2> QED
    BY <1>1, <2>1, <2>2, <2>3, <2>4
<1>3. ServerTypes'
  BY <1>0, <1>1, <1>2 DEF ServerTypes
<1>4. Pools'
  BY <1>0, <1>1, <1>2 DEF Pools, Serving
<1>5. ChainOrder'
  BY <1>0, <1>1, <1>2 DEF ChainOrder
<1>6. Sent'
  BY <1>0, <1>1, <1>2 DEF Sent, Serving
<1>7. Serve!NothingLeaks'
  BY <1>0, <1>1 DEF Serve!NothingLeaks
<1> QED
  BY <1>3, <1>4, <1>5, <1>6, <1>7 DEF ServerInv

LEMMA ServerInitially == Serve!ServerInit => ServerInv
<1> SUFFICES ASSUME Serve!ServerInit PROVE ServerInv
  OBVIOUS
<1>1. /\ groups = << <<>>, <<>> >> /\ chain = <<>> /\ running = <<>> /\ at = "setup"
      /\ context = Serve!freshContext /\ writer = Serve!freshWriter /\ response = Serve!freshResponse
      /\ ran = Serve!freshRun /\ doing = Serve!nothing /\ request = [n |-> 0, kind |-> "unknown"]
  BY DEF Serve!ServerInit
<1>2. request \in [n : Int, kind : Kinds] /\ request.kind = "unknown" /\ request.n = 0
  <2>1. PICK z, k : z = 0 /\ k = "unknown"
    OBVIOUS
  <2>2. z \in Int /\ k \in Kinds
    BY <2>1 DEF Kinds
  <2> QED
    BY <1>1, <2>1, <2>2
<1>3. doing \in [ops : Seq(WriteOps), flow : Flows]
  <2>1. PICK e, f : e = <<>> /\ f = "return"
    OBVIOUS
  <2>2. e \in Seq(WriteOps) /\ f \in Flows
    BY <2>1 DEF Flows
  <2> QED
    BY <1>1, <2>1, <2>2 DEF Serve!nothing
<1>4. groups \in [1..2 -> Seq(Handlers)] /\ chain \in Seq(Handlers) /\ running \in Seq(Int)
  <2>1. PICK e : e = <<>>
    OBVIOUS
  <2>2. e \in Seq(Handlers) /\ groups = <<e, e>>
    BY <1>1, <2>1
  <2>3. <<e, e>> \in [1..2 -> Seq(Handlers)]
    BY <2>2
  <2> QED
    BY <1>1, <2>2, <2>3
<1>5. ServerTypes
  BY <1>1, <1>2, <1>3, <1>4, FreshTypes DEF ServerTypes
<1>6. Pools
  BY <1>1, <1>2 DEF Pools, Serving
<1>7. ChainOrder
  BY <1>1, FreshTypes DEF ChainOrder
<1>8. Sent
  BY <1>1, FreshTypes DEF Sent, Serving
<1>9. Serve!NothingLeaks
  BY <1>1, FreshTypes DEF Serve!NothingLeaks
<1> QED
  BY <1>5, <1>6, <1>7, <1>8, <1>9 DEF ServerInv

LEMMA ServerSteps == ServerInv /\ Serve!ServerNext => ServerInv'
<1> SUFFICES ASSUME ServerInv, Serve!ServerNext PROVE ServerInv'
  OBVIOUS
<1>1. CASE Serve!Group \/ \E g \in 1..2 : Serve!Use(g) \/ Serve!Handle(g)
  BY <1>1, SetupKeeps
<1>2. CASE \/ Serve!RequestID \/ Serve!CORS \/ Serve!TimeoutContext \/ Serve!RequestLogger \/ Serve!Recovery
           \/ Serve!AbortWithStatus \/ Serve!NextTwice
           \/ \E kind \in Serve!Results : Serve!Execute(kind)
  BY <1>2, StartsKeep
<1>3. CASE Serve!CallsNext \/ Serve!Returns \/ Serve!Aborts \/ Serve!Panics
  BY <1>3, FlowsKeep
<1>4. CASE Serve!FastHandler \/ Serve!ServeHTTP
  BY <1>4, RequestKeeps
<1>5. CASE Serve!Writes
  BY <1>5, WritesKeep
<1>6. CASE Serve!AfterNext
  BY <1>6, AfterNextKeeps
<1>7. CASE Serve!Unwind
  BY <1>7, UnwindKeeps
<1>8. CASE Serve!End
  BY <1>8, EndKeeps
<1> QED
  BY <1>1, <1>2, <1>3, <1>4, <1>5, <1>6, <1>7, <1>8, Zenon DEF Serve!ServerNext

LEMMA ServerStays == ServerInv /\ UNCHANGED serverVars => ServerInv'
<1> SUFFICES ASSUME ServerInv, UNCHANGED serverVars PROVE ServerInv'
  OBVIOUS
<1>1. UNCHANGED <<groups, chain, request, context, writer, response, running, doing, at, ran>>
  BY DEF serverVars
<1>2. ServerTypes' /\ Pools' /\ ChainOrder'
  BY <1>1 DEF ServerInv, ServerTypes, Pools, ChainOrder
<1>3. Sent' /\ Serve!NothingLeaks'
  BY <1>1 DEF ServerInv, Sent, Serve!Status, Serve!NothingLeaks
<1> QED
  BY <1>2, <1>3 DEF ServerInv

LEMMA ServerAlways == Spec => []ServerInv
<1>1. Init => ServerInv
  <2>1. Init => Serve!ServerInit
    BY Zenon DEF Init
  <2> QED
    BY <2>1, ServerInitially
<1>2. ServerInv /\ [Next]_vars => ServerInv'
  <2> SUFFICES ASSUME ServerInv, [Next]_vars PROVE ServerInv'
    OBVIOUS
  <2>1. Serve!ServerNext \/ UNCHANGED serverVars
    BY DEF Next, Still, vars
  <2> QED
    BY <2>1, ServerSteps, ServerStays
<1> QED
  BY <1>1, <1>2, PTL DEF Spec

\* gserver's chains, for any handlers and numbers of requests: every handler starts
\* at most once and in its place, none after Abort, and none is left out unless one
\* aborted or panicked (Context.Next, Context.Abort, Recovery).
THEOREM ChainsRunInOrder == Spec => []RunsInOrder
<1>1. ServerInv => RunsInOrder
  BY DEF ServerInv, ChainOrder, RunsInOrder, Serve!RunsInOrder
<1> QED
  BY <1>1, ServerAlways, PTL

\* gserver's pools, for any handlers and numbers of requests: nothing of an earlier
\* request is seen by a later one or sent with its response (Context.Reset,
\* respWriter.Reset, ReleaseContext).
THEOREM PoolsDoNotLeak == Spec => []NothingLeaks
<1>1. ServerInv => NothingLeaks
  BY DEF ServerInv, NothingLeaks
<1> QED
  BY <1>1, ServerAlways, PTL

\* gserver's responses, for any handlers and numbers of requests: a header that was
\* set when a status or a body was written is sent, and the status that RequestLogger
\* logs is the one the client gets (respWriter.WriteHeader, Status).
THEOREM WhatWasWrittenArrives == Spec => []ResponseArrives
<1>1. ServerInv => ResponseArrives
  BY DEF ServerInv, Sent, ResponseArrives, Serve!HeadersArrive, Serve!LoggedIsSent
<1> QED
  BY <1>1, ServerAlways, PTL

LEMMA Least ==
    ASSUME NEW T, T \subseteq Nat, T # {}
    PROVE  \E m \in T : \A k \in T : m <= k
<1>1. PICK U : U = {ss \in Nat \X Nat : ss[1] < ss[2]}
  OBVIOUS
<1>2. IsWellFoundedOn(U, Nat)
  BY <1>1, NatLessThanWellFounded DEF OpToRel
<1>3. PICK m \in T : \A k \in T : <<k, m>> \notin U
  BY <1>2, WFMin
<1>4. \A k \in T : ~ (k < m)
  BY <1>1, <1>3
<1> QED
  BY <1>4

-------------------------------------------------------------------------------
(***************************************************************************)
(* The routes.  A tree holds routes that all have a parameter and as many   *)
(* segments, or all have a catch-all; its nodes are the stems of its        *)
(* entries, with their names.                                              *)
(***************************************************************************)
SegKinds == {"static", ":", "*"}
HasWild(r) == \E i \in DOMAIN r.segs : r.segs[i].kind = "*"

Parameters(n) == {r \in Routes : ~ HasWild(r) /\ Len(r.segs) = n /\ \E i \in DOMAIN r.segs : r.segs[i].kind = ":"}
CatchAlls == {r \in Routes : HasWild(r)}

Entries(t) == {t[m].entry : m \in DOMAIN t} \ {Route!noEntry}

TreeOf(t, C) ==
    /\ Entries(t) \subseteq C
    /\ <<>> \in DOMAIN t /\ t[<<>>].entry = Route!noEntry
    /\ \A m \in DOMAIN t : m # <<>> => \E e \in Entries(t) : \E n \in 1..Len(e.segs) : m = Route!Stem(e, n)
    /\ \A e \in Entries(t) : \A n \in 1..Len(e.segs) :
          Route!Stem(e, n) \in DOMAIN t /\ t[Route!Stem(e, n)].name = e.segs[n].name
    /\ \A m \in DOMAIN t : t[m].entry # Route!noEntry => m = Route!NodeOf(t[m].entry)

LEMMA RouteSegs ==
    ASSUME NEW r \in Routes
    PROVE  /\ Len(r.segs) \in Nat /\ DOMAIN r.segs = 1..Len(r.segs)
           /\ r # Route!noEntry
<1>1. PICK X : X = [kind : {"static", ":", "*"}, name : STRING \ {""}]
  OBVIOUS
<1>2. r.segs \in Seq(X) /\ r # Route!noEntry
  BY <1>1, RouteConstants DEF Route!RoutesAgree
<1> QED
  BY <1>2

LEMMA SegIs ==
    ASSUME NEW r \in Routes, NEW i \in 1..Len(r.segs)
    PROVE  /\ i \in Nat /\ i >= 1 /\ i <= Len(r.segs) /\ i \in DOMAIN r.segs /\ i \in 0..Len(r.segs) /\ i \in 1..i
           /\ r.segs[i].kind \in SegKinds /\ r.segs[i].name # "" /\ r.segs[i].name \in STRING
           /\ r.segs[i] = [kind |-> r.segs[i].kind, name |-> r.segs[i].name]
           /\ r.segs[i].kind = "*" => i = Len(r.segs)
<1>1. PICK X : X = [kind : {"static", ":", "*"}, name : STRING \ {""}]
  OBVIOUS
<1>2. r.segs \in Seq(X) /\ \A j \in DOMAIN r.segs : r.segs[j].kind = "*" => j = Len(r.segs)
  BY <1>1, RouteConstants DEF Route!RoutesAgree
<1>3. PICK L : L = Len(r.segs) /\ L \in Nat /\ DOMAIN r.segs = 1..L
  BY RouteSegs
<1>4. i \in Nat /\ i >= 1 /\ i \in DOMAIN r.segs /\ i <= Len(r.segs) /\ i \in 0..Len(r.segs) /\ i \in 1..i
  BY <1>3
<1>5. r.segs[i] \in X
  BY <1>2, <1>4
<1>6. PICK x : x = r.segs[i]
  OBVIOUS
<1>7. x.kind \in SegKinds /\ x.name # "" /\ x.name \in STRING /\ x = [kind |-> x.kind, name |-> x.name]
  BY <1>1, <1>5, <1>6 DEF SegKinds
<1> QED
  BY <1>2, <1>4, <1>6, <1>7

\* A segment's edge is its kind, and its name if it is static.
LEMMA EdgeIs ==
    ASSUME NEW r \in Routes, NEW i \in 1..Len(r.segs)
    PROVE  /\ Route!Edge(r.segs[i]).kind = r.segs[i].kind
           /\ r.segs[i].kind = "static" => Route!Edge(r.segs[i]) = [kind |-> "static", name |-> r.segs[i].name]
           /\ r.segs[i].kind # "static" => Route!Edge(r.segs[i]) = [kind |-> r.segs[i].kind, name |-> ""]
           /\ Route!Edge(r.segs[i]).name = IF r.segs[i].kind = "static" THEN r.segs[i].name ELSE ""
<1>1. PICK k, n : r.segs[i] = [kind |-> k, name |-> n] /\ k = r.segs[i].kind /\ n = r.segs[i].name
  BY SegIs
<1>2. PICK x : x = Route!Edge(r.segs[i])
  OBVIOUS
<1>3. CASE k = "static"
  <2>1. x = [kind |-> "static", name |-> n]
    BY <1>1, <1>2, <1>3 DEF Route!Edge
  <2>2. x.kind = k /\ x.name = n
    BY <1>3, <2>1
  <2> QED
    BY <1>1, <1>2, <1>3, <2>1, <2>2
<1>4. CASE k # "static"
  <2>1. x = [kind |-> k, name |-> ""]
    BY <1>1, <1>2, <1>4 DEF Route!Edge
  <2>2. x.kind = k /\ x.name = ""
    BY <2>1
  <2> QED
    BY <1>1, <1>2, <1>4, <2>1, <2>2
<1> QED
  BY <1>3, <1>4

LEMMA StemIs ==
    ASSUME NEW r \in Routes, NEW n \in 0..Len(r.segs)
    PROVE  /\ Len(Route!Stem(r, n)) = n /\ DOMAIN Route!Stem(r, n) = 1..n
           /\ \A i \in 1..n : Route!Stem(r, n)[i] = Route!Edge(r.segs[i])
           /\ n # 0 => Route!Stem(r, n) # <<>>
<1>1. PICK s : s = Route!Stem(r, n)
  OBVIOUS
<1>0. PICK L : L = Len(r.segs) /\ L \in Nat
  BY RouteSegs
<1>2. n \in Nat
  BY <1>0
<1>3. s = [i \in 1..n |-> Route!Edge(r.segs[i])]
  BY <1>1 DEF Route!Stem
<1>4. PICK X : X = {Route!Edge(r.segs[i]) : i \in 1..n}
  OBVIOUS
<1>5. s \in Seq(X) /\ Len(s) = n
  BY <1>2, <1>3, <1>4
<1> QED
  BY <1>1, <1>2, <1>3, <1>5

NamesAgree ==
    \A r, s \in Routes : \A i \in DOMAIN r.segs, j \in DOMAIN s.segs :
       (r.segs[i].kind # "static" /\ s.segs[j].kind # "static" /\ i <= j /\ Route!Stem(r, i) = Route!Stem(s, i))
          => (r.segs[i].name = s.segs[j].name <=> i = j)

LEMMA NamesDo == NamesAgree
<1>1. Route!RoutesAgree => NamesAgree
  BY ZenonT(30) DEF Route!RoutesAgree, NamesAgree
<1> QED
  BY <1>1, RouteConstants

LEMMA SameStem ==
    ASSUME NEW r \in Routes, NEW s \in Routes, NEW n \in 1..Len(r.segs), NEW k \in 1..Len(s.segs),
           Route!Stem(r, n) = Route!Stem(s, k)
    PROVE  n = k /\ r.segs[n].kind = s.segs[n].kind /\ r.segs[n].name = s.segs[n].name
<1>c. n \in 0..Len(r.segs) /\ n \in 1..n
  BY SegIs
<1>d. k \in 0..Len(s.segs) /\ k \in 1..k
  BY SegIs
<1>0. n \in 0..Len(r.segs) /\ k \in 0..Len(s.segs)
  BY <1>c, <1>d
<1>e. Len(Route!Stem(r, n)) = n
  BY <1>0, StemIs
<1>f. Len(Route!Stem(s, k)) = k
  BY <1>0, StemIs
<1>1. Len(Route!Stem(r, n)) = n /\ Len(Route!Stem(s, k)) = k /\ n \in 1..n
  BY <1>c, <1>e, <1>f
<1>2. n = k
  BY <1>1
<1>a. Route!Stem(r, n)[n] = Route!Edge(r.segs[n])
  BY <1>0, <1>1, StemIs
<1>b. Route!Stem(s, n)[n] = Route!Edge(s.segs[n])
  BY <1>0, <1>1, <1>2, StemIs
<1>3. Route!Edge(r.segs[n]) = Route!Edge(s.segs[n])
  BY <1>2, <1>a, <1>b
<1>4. r.segs[n].kind = s.segs[n].kind
  BY <1>2, <1>3, EdgeIs
<1>5. CASE r.segs[n].kind = "static"
  <2>1. Route!Edge(r.segs[n]).name = r.segs[n].name /\ Route!Edge(s.segs[n]).name = s.segs[n].name
    BY <1>2, <1>4, <1>5, EdgeIs
  <2> QED
    BY <1>2, <1>3, <1>4, <2>1
<1>6. CASE r.segs[n].kind # "static"
  <2>1. n \in DOMAIN r.segs /\ n \in DOMAIN s.segs /\ n <= n
    <3>1. n \in DOMAIN r.segs /\ n \in Nat
      BY SegIs
    <3>2. k \in DOMAIN s.segs
      BY SegIs
    <3> QED
      BY <1>2, <3>1, <3>2
  <2> QED
    BY <1>2, <1>4, <1>6, <2>1, NamesDo DEF NamesAgree
<1> QED
  BY <1>2, <1>4, <1>5, <1>6

\* The names on one way are different.
LEMMA OtherName ==
    ASSUME NEW r \in Routes, NEW s \in Routes, NEW i \in 1..Len(r.segs), NEW j \in 1..Len(s.segs),
           r.segs[i].kind # "static", s.segs[j].kind # "static", i < j, Route!Stem(r, i) = Route!Stem(s, i)
    PROVE  r.segs[i].name # s.segs[j].name
<1>a. i \in DOMAIN r.segs /\ i \in Nat
  BY SegIs
<1>b. j \in DOMAIN s.segs /\ j \in Nat
  BY SegIs
<1>1. i \in DOMAIN r.segs /\ j \in DOMAIN s.segs /\ i <= j /\ i # j
  BY <1>a, <1>b
<1> QED
  BY <1>1, NamesDo DEF NamesAgree

LEMMA OwnName ==
    ASSUME NEW r \in Routes, NEW i \in 1..Len(r.segs), NEW j \in 1..Len(r.segs),
           r.segs[i].kind # "static", r.segs[j].kind # "static", r.segs[i].name = r.segs[j].name
    PROVE  i = j
<1>1. i \in Nat /\ j \in Nat
  BY SegIs
<1>2. i < j => FALSE
  BY OtherName
<1>3. j < i => FALSE
  BY OtherName
<1> QED
  BY <1>1, <1>2, <1>3

Class(C) == C = CatchAlls \/ \E n \in Nat : C = Parameters(n)

LEMMA ClassIs ==
    ASSUME NEW C, Class(C), NEW e \in C
    PROVE  e \in Routes /\ Len(e.segs) \in Nat \ {0} /\ Len(e.segs) \in 1..Len(e.segs) /\ Len(e.segs) \in 0..Len(e.segs)
<1>1. e \in Routes /\ \E i \in DOMAIN e.segs : e.segs[i].kind = ":" \/ e.segs[i].kind = "*"
  BY DEF Class, CatchAlls, Parameters, HasWild
<1>2. PICK L : L = Len(e.segs) /\ L \in Nat /\ DOMAIN e.segs = 1..L
  BY <1>1, RouteSegs
<1>3. L # 0
  BY <1>1, <1>2
<1> QED
  BY <1>1, <1>2, <1>3

\* An entry is at its own node.
LEMMA EntryIs ==
    ASSUME NEW t, NEW C, Class(C), TreeOf(t, C), NEW e \in Entries(t)
    PROVE  /\ e \in C /\ e \in Routes /\ e # Route!noEntry
           /\ Route!NodeOf(e) \in DOMAIN t /\ t[Route!NodeOf(e)].entry = e
           /\ Route!NodeOf(e) # <<>> /\ Len(Route!NodeOf(e)) = Len(e.segs)
<1>1. e \in C /\ e # Route!noEntry
  BY DEF TreeOf, Entries
<1>2. PICK m \in DOMAIN t : t[m].entry = e
  BY DEF Entries
<1>3. m = Route!NodeOf(e)
  BY <1>1, <1>2 DEF TreeOf
<1>4. e \in Routes /\ Len(e.segs) # 0 /\ Len(e.segs) \in 0..Len(e.segs)
  BY <1>1, ClassIs
<1>5. Route!NodeOf(e) # <<>> /\ Len(Route!NodeOf(e)) = Len(e.segs)
  BY <1>4, StemIs DEF Route!NodeOf
<1> QED
  BY <1>1, <1>2, <1>3, <1>4, <1>5

LEMMA NodeIs ==
    ASSUME NEW t, NEW C, Class(C), TreeOf(t, C), NEW m \in DOMAIN t, m # <<>>
    PROVE  \E e \in Entries(t) : \E n \in 1..Len(e.segs) :
              e \in Routes /\ m = Route!Stem(e, n) /\ Len(m) = n /\ t[m].name = e.segs[n].name
<1>1e. PICK e \in Entries(t) : \E n \in 1..Len(e.segs) : m = Route!Stem(e, n)
  BY DEF TreeOf
<1>1. PICK n \in 1..Len(e.segs) : m = Route!Stem(e, n)
  BY <1>1e
<1>2. e \in Routes
  BY EntryIs
<1>3. n \in 0..Len(e.segs)
  BY <1>2, SegIs
<1>4. Len(m) = n
  BY <1>1, <1>2, <1>3, StemIs
<1>5. t[m].name = e.segs[n].name
  BY <1>1 DEF TreeOf
<1> QED
  BY <1>1, <1>2, <1>4, <1>5

\* add: the tree holds one route more.
LEMMA Insert ==
    ASSUME NEW t, NEW C, Class(C), TreeOf(t, C), NEW r \in C, ~ Route!Duplicate(t, r)
    PROVE  TreeOf(Route!insert(t, r), C) /\ Entries(Route!insert(t, r)) = Entries(t) \cup {r}
<1>1. PICK N : N = Route!NodeOf(r)
  OBVIOUS
<1>2. PICK V : V = DOMAIN t \cup {Route!Stem(r, n) : n \in DOMAIN r.segs}
  OBVIOUS
<1>3. PICK u : u = Route!insert(t, r)
  OBVIOUS
<1>4. r \in Routes /\ Len(r.segs) \in Nat \ {0} /\ Len(r.segs) \in 1..Len(r.segs) /\ Len(r.segs) \in 0..Len(r.segs)
  BY ClassIs
<1>5. DOMAIN r.segs = 1..Len(r.segs) /\ r # Route!noEntry
  BY <1>4, RouteSegs
<1>6. N # <<>> /\ N \in V
  BY <1>1, <1>2, <1>4, <1>5, StemIs DEF Route!NodeOf
<1>7. /\ DOMAIN u = V
      /\ \A m \in V : u[m] = IF m \notin DOMAIN t THEN [name  |-> r.segs[Len(m)].name,
                                                         entry |-> IF m = N THEN r ELSE Route!noEntry]
                              ELSE IF m = N THEN [name |-> t[m].name, entry |-> r] ELSE t[m]
  BY <1>1, <1>2, <1>3 DEF Route!insert
<1>8. \A m \in V : /\ m = N => u[m].entry = r
                   /\ m # N /\ m \in DOMAIN t => u[m].entry = t[m].entry
                   /\ m # N /\ m \notin DOMAIN t => u[m].entry = Route!noEntry
                   /\ m \in DOMAIN t => u[m].name = t[m].name
                   /\ m \notin DOMAIN t => u[m].name = r.segs[Len(m)].name
  BY <1>7
<1>9. N \in DOMAIN t => t[N].entry = Route!noEntry
  BY <1>1 DEF Route!Duplicate
<1>10. Entries(u) = Entries(t) \cup {r}
  <2>1. ASSUME NEW e \in Entries(u)  PROVE  e \in Entries(t) \cup {r}
    BY <1>7, <1>8, <2>1, <1>2 DEF Entries
  <2>2. ASSUME NEW e \in Entries(t)  PROVE  e \in Entries(u)
    <3>1. PICK m \in DOMAIN t : t[m].entry = e /\ e # Route!noEntry
      BY DEF Entries
    <3>2. m # N /\ m \in V
      BY <1>2, <1>9, <3>1
    <3> QED
      BY <1>7, <1>8, <3>1, <3>2 DEF Entries
  <2>3. r \in Entries(u)
    BY <1>5, <1>6, <1>7, <1>8 DEF Entries
  <2> QED
    BY <2>1, <2>2, <2>3
<1>11. Entries(u) \subseteq C
  BY <1>10 DEF TreeOf
<1>12. <<>> \in DOMAIN u /\ u[<<>>].entry = Route!noEntry
  <2>1. <<>> \in DOMAIN t /\ t[<<>>].entry = Route!noEntry
    BY DEF TreeOf
  <2> QED
    BY <1>2, <1>6, <1>7, <1>8, <2>1
<1>13. ASSUME NEW m \in DOMAIN u, m # <<>>  PROVE  \E e \in Entries(u) : \E n \in 1..Len(e.segs) : m = Route!Stem(e, n)
  <2>1. CASE m \in DOMAIN t
    BY <1>10, <1>13, <2>1 DEF TreeOf
  <2>2. CASE m \notin DOMAIN t
    BY <1>2, <1>5, <1>7, <1>10, <2>2
  <2> QED
    BY <2>1, <2>2
<1>14. ASSUME NEW e \in Entries(u), NEW n \in 1..Len(e.segs)
       PROVE  Route!Stem(e, n) \in DOMAIN u /\ u[Route!Stem(e, n)].name = e.segs[n].name
  <2>1. CASE e \in Entries(t)
    <3>1. Route!Stem(e, n) \in DOMAIN t /\ t[Route!Stem(e, n)].name = e.segs[n].name
      BY <2>1 DEF TreeOf
    <3> QED
      BY <1>2, <1>7, <1>8, <3>1
  <2>2. CASE e = r
    <3>1. PICK m : m = Route!Stem(r, n)
      OBVIOUS
    <3>2. m \in V
      BY <1>2, <1>5, <2>2, <3>1
    <3>3. n \in 0..Len(r.segs)
      BY <1>4, <2>2, SegIs
    <3>4. Len(m) = n /\ m # <<>>
      <4>1. n \in Nat /\ n >= 1
        BY <1>4, <2>2, SegIs
      <4> QED
        BY <1>4, <3>1, <3>3, <4>1, StemIs
    <3>5. CASE m \in DOMAIN t
      <4>1e. PICK f \in Entries(t) : \E k \in 1..Len(f.segs) : f \in Routes /\ m = Route!Stem(f, k) /\ t[m].name = f.segs[k].name
        BY <3>4, <3>5, NodeIs
      <4>1. PICK k \in 1..Len(f.segs) : f \in Routes /\ m = Route!Stem(f, k) /\ t[m].name = f.segs[k].name
        BY <4>1e
      <4>2. n \in 1..Len(r.segs) /\ Route!Stem(r, n) = Route!Stem(f, k) /\ f \in Routes
        BY <2>2, <3>1, <4>1
      <4>3. n = k /\ r.segs[n].name = f.segs[n].name
        BY <1>4, <4>1, <4>2, SameStem
      <4> QED
        BY <1>7, <1>8, <2>2, <3>1, <3>2, <3>5, <4>1, <4>3
    <3>6. CASE m \notin DOMAIN t
      BY <1>7, <1>8, <2>2, <3>1, <3>2, <3>4, <3>6
    <3> QED
      BY <3>5, <3>6
  <2> QED
    BY <1>10, <2>1, <2>2
<1>15. ASSUME NEW m \in DOMAIN u, u[m].entry # Route!noEntry  PROVE  m = Route!NodeOf(u[m].entry)
  <2>1. CASE m = N
    BY <1>1, <1>7, <1>8, <2>1
  <2>2. CASE m # N /\ m \in DOMAIN t
    BY <1>7, <1>8, <1>15, <2>2 DEF TreeOf
  <2>3. CASE m # N /\ m \notin DOMAIN t
    BY <1>7, <1>8, <1>15, <2>3
  <2> QED
    BY <2>1, <2>2, <2>3
<1>16. TreeOf(u, C)
  BY <1>11, <1>12, <1>13, <1>14, <1>15 DEF TreeOf
<1> QED
  BY <1>3, <1>10, <1>16

\* remove: the tree holds one route less, and only the nodes of the others.
LEMMA Remove ==
    ASSUME NEW t, NEW C, Class(C), TreeOf(t, C), NEW r, Route!Removable(t, r)
    PROVE  TreeOf(Route!remove(t, r), C)
<1>1. PICK N : N = Route!NodeOf(r) /\ N \in DOMAIN t /\ t[N].entry # Route!noEntry
  BY DEF Route!Removable, Route!Duplicate
<1>2. PICK left : left = {n \in DOMAIN t : n # N /\ t[n].entry # Route!noEntry}
  OBVIOUS
<1>3. PICK empty : empty = {n \in DOMAIN t : n # <<>> /\ N \in Route!Below(t, n) /\ Route!Below(t, n) \cap left = {}}
  OBVIOUS
<1>4. PICK u : u = Route!remove(t, r)
  OBVIOUS
<1>5. /\ DOMAIN u = DOMAIN t \ empty
      /\ \A m \in DOMAIN t \ empty : u[m] = IF m = N THEN [name |-> t[m].name, entry |-> Route!noEntry] ELSE t[m]
  BY <1>1, <1>2, <1>3, <1>4 DEF Route!remove
<1>6. \A m \in DOMAIN t \ empty : /\ m = N => u[m].entry = Route!noEntry
                                  /\ m # N => u[m].entry = t[m].entry
                                  /\ u[m].name = t[m].name
  BY <1>5
<1>7. PICK f : f = t[N].entry /\ f \in Entries(t) /\ Route!NodeOf(f) = N
  BY <1>1 DEF Entries, TreeOf
<1>8. ASSUME NEW e \in Entries(t), NEW n \in 0..Len(e.segs), NEW m, m = Route!Stem(e, n), m \in DOMAIN t
      PROVE  Route!NodeOf(e) \in Route!Below(t, m)
  <2>1. e \in Routes /\ Route!NodeOf(e) \in DOMAIN t
    BY EntryIs
  <2>2. PICK L : L = Len(e.segs) /\ L \in Nat
    BY <2>1, RouteSegs
  <2>3. n \in Nat /\ n <= L /\ L \in 0..L
    BY <2>2
  <2>4. Len(m) = n /\ DOMAIN m = 1..n /\ \A i \in 1..n : m[i] = Route!Edge(e.segs[i])
    BY <1>8, <2>1, StemIs
  <2>5. PICK x : x = Route!NodeOf(e) /\ Len(x) = L /\ \A i \in 1..L : x[i] = Route!Edge(e.segs[i])
    BY <2>1, <2>2, <2>3, StemIs DEF Route!NodeOf
  <2>6. Len(m) <= Len(x) /\ \A i \in DOMAIN m : x[i] = m[i]
    BY <2>2, <2>3, <2>4, <2>5
  <2> QED
    BY <2>1, <2>5, <2>6 DEF Route!Below
<1>9. \A m \in left : m \in DOMAIN t \ empty
  <2>1. ASSUME NEW m \in left  PROVE  m \in DOMAIN t \ empty
    <3>1. m \in DOMAIN t /\ t[m].entry # Route!noEntry
      BY <1>2
    <3>2. PICK e \in Entries(t) : m = Route!NodeOf(e)
      BY <3>1 DEF TreeOf, Entries
    <3>3. Len(e.segs) \in 0..Len(e.segs)
      BY EntryIs, ClassIs
    <3>4. m \in Route!Below(t, m)
      BY <1>8, <3>1, <3>2, <3>3 DEF Route!NodeOf
    <3> QED
      BY <1>3, <3>1, <3>4
  <2> QED
    BY <2>1
<1>10. \A e : e \in Entries(u) <=> e \in Entries(t) /\ e # f
  <2>1. ASSUME NEW e \in Entries(u)  PROVE  e \in Entries(t) /\ e # f
    <3>1. PICK m \in DOMAIN u : u[m].entry = e /\ e # Route!noEntry
      BY DEF Entries
    <3>2. m # N /\ t[m].entry = e /\ m \in DOMAIN t
      BY <1>5, <1>6, <3>1
    <3>3. m = Route!NodeOf(e)
      BY <3>1, <3>2 DEF TreeOf
    <3> QED
      BY <1>7, <3>1, <3>2, <3>3 DEF Entries
  <2>2. ASSUME NEW e \in Entries(t), e # f  PROVE  e \in Entries(u)
    <3>1. PICK m : m = Route!NodeOf(e) /\ m \in DOMAIN t /\ t[m].entry = e /\ e # Route!noEntry
      BY EntryIs
    <3>2. m \in left
      BY <1>2, <1>7, <2>2, <3>1
    <3>3. m \in DOMAIN u /\ u[m].entry = e
      BY <1>2, <1>5, <1>6, <1>9, <3>1, <3>2
    <3> QED
      BY <3>1, <3>3 DEF Entries
  <2> QED
    BY <2>1, <2>2
<1>11. Entries(u) \subseteq C
  BY <1>10 DEF TreeOf
<1>12. <<>> \in DOMAIN u /\ u[<<>>].entry = Route!noEntry
  <2>1. <<>> \in DOMAIN t /\ t[<<>>].entry = Route!noEntry
    BY DEF TreeOf
  <2> QED
    BY <1>3, <1>5, <1>6, <2>1
<1>13. ASSUME NEW m \in DOMAIN u, m # <<>>  PROVE  \E e \in Entries(u) : \E n \in 1..Len(e.segs) : m = Route!Stem(e, n)
  <2>1. m \in DOMAIN t /\ m \notin empty
    BY <1>5
  <2>2. CASE N \notin Route!Below(t, m)
    <3>1e. PICK e \in Entries(t) : \E n \in 1..Len(e.segs) : m = Route!Stem(e, n)
      BY <1>13, <2>1 DEF TreeOf
    <3>1. PICK n \in 1..Len(e.segs) : m = Route!Stem(e, n)
      BY <3>1e
    <3>2. n \in 0..Len(e.segs)
      BY EntryIs, SegIs
    <3>3. e # f
      BY <1>7, <1>8, <2>1, <2>2, <3>1, <3>2
    <3> QED
      BY <1>10, <3>1, <3>3
  <2>3. CASE N \in Route!Below(t, m)
    <3>1. PICK x : x \in Route!Below(t, m) /\ x \in left
      BY <1>3, <1>13, <2>1, <2>3
    <3>2. x \in DOMAIN t /\ x # N /\ t[x].entry # Route!noEntry
      BY <1>2, <3>1
    <3>3. PICK e \in Entries(t) : x = Route!NodeOf(e)
      BY <3>2 DEF TreeOf, Entries
    <3>4. e # f /\ e \in Routes
      BY <1>7, <3>2, <3>3, EntryIs
    <3>5e. PICK g \in Entries(t) : \E n \in 1..Len(g.segs) : g \in Routes /\ m = Route!Stem(g, n) /\ Len(m) = n
      BY <1>13, <2>1, NodeIs
    <3>5. PICK n \in 1..Len(g.segs) : g \in Routes /\ m = Route!Stem(g, n) /\ Len(m) = n
      BY <3>5e
    <3>6. n \in 0..Len(g.segs) /\ n \in Nat /\ n >= 1
      BY <3>5, SegIs
    <3>7. DOMAIN m = 1..n
      BY <3>5, <3>6, StemIs
    <3>8. PICK L : L = Len(e.segs) /\ L \in Nat /\ L \in 0..L
      BY <3>4, RouteSegs
    <3>9. Len(x) = L /\ \A i \in 1..L : x[i] = Route!Edge(e.segs[i])
      BY <3>3, <3>4, <3>8, StemIs DEF Route!NodeOf
    <3>10. n <= L /\ \A i \in 1..n : m[i] = x[i]
      BY <3>1, <3>5, <3>7, <3>9 DEF Route!Below
    <3>11. n \in 1..L
      BY <3>6, <3>8, <3>10
    <3>12. m = [i \in 1..n |-> Route!Edge(g.segs[i])]
      BY <3>5 DEF Route!Stem
    <3>13. \A i \in 1..n : m[i] = Route!Edge(e.segs[i])
      BY <3>6, <3>8, <3>9, <3>10
    <3>14. m = [i \in 1..n |-> Route!Edge(e.segs[i])]
      BY <3>12, <3>13
    <3>15. m = Route!Stem(e, n)
      BY <3>14 DEF Route!Stem
    <3> QED
      BY <1>10, <3>4, <3>8, <3>11, <3>15
  <2> QED
    BY <2>2, <2>3
<1>14. ASSUME NEW e \in Entries(u), NEW n \in 1..Len(e.segs)
       PROVE  Route!Stem(e, n) \in DOMAIN u /\ u[Route!Stem(e, n)].name = e.segs[n].name
  <2>1. e \in Entries(t) /\ e # f /\ e \in Routes
    BY <1>10, EntryIs
  <2>2. PICK m : m = Route!Stem(e, n) /\ m \in DOMAIN t /\ t[m].name = e.segs[n].name
    BY <2>1 DEF TreeOf
  <2>3. n \in 0..Len(e.segs)
    BY <2>1, SegIs
  <2>4. Route!NodeOf(e) \in Route!Below(t, m)
    BY <1>8, <2>1, <2>2, <2>3
  <2>5. Route!NodeOf(e) \in left
    BY <1>2, <1>7, <2>1, EntryIs
  <2>6. m \notin empty
    BY <1>3, <2>4, <2>5
  <2> QED
    BY <1>5, <1>6, <2>2, <2>6
<1>15. ASSUME NEW m \in DOMAIN u, u[m].entry # Route!noEntry  PROVE  m = Route!NodeOf(u[m].entry)
  BY <1>5, <1>6, <1>15 DEF TreeOf
<1>16. TreeOf(u, C)
  BY <1>11, <1>12, <1>13, <1>14, <1>15 DEF TreeOf
<1> QED
  BY <1>4, <1>16

\* A tree with no routes.
LEMMA EmptyTree ==
    ASSUME NEW C
    PROVE  TreeOf(Route!newCompressedRadixTree, C) /\ Entries(Route!newCompressedRadixTree) = {}
<1>1. PICK t : t = Route!newCompressedRadixTree
  OBVIOUS
<1>2. DOMAIN t = {<<>>} /\ t[<<>>].entry = Route!noEntry
  BY <1>1 DEF Route!newCompressedRadixTree
<1>3. Entries(t) = {}
  BY <1>2 DEF Entries
<1> QED
  BY <1>1, <1>2, <1>3 DEF TreeOf

\* A node is on the way to the routes it leads to.
Node(m) == \E X : m \in Seq(X)
Leads(m, e) == Len(m) \in 0..Len(e.segs) /\ m = Route!Stem(e, Len(m))

LEMMA LenNode ==
    ASSUME NEW m, Node(m)
    PROVE  Len(m) \in Nat /\ (Len(m) = 0 <=> m = <<>>)
<1>1. PICK X : m \in Seq(X)
  BY DEF Node
<1> QED
  BY <1>1

LEMMA StemIsNode ==
    ASSUME NEW r \in Routes, NEW n \in 0..Len(r.segs)
    PROVE  Node(Route!Stem(r, n))
<1>1. PICK s : s = Route!Stem(r, n)
  OBVIOUS
<1>2. PICK L : L = Len(r.segs) /\ L \in Nat
  BY RouteSegs
<1>3. n \in Nat
  BY <1>2
<1>4. s = [i \in 1..n |-> Route!Edge(r.segs[i])]
  BY <1>1 DEF Route!Stem
<1>5. PICK X : X = {Route!Edge(r.segs[i]) : i \in 1..n}
  OBVIOUS
<1>6. s \in Seq(X)
  BY <1>3, <1>4, <1>5
<1> QED
  BY <1>1, <1>6 DEF Node

LEMMA TreeNode ==
    ASSUME NEW t, NEW C, Class(C), TreeOf(t, C), NEW m \in DOMAIN t
    PROVE  Node(m)
<1>1. CASE m = <<>>
  BY <1>1 DEF Node
<1>2. CASE m # <<>>
  <2>1. PICK e \in Entries(t) : \E n \in 1..Len(e.segs) : e \in Routes /\ m = Route!Stem(e, n)
    BY <1>2, NodeIs
  <2>2. PICK n \in 1..Len(e.segs) : e \in Routes /\ m = Route!Stem(e, n)
    BY <2>1
  <2>3. n \in 0..Len(e.segs)
    BY <2>2, SegIs
  <2> QED
    BY <2>2, <2>3, StemIsNode
<1> QED
  BY <1>1, <1>2

LEMMA AppendIs ==
    ASSUME NEW m, Node(m), NEW x
    PROVE  /\ Node(Append(m, x)) /\ Append(m, x) # <<>>
           /\ Len(Append(m, x)) = Len(m) + 1
           /\ \A i \in 1..Len(m) : Append(m, x)[i] = m[i]
           /\ Append(m, x)[Len(m) + 1] = x
<1>1. PICK X : m \in Seq(X)
  BY DEF Node
<1>2. PICK T : T = X \cup {x}
  OBVIOUS
<1>3. m \in Seq(T) /\ x \in T
  <2>1. \A i \in 1..Len(m) : m[i] \in T
    BY <1>1, <1>2
  <2> QED
    BY <1>1, <1>2, <2>1
<1>4. Append(m, x) \in Seq(T) /\ Len(Append(m, x)) = Len(m) + 1
  BY <1>3
<1>5. Append(m, x)[Len(m) + 1] = x /\ \A i \in 1..Len(m) : Append(m, x)[i] = m[i]
  BY <1>3
<1>6. Append(m, x) # <<>>
  BY <1>1, <1>4
<1> QED
  BY <1>4, <1>5, <1>6 DEF Node

LEMMA SameNode ==
    ASSUME NEW m, Node(m), NEW w, Node(w), Len(m) = Len(w), \A i \in 1..Len(m) : m[i] = w[i]
    PROVE  m = w
<1>1. PICK X : m \in Seq(X)
  BY DEF Node
<1>2. PICK T : w \in Seq(T)
  BY DEF Node
<1> QED
  BY <1>1, <1>2

LEMMA LeadsNext ==
    ASSUME NEW e \in Routes, NEW m, Node(m), NEW x
    PROVE  Leads(Append(m, x), e)
              <=> Leads(m, e) /\ Len(m) + 1 \in 1..Len(e.segs) /\ x = Route!Edge(e.segs[Len(m) + 1])
<1>1. PICK n \in Nat : n = Len(m)
  BY LenNode
<1>2. PICK L \in Nat : L = Len(e.segs)
  BY RouteSegs
<1>3. PICK a : a = Append(m, x)
  OBVIOUS
<1>4. Node(a) /\ Len(a) = n + 1 /\ (\A i \in 1..n : a[i] = m[i]) /\ a[n + 1] = x
  BY <1>1, <1>3, AppendIs
<1>5. ASSUME Leads(a, e)  PROVE  Leads(m, e) /\ n + 1 \in 1..L /\ x = Route!Edge(e.segs[n + 1])
  <2>1. n + 1 \in 0..L /\ n \in 0..L /\ n + 1 \in 1..L
    BY <1>2, <1>4, <1>5 DEF Leads
  <2>2. a = Route!Stem(e, n + 1)
    BY <1>4, <1>5 DEF Leads
  <2>3. \A i \in 1..(n + 1) : a[i] = Route!Edge(e.segs[i])
    BY <1>2, <2>1, <2>2, StemIs
  <2>4. Node(Route!Stem(e, n)) /\ Len(Route!Stem(e, n)) = n /\ \A i \in 1..n : Route!Stem(e, n)[i] = Route!Edge(e.segs[i])
    BY <1>2, <2>1, StemIs, StemIsNode
  <2>5. \A i \in 1..n : m[i] = Route!Stem(e, n)[i]
    BY <1>4, <2>3, <2>4
  <2>6. m = Route!Stem(e, n)
    BY <1>1, <2>4, <2>5, SameNode
  <2>7. a[n + 1] = Route!Edge(e.segs[n + 1])
    BY <2>3
  <2> QED
    BY <1>1, <1>2, <1>4, <2>1, <2>6, <2>7 DEF Leads
<1>6. ASSUME Leads(m, e), n + 1 \in 1..L, x = Route!Edge(e.segs[n + 1])  PROVE  Leads(a, e)
  <2>1. n + 1 \in 0..L /\ n \in 0..L
    BY <1>6
  <2>2. m = Route!Stem(e, n)
    BY <1>1, <1>6 DEF Leads
  <2>3. \A i \in 1..n : m[i] = Route!Edge(e.segs[i])
    BY <1>2, <2>1, <2>2, StemIs
  <2>4. /\ Node(Route!Stem(e, n + 1)) /\ Len(Route!Stem(e, n + 1)) = n + 1
        /\ \A i \in 1..(n + 1) : Route!Stem(e, n + 1)[i] = Route!Edge(e.segs[i])
    BY <1>2, <2>1, StemIs, StemIsNode
  <2>5. \A i \in 1..(n + 1) : a[i] = Route!Stem(e, n + 1)[i]
    <3>1. ASSUME NEW i \in 1..(n + 1)  PROVE  a[i] = Route!Edge(e.segs[i])
      <4>1. i \in 1..n \/ i = n + 1
        OBVIOUS
      <4> QED
        BY <1>4, <1>6, <2>3, <4>1
    <3> QED
      BY <2>4, <3>1
  <2>6. a = Route!Stem(e, n + 1)
    BY <1>4, <2>4, <2>5, SameNode
  <2> QED
    BY <1>2, <1>4, <2>1, <2>6 DEF Leads
<1> QED
  BY <1>1, <1>2, <1>3, <1>5, <1>6

StaticEdge(x) == [kind |-> "static", name |-> x]
KindEdge(k) == [kind |-> k, name |-> ""]

\* Which edge of a node a route takes.
LEMMA LeadsStatic ==
    ASSUME NEW e \in Routes, NEW m, Node(m), NEW x
    PROVE  Leads(Append(m, StaticEdge(x)), e)
              <=> /\ Leads(m, e) /\ Len(m) + 1 \in 1..Len(e.segs)
                  /\ e.segs[Len(m) + 1].kind = "static" /\ e.segs[Len(m) + 1].name = x
<1>1. PICK n : n = Len(m) + 1
  OBVIOUS
<1>a. PICK y : y = StaticEdge(x)
  OBVIOUS
<1>2. y = StaticEdge(x) /\ y.kind = "static" /\ y.name = x
  BY <1>a DEF StaticEdge
<1>3. ASSUME n \in 1..Len(e.segs)
      PROVE  y = Route!Edge(e.segs[n]) <=> e.segs[n].kind = "static" /\ e.segs[n].name = x
  <2>1. PICK g : g = Route!Edge(e.segs[n]) /\ g.kind = e.segs[n].kind
    BY <1>3, EdgeIs
  <2>2. e.segs[n].kind = "static" => g = StaticEdge(e.segs[n].name)
    BY <1>3, <2>1, EdgeIs DEF StaticEdge
  <2>3. ASSUME y = g  PROVE  e.segs[n].kind = "static" /\ e.segs[n].name = x
    <3>1. e.segs[n].kind = "static"
      BY <1>2, <2>1, <2>3
    <3>2. g.name = e.segs[n].name
      BY <2>2, <3>1 DEF StaticEdge
    <3> QED
      BY <1>2, <2>3, <3>1, <3>2
  <2> QED
    BY <1>2, <2>1, <2>2, <2>3
<1> QED
  BY <1>1, <1>2, <1>3, LeadsNext

LEMMA LeadsKind ==
    ASSUME NEW e \in Routes, NEW m, Node(m), NEW k \in {":", "*"}
    PROVE  Leads(Append(m, KindEdge(k)), e)
              <=> Leads(m, e) /\ Len(m) + 1 \in 1..Len(e.segs) /\ e.segs[Len(m) + 1].kind = k
<1>1. PICK n : n = Len(m) + 1
  OBVIOUS
<1>a. PICK y : y = KindEdge(k)
  OBVIOUS
<1>2. y = KindEdge(k) /\ y.kind = k /\ y.name = ""
  BY <1>a DEF KindEdge
<1>3. ASSUME n \in 1..Len(e.segs)  PROVE  y = Route!Edge(e.segs[n]) <=> e.segs[n].kind = k
  <2>1. PICK g : g = Route!Edge(e.segs[n]) /\ g.kind = e.segs[n].kind
    BY <1>3, EdgeIs
  <2>2. e.segs[n].kind = k => g = KindEdge(k)
    BY <1>3, <2>1, EdgeIs DEF KindEdge
  <2> QED
    BY <1>2, <2>1, <2>2
<1> QED
  BY <1>1, <1>2, <1>3, LeadsNext

\* A tree has every node that leads to one of its routes.
LEMMA OnTheWay ==
    ASSUME NEW t, NEW C, Class(C), TreeOf(t, C), NEW m, Node(m), m # <<>>, NEW e \in Entries(t), Leads(m, e)
    PROVE  m \in DOMAIN t /\ Len(m) \in 1..Len(e.segs) /\ t[m].name = e.segs[Len(m)].name
<1>1. PICK n \in Nat : n = Len(m) /\ n # 0
  BY LenNode
<1>2. PICK L \in Nat : L = Len(e.segs)
  BY EntryIs, RouteSegs
<1>3. n \in 1..L /\ m = Route!Stem(e, n)
  BY <1>1, <1>2 DEF Leads
<1> QED
  BY <1>1, <1>2, <1>3 DEF TreeOf

LEMMA LeadsSome ==
    ASSUME NEW t, NEW C, Class(C), TreeOf(t, C), NEW m \in DOMAIN t, m # <<>>
    PROVE  \E e \in Entries(t) : Leads(m, e)
<1>1. PICK e \in Entries(t) : \E n \in 1..Len(e.segs) : e \in Routes /\ m = Route!Stem(e, n) /\ Len(m) = n
  BY NodeIs
<1>2. PICK n \in 1..Len(e.segs) : e \in Routes /\ m = Route!Stem(e, n) /\ Len(m) = n
  BY <1>1
<1>3. n \in 0..Len(e.segs)
  BY <1>2, SegIs
<1> QED
  BY <1>2, <1>3 DEF Leads

LEMMA LeadsRoot ==
    ASSUME NEW e \in Routes
    PROVE  Leads(<<>>, e)
<1>1. PICK L \in Nat : L = Len(e.segs) /\ 0 \in 0..L
  BY RouteSegs
<1>2. Node(Route!Stem(e, 0)) /\ Len(Route!Stem(e, 0)) = 0
  BY <1>1, StemIs, StemIsNode
<1>3. Route!Stem(e, 0) = <<>>
  BY <1>2, LenNode
<1>4. Len(<<>>) = 0
  OBVIOUS
<1> QED
  BY <1>1, <1>3, <1>4 DEF Leads

\* The catch-all of a node is one route's own.
LEMMA AtWild ==
    ASSUME NEW t, NEW C, Class(C), TreeOf(t, C), NEW m, Node(m),
           NEW e \in Entries(t), Leads(Append(m, KindEdge("*")), e)
    PROVE  /\ Append(m, KindEdge("*")) \in DOMAIN t
           /\ t[Append(m, KindEdge("*"))].entry = e
           /\ Len(m) + 1 = Len(e.segs) /\ Len(m) + 1 \in 1..Len(e.segs) /\ e.segs[Len(m) + 1].kind = "*"
           /\ t[Append(m, KindEdge("*"))].name = e.segs[Len(m) + 1].name
           /\ Leads(m, e)
<1>1. PICK w : w = Append(m, KindEdge("*"))
  OBVIOUS
<1>2. Node(w) /\ w # <<>> /\ Len(w) = Len(m) + 1
  BY <1>1, AppendIs
<1>3. e \in Routes
  BY EntryIs
<1>4. Leads(m, e) /\ Len(m) + 1 \in 1..Len(e.segs) /\ e.segs[Len(m) + 1].kind = "*"
  BY <1>1, <1>3, LeadsKind
<1>5. Len(m) + 1 = Len(e.segs)
  BY <1>3, <1>4, SegIs
<1>6. w = Route!NodeOf(e)
  BY <1>1, <1>2, <1>5 DEF Leads, Route!NodeOf
<1>7. w \in DOMAIN t /\ t[w].name = e.segs[Len(m) + 1].name
  <2>1. Leads(w, e)
    BY <1>1
  <2>2. w \in DOMAIN t /\ t[w].name = e.segs[Len(w)].name
    BY <1>2, <2>1, OnTheWay
  <2> QED
    BY <1>2, <2>2
<1> QED
  BY <1>1, <1>4, <1>5, <1>6, <1>7, EntryIs

LEMMA WildHas ==
    ASSUME NEW t, NEW C, Class(C), TreeOf(t, C), NEW m, Node(m), Append(m, KindEdge("*")) \in DOMAIN t
    PROVE  /\ t[Append(m, KindEdge("*"))].entry \in Entries(t)
           /\ t[Append(m, KindEdge("*"))].entry # Route!noEntry
           /\ Leads(Append(m, KindEdge("*")), t[Append(m, KindEdge("*"))].entry)
<1>1. PICK w : w = Append(m, KindEdge("*"))
  OBVIOUS
<1>2. w # <<>> /\ w \in DOMAIN t
  BY <1>1, AppendIs
<1>3. PICK e \in Entries(t) : Leads(w, e)
  BY <1>2, LeadsSome
<1>4. t[w].entry = e
  BY <1>1, <1>3, AtWild
<1> QED
  BY <1>1, <1>3, <1>4, EntryIs

(***************************************************************************)
(* The search of one node.  Reach is what it may find below m; a result is *)
(* right (Good) when it is the first of those, and its parameters are the   *)
(* ones that route binds after m.                                          *)
(***************************************************************************)
Fits(seg, x) == IF seg.kind = ":" THEN x # "" ELSE seg.name = x
Fixed(e) == IF HasWild(e) THEN Len(e.segs) - 1 ELSE Len(e.segs)

ServesFrom(e, p, n) ==
    /\ IF HasWild(e) THEN Len(p) >= Len(e.segs) - 1 ELSE Len(p) = Len(e.segs)
    /\ \A i \in (n + 1)..Fixed(e) : Fits(e.segs[i], p[i])

Reach(t, p, m) == {e \in Entries(t) : Leads(m, e) /\ ServesFrom(e, p, Len(m))}

Visited(p, m) == Len(m) <= Len(p) /\ \A i \in 1..Len(m) : m[i].kind # "*"

Prefer(r, s, n) ==
    \E i \in (n + 1)..Len(r.segs) :
       /\ i <= Len(s.segs) /\ Route!Rank(r.segs[i]) < Route!Rank(s.segs[i])
       /\ \A j \in (n + 1)..(i - 1) : Route!Rank(r.segs[j]) = Route!Rank(s.segs[j])

Bound(e, n) == {e.segs[i].name : i \in {j \in (n + 1)..Len(e.segs) : e.segs[j].kind # "static"}}
ValueAt(e, p, i) == IF e.segs[i].kind = ":" THEN p[i] ELSE SubSeq(p, i, Len(p))

Writes(e, p, n, w) ==
    /\ \A x \in DOMAIN w : w[x].kept => x \in Bound(e, n)
    /\ \A i \in (n + 1)..Len(e.segs) : e.segs[i].kind # "static"
          => e.segs[i].name \in DOMAIN w /\ w[e.segs[i].name].kept /\ w[e.segs[i].name].value = ValueAt(e, p, i)

Drops(w) == \A x \in DOMAIN w : ~ w[x].kept
Within(t, m, w) == \A x \in DOMAIN w : \E e \in Entries(t) : Leads(m, e) /\ x \in Bound(e, Len(m))

Good(t, p, m, s) ==
    /\ s.entry = Route!noEntry => Reach(t, p, m) = {} /\ Drops(s.written)
    /\ s.entry # Route!noEntry =>
          /\ s.entry \in Reach(t, p, m) /\ Writes(s.entry, p, Len(m), s.written)
          /\ \A r \in Reach(t, p, m) : r # s.entry => Prefer(s.entry, r, Len(m))
    /\ Within(t, m, s.written)

LEMMA WildIs ==
    ASSUME NEW e \in Routes
    PROVE  /\ HasWild(e) <=> Len(e.segs) # 0 /\ e.segs[Len(e.segs)].kind = "*"
           /\ Fixed(e) \in Int /\ Fixed(e) <= Len(e.segs)
           /\ HasWild(e) => Fixed(e) = Len(e.segs) - 1
           /\ ~ HasWild(e) => Fixed(e) = Len(e.segs)
<1>1. PICK L \in Nat : L = Len(e.segs) /\ DOMAIN e.segs = 1..L
  BY RouteSegs
<1>2. ASSUME HasWild(e)  PROVE  L # 0 /\ e.segs[L].kind = "*"
  <2>1. PICK i \in 1..L : e.segs[i].kind = "*"
    BY <1>1, <1>2 DEF HasWild
  <2>2. i = L
    BY <1>1, <2>1, SegIs
  <2> QED
    BY <2>1, <2>2
<1>3. ASSUME L # 0, e.segs[L].kind = "*"  PROVE  HasWild(e)
  BY <1>1, <1>3 DEF HasWild
<1> QED
  BY <1>1, <1>2, <1>3 DEF Fixed

\* A visited node is not behind a catch-all.
LEMMA VisitedKind ==
    ASSUME NEW e \in Routes, NEW p, NEW m, Node(m), m # <<>>, Visited(p, m), Leads(m, e)
    PROVE  Len(m) \in 1..Len(e.segs) /\ e.segs[Len(m)].kind # "*"
<1>1. PICK n \in Nat : n = Len(m) /\ n # 0
  BY LenNode
<1>2. PICK L \in Nat : L = Len(e.segs)
  BY RouteSegs
<1>3. n \in 1..L /\ n \in 0..L /\ n \in 1..n /\ m = Route!Stem(e, n)
  BY <1>1, <1>2 DEF Leads
<1>4. m[n] = Route!Edge(e.segs[n])
  BY <1>2, <1>3, StemIs
<1>5. m[n].kind = e.segs[n].kind
  BY <1>2, <1>3, <1>4, EdgeIs
<1>6. m[n].kind # "*"
  BY <1>1, <1>3 DEF Visited
<1> QED
  BY <1>1, <1>2, <1>3, <1>5, <1>6

LEMMA VisitedNext ==
    ASSUME NEW p, NEW m, Node(m), Visited(p, m), Len(p) \in Nat, Len(m) + 1 <= Len(p), NEW x, x.kind # "*"
    PROVE  Visited(p, Append(m, x)) /\ Len(Append(m, x)) = Len(m) + 1 /\ Len(Append(m, x)) > Len(m)
<1>1. PICK n \in Nat : n = Len(m)
  BY LenNode
<1>2. PICK a : a = Append(m, x)
  OBVIOUS
<1>3. Len(a) = n + 1 /\ (\A i \in 1..n : a[i] = m[i]) /\ a[n + 1] = x
  BY <1>1, <1>2, AppendIs
<1>4. \A i \in 1..n : m[i].kind # "*"
  BY <1>1 DEF Visited
<1>5. ASSUME NEW i \in 1..(n + 1)  PROVE  a[i].kind # "*"
  <2>1. i \in 1..n \/ i = n + 1
    OBVIOUS
  <2> QED
    BY <1>3, <1>4, <2>1
<1>6. Visited(p, a)
  BY <1>1, <1>3, <1>5 DEF Visited
<1> QED
  BY <1>1, <1>2, <1>3, <1>6

\* At the end of the path a node's own route and its catch-all are left.
LEMMA ReachEnd ==
    ASSUME NEW t, NEW C, Class(C), TreeOf(t, C), NEW p, Len(p) \in Nat, NEW m \in DOMAIN t, Visited(p, m),
           Len(m) = Len(p)
    PROVE  \A e : e \in Reach(t, p, m)
                     <=> e \in Entries(t) /\ (m = Route!NodeOf(e) \/ Leads(Append(m, KindEdge("*")), e))
<1>1. PICK n \in Nat : n = Len(m) /\ n = Len(p) /\ Node(m)
  BY TreeNode, LenNode
<1>2. PICK w : w = Append(m, KindEdge("*"))
  OBVIOUS
<1>3. ASSUME NEW e \in Entries(t), m = Route!NodeOf(e)  PROVE  e \in Reach(t, p, m)
  <2>1. PICK L \in Nat : L = Len(e.segs) /\ e \in Routes /\ m # <<>> /\ Len(m) = L
    BY <1>3, EntryIs, RouteSegs
  <2>2. Leads(m, e)
    BY <1>3, <2>1 DEF Leads, Route!NodeOf
  <2>3. ~ HasWild(e)
    BY <1>1, <2>1, <2>2, VisitedKind, WildIs
  <2>4. Fixed(e) = L
    BY <2>1, <2>3, WildIs
  <2>5. ServesFrom(e, p, n)
    BY <1>1, <2>1, <2>3, <2>4 DEF ServesFrom
  <2> QED
    BY <1>1, <2>2, <2>5 DEF Reach
<1>4. ASSUME NEW e \in Entries(t), Leads(w, e)  PROVE  e \in Reach(t, p, m)
  <2>1. PICK L \in Nat : L = Len(e.segs) /\ e \in Routes
    BY EntryIs, RouteSegs
  <2>2. n + 1 = L /\ e.segs[L].kind = "*" /\ Leads(m, e)
    BY <1>1, <1>2, <1>4, <2>1, AtWild
  <2>3. HasWild(e) /\ Fixed(e) = n
    BY <2>1, <2>2, WildIs
  <2>4. ServesFrom(e, p, n)
    BY <1>1, <2>1, <2>2, <2>3 DEF ServesFrom
  <2> QED
    BY <1>1, <2>2, <2>4 DEF Reach
<1>5. ASSUME NEW e \in Reach(t, p, m)  PROVE  e \in Entries(t) /\ (m = Route!NodeOf(e) \/ Leads(w, e))
  <2>1. e \in Entries(t) /\ Leads(m, e) /\ ServesFrom(e, p, n)
    BY <1>1 DEF Reach
  <2>2. PICK L \in Nat : L = Len(e.segs) /\ e \in Routes
    BY <2>1, EntryIs, RouteSegs
  <2>3. n <= L /\ m = Route!Stem(e, n)
    BY <1>1, <2>1, <2>2 DEF Leads
  <2>4. CASE ~ HasWild(e)
    <3>1. n = L
      BY <1>1, <2>1, <2>2, <2>4 DEF ServesFrom
    <3> QED
      BY <2>1, <2>2, <2>3, <3>1 DEF Route!NodeOf
  <2>5. CASE HasWild(e)
    <3>1. L # 0 /\ e.segs[L].kind = "*" /\ n >= L - 1
      BY <1>1, <2>1, <2>2, <2>5, WildIs DEF ServesFrom
    <3>2. n # L
      <4>1. SUFFICES ASSUME n = L PROVE FALSE
        OBVIOUS
      <4>2. m # <<>>
        BY <1>1, <3>1, <4>1, LenNode
      <4> QED
        BY <1>1, <2>1, <2>2, <3>1, <4>1, <4>2, VisitedKind
    <3>3. n + 1 = L /\ n + 1 \in 1..L
      BY <2>3, <3>1, <3>2
    <3>4. "*" \in {":", "*"}
      OBVIOUS
    <3>5. Leads(w, e)
      BY <1>1, <1>2, <2>1, <2>2, <3>1, <3>3, <3>4, LeadsKind
    <3> QED
      BY <2>1, <3>5
  <2> QED
    BY <2>4, <2>5
<1> QED
  BY <1>2, <1>3, <1>4, <1>5

\* Before its end: the ways on from a node.
LEMMA ReachOn ==
    ASSUME NEW t, NEW C, Class(C), TreeOf(t, C), NEW p, Len(p) \in Nat, NEW m \in DOMAIN t, Visited(p, m),
           NEW h, h = Len(m) + 1, h <= Len(p)
    PROVE  \A e : e \in Reach(t, p, m) <=>
              \/ e \in Reach(t, p, Append(m, StaticEdge(p[h]))) /\ p[h] # ""
              \/ e \in Reach(t, p, Append(m, KindEdge(":"))) /\ p[h] # ""
              \/ e \in Entries(t) /\ Leads(Append(m, KindEdge("*")), e)
<1>1. PICK n \in Nat : n = Len(m) /\ Node(m) /\ h = n + 1
  BY TreeNode, LenNode
<1>2. PICK c : c = Append(m, StaticEdge(p[h])) /\ Len(c) = h
  BY <1>1, AppendIs
<1>3. PICK q : q = Append(m, KindEdge(":")) /\ Len(q) = h
  BY <1>1, AppendIs
<1>4. PICK w : w = Append(m, KindEdge("*"))
  OBVIOUS
<1>5. ASSUME NEW e \in Routes, NEW k, h \in 1..Len(e.segs), e.segs[h].kind # "*"
      PROVE  ServesFrom(e, p, n) <=> ServesFrom(e, p, h) /\ Fits(e.segs[h], p[h])
  <2>1. PICK L \in Nat : L = Len(e.segs)
    BY RouteSegs
  <2>2. PICK F \in Int : F = Fixed(e) /\ h <= F
    <3>1. CASE HasWild(e)
      BY <1>1, <1>5, <2>1, <3>1, WildIs
    <3>2. CASE ~ HasWild(e)
      BY <1>1, <1>5, <2>1, <3>2, WildIs
    <3> QED
      BY <3>1, <3>2
  <2>3. \A i : i \in (n + 1)..F <=> i \in (h + 1)..F \/ i = h
    BY <1>1, <2>2
  <2> QED
    BY <2>2, <2>3 DEF ServesFrom
<1>6. ASSUME NEW e \in Reach(t, p, m)
      PROVE  \/ e \in Reach(t, p, c) /\ p[h] # ""
             \/ e \in Reach(t, p, q) /\ p[h] # ""
             \/ e \in Entries(t) /\ Leads(w, e)
  <2>1. e \in Entries(t) /\ Leads(m, e) /\ ServesFrom(e, p, n)
    BY <1>1 DEF Reach
  <2>2. PICK L \in Nat : L = Len(e.segs) /\ e \in Routes
    BY <2>1, EntryIs, RouteSegs
  <2>3. n <= L
    BY <1>1, <2>1, <2>2 DEF Leads
  <2>4. n # L
    <3>1. SUFFICES ASSUME n = L PROVE FALSE
      OBVIOUS
    <3>2. HasWild(e) /\ L # 0 /\ e.segs[L].kind = "*"
      BY <1>1, <2>1, <2>2, <3>1, WildIs DEF ServesFrom
    <3>3. m # <<>>
      BY <1>1, <3>1, <3>2, LenNode
    <3> QED
      BY <1>1, <2>1, <2>2, <3>1, <3>2, <3>3, VisitedKind
  <2>5. h \in 1..L /\ e.segs[h].kind \in {"static", ":", "*"}
    <3>1. h \in 1..L
      BY <1>1, <2>2, <2>3, <2>4
    <3> QED
      BY <2>2, <3>1, SegIs DEF SegKinds
  <2>6. CASE e.segs[h].kind = "*"
    <3>1. "*" \in {":", "*"}
      OBVIOUS
    <3> QED
      BY <1>1, <1>4, <2>1, <2>2, <2>5, <2>6, <3>1, LeadsKind
  <2>7. CASE e.segs[h].kind = ":"
    <3>1. ":" \in {":", "*"}
      OBVIOUS
    <3>2. Leads(q, e)
      BY <1>1, <1>3, <2>1, <2>2, <2>5, <2>7, <3>1, LeadsKind
    <3>3. ServesFrom(e, p, h) /\ p[h] # ""
      BY <1>5, <2>1, <2>2, <2>5, <2>7 DEF Fits
    <3> QED
      BY <1>3, <2>1, <3>2, <3>3 DEF Reach
  <2>8. CASE e.segs[h].kind = "static"
    <3>1. ServesFrom(e, p, h) /\ p[h] = e.segs[h].name
      BY <1>5, <2>1, <2>2, <2>5, <2>8 DEF Fits
    <3>2. p[h] # ""
      BY <2>2, <2>5, <3>1, SegIs
    <3>3. Leads(c, e)
      BY <1>1, <1>2, <2>1, <2>2, <2>5, <2>8, <3>1, LeadsStatic
    <3> QED
      BY <1>2, <2>1, <3>1, <3>2, <3>3 DEF Reach
  <2> QED
    BY <2>5, <2>6, <2>7, <2>8
<1>7. ASSUME NEW e \in Reach(t, p, c)  PROVE  e \in Reach(t, p, m)
  <2>1. e \in Entries(t) /\ e \in Routes /\ Leads(c, e) /\ ServesFrom(e, p, h)
    BY <1>2, EntryIs DEF Reach
  <2>2. Leads(m, e) /\ h \in 1..Len(e.segs) /\ e.segs[h].kind = "static" /\ e.segs[h].name = p[h]
    BY <1>1, <1>2, <2>1, LeadsStatic
  <2>3. ServesFrom(e, p, n)
    BY <1>5, <2>1, <2>2 DEF Fits
  <2> QED
    BY <1>1, <2>1, <2>2, <2>3 DEF Reach
<1>8. ASSUME NEW e \in Reach(t, p, q), p[h] # ""  PROVE  e \in Reach(t, p, m)
  <2>1. e \in Entries(t) /\ e \in Routes /\ Leads(q, e) /\ ServesFrom(e, p, h) /\ ":" \in {":", "*"}
    BY <1>3, EntryIs DEF Reach
  <2>2. Leads(m, e) /\ h \in 1..Len(e.segs) /\ e.segs[h].kind = ":"
    BY <1>1, <1>3, <2>1, LeadsKind
  <2>3. ServesFrom(e, p, n)
    BY <1>5, <1>8, <2>1, <2>2 DEF Fits
  <2> QED
    BY <1>1, <2>1, <2>2, <2>3 DEF Reach
<1>9. ASSUME NEW e \in Entries(t), Leads(w, e)  PROVE  e \in Reach(t, p, m)
  <2>1. PICK L \in Nat : L = Len(e.segs) /\ e \in Routes
    BY EntryIs, RouteSegs
  <2>2. n + 1 = L /\ e.segs[L].kind = "*" /\ Leads(m, e)
    BY <1>1, <1>4, <1>9, <2>1, AtWild
  <2>3. HasWild(e) /\ Fixed(e) = n
    BY <2>1, <2>2, WildIs
  <2>4. ServesFrom(e, p, n)
    BY <1>1, <2>1, <2>2, <2>3 DEF ServesFrom
  <2> QED
    BY <1>1, <2>2, <2>4 DEF Reach
<1> QED
  BY <1>2, <1>3, <1>4, <1>6, <1>7, <1>8, <1>9

LEMMA RankIs ==
    ASSUME NEW seg
    PROVE  /\ seg.kind = "static" => Route!Rank(seg) = 1
           /\ seg.kind = ":" => Route!Rank(seg) = 2
           /\ seg.kind = "*" => Route!Rank(seg) = 3
  BY DEF Route!Rank

LEMMA NamesNext ==
    ASSUME NEW e, NEW n \in Nat, NEW L \in Nat, L = Len(e.segs), n + 1 \in 1..L
    PROVE  \A x : x \in Bound(e, n) <=> \/ x \in Bound(e, n + 1)
                                        \/ e.segs[n + 1].kind # "static" /\ x = e.segs[n + 1].name
<1>1. \A i : i \in (n + 1)..L <=> i \in ((n + 1) + 1)..L \/ i = n + 1
  OBVIOUS
<1> QED
  BY <1>1 DEF Bound

LEMMA OneOn ==
    ASSUME NEW n \in Nat, NEW L \in Nat, NEW i \in (n + 1)..L, i # n + 1
    PROVE  i \in ((n + 1) + 1)..L
  OBVIOUS

LEMMA PreferNow ==
    ASSUME NEW r, NEW s, NEW n \in Nat, NEW L \in Nat, L = Len(r.segs), n + 1 \in 1..L,
           NEW K \in Nat, K = Len(s.segs), n + 1 \in 1..K, Route!Rank(r.segs[n + 1]) < Route!Rank(s.segs[n + 1])
    PROVE  Prefer(r, s, n)
<1>1. n + 1 \in (n + 1)..L /\ n + 1 <= K /\ \A j \in (n + 1)..((n + 1) - 1) : FALSE
  OBVIOUS
<1> QED
  BY <1>1 DEF Prefer

LEMMA PreferNext ==
    ASSUME NEW r, NEW s, NEW n \in Nat, NEW L \in Nat, L = Len(r.segs),
           Route!Rank(r.segs[n + 1]) = Route!Rank(s.segs[n + 1]), Prefer(r, s, n + 1)
    PROVE  Prefer(r, s, n)
<1>1. PICK i \in ((n + 1) + 1)..L :
         /\ i <= Len(s.segs) /\ Route!Rank(r.segs[i]) < Route!Rank(s.segs[i])
         /\ \A j \in ((n + 1) + 1)..(i - 1) : Route!Rank(r.segs[j]) = Route!Rank(s.segs[j])
  BY DEF Prefer
<1>2. i \in (n + 1)..L /\ \A j \in (n + 1)..(i - 1) : j = n + 1 \/ j \in ((n + 1) + 1)..(i - 1)
  BY <1>1
<1>3. \A j \in (n + 1)..(i - 1) : Route!Rank(r.segs[j]) = Route!Rank(s.segs[j])
  BY <1>1, <1>2
<1> QED
  BY <1>1, <1>2, <1>3 DEF Prefer

\* What the search wrote below a child it wrote below the node.
LEMMA WithinNext ==
    ASSUME NEW t, NEW C, Class(C), TreeOf(t, C), NEW m, Node(m), NEW x, NEW w, Within(t, Append(m, x), w)
    PROVE  Within(t, m, w)
<1>1. PICK n \in Nat : n = Len(m)
  BY LenNode
<1>2. Len(Append(m, x)) = n + 1
  BY <1>1, AppendIs
<1>3. ASSUME NEW y \in DOMAIN w  PROVE  \E e \in Entries(t) : Leads(m, e) /\ y \in Bound(e, n)
  <2>1. PICK e \in Entries(t) : Leads(Append(m, x), e) /\ y \in Bound(e, n + 1)
    BY <1>2 DEF Within
  <2>2. PICK L \in Nat : L = Len(e.segs) /\ e \in Routes
    BY EntryIs, RouteSegs
  <2>3. Leads(m, e) /\ n + 1 \in 1..L
    BY <1>1, <2>1, <2>2, LeadsNext
  <2>4. y \in Bound(e, n)
    BY <2>1, <2>2, <2>3, NamesNext
  <2> QED
    BY <2>3, <2>4
<1> QED
  BY <1>1, <1>3 DEF Within

CaughtAt(t, p, m, x) ==
    IF Append(m, KindEdge("*")) \in DOMAIN t /\ t[Append(m, KindEdge("*"))].entry # Route!noEntry
    THEN [entry   |-> t[Append(m, KindEdge("*"))].entry,
          written |-> Route!Over(Route!Write(t[Append(m, KindEdge("*"))].name,
                                             Route!Kept(SubSeq(p, Len(m) + 1, Len(p)))), x)]
    ELSE [entry |-> Route!noEntry, written |-> x]

LEMMA OverIs ==
    ASSUME NEW u, NEW v
    PROVE  /\ DOMAIN Route!Over(u, v) = DOMAIN u \cup DOMAIN v
           /\ \A x \in DOMAIN u : Route!Over(u, v)[x] = u[x]
           /\ \A x \in DOMAIN v : x \notin DOMAIN u => Route!Over(u, v)[x] = v[x]
  BY DEF Route!Over

LEMMA WriteIs ==
    ASSUME NEW x, NEW v
    PROVE  DOMAIN Route!Write(x, v) = {x} /\ Route!Write(x, v)[x] = v
  BY DEF Route!Write

LEMMA ValueIs ==
    ASSUME NEW v
    PROVE  Route!Kept(v).kept /\ Route!Kept(v).value = v /\ ~ Route!Deleted.kept
  BY DEF Route!Kept, Route!Deleted

\* The catch-all, when nothing else is left.
LEMMA CaughtGood ==
    ASSUME NEW t, NEW C, Class(C), TreeOf(t, C), NEW p, Len(p) \in Nat, NEW m \in DOMAIN t,
           NEW x, Drops(x), Within(t, m, x),
           \A e : e \in Reach(t, p, m) <=> e \in Entries(t) /\ Leads(Append(m, KindEdge("*")), e)
    PROVE  Good(t, p, m, CaughtAt(t, p, m, x))
<1>1. PICK n \in Nat : n = Len(m) /\ Node(m)
  BY TreeNode, LenNode
<1>2. PICK w : w = Append(m, KindEdge("*"))
  OBVIOUS
<1>3. PICK s : s = CaughtAt(t, p, m, x)
  OBVIOUS
<1>4. CASE w \notin DOMAIN t
  <2>1. s.entry = Route!noEntry /\ s.written = x
    BY <1>2, <1>3, <1>4 DEF CaughtAt
  <2>2. Reach(t, p, m) = {}
    BY <1>1, <1>2, <1>4, AtWild
  <2> QED
    BY <1>3, <2>1, <2>2 DEF Good
<1>5. CASE w \in DOMAIN t
  <2>1. PICK e : e = t[w].entry /\ e \in Entries(t) /\ e # Route!noEntry /\ Leads(w, e)
    BY <1>1, <1>2, <1>5, WildHas
  <2>2. PICK L \in Nat : L = Len(e.segs) /\ e \in Routes
    BY <2>1, EntryIs, RouteSegs
  <2>3. /\ n + 1 = L /\ n + 1 \in 1..L /\ e.segs[n + 1].kind = "*"
        /\ t[w].name = e.segs[n + 1].name /\ Leads(m, e)
    BY <1>1, <1>2, <2>1, <2>2, AtWild
  <2>4. PICK v : v = SubSeq(p, n + 1, Len(p))
    OBVIOUS
  <2>5. PICK nm : nm = t[w].name
    OBVIOUS
  <2>c. PICK kv : kv = Route!Kept(v)
    OBVIOUS
  <2>d. PICK ww : ww = Route!Write(nm, kv)
    OBVIOUS
  <2>e. DOMAIN ww = {nm} /\ ww[nm] = kv
    BY <2>d, WriteIs
  <2>6. PICK wr : wr = Route!Over(ww, x)
    OBVIOUS
  <2>7. s.entry = e /\ s.written = wr
    <3>1. SubSeq(p, Len(m) + 1, Len(p)) = v
      BY <1>1, <2>4
    <3>2. s = [entry |-> t[w].entry, written |-> Route!Over(Route!Write(t[w].name, Route!Kept(SubSeq(p, Len(m) + 1, Len(p)))), x)]
      BY <1>2, <1>3, <1>5, <2>1 DEF CaughtAt
    <3>3. s = [entry |-> e, written |-> wr]
      BY <2>1, <2>5, <2>c, <2>d, <2>6, <3>1, <3>2
    <3> QED
      BY <3>3
  <2>f. /\ DOMAIN wr = DOMAIN ww \cup DOMAIN x
        /\ \A y \in DOMAIN ww : wr[y] = ww[y]
        /\ \A y \in DOMAIN x : y \notin DOMAIN ww => wr[y] = x[y]
    BY ONLY <2>6 DEF Route!Over
  <2>8. DOMAIN wr = {nm} \cup DOMAIN x
    BY <2>e, <2>f
  <2>9. wr[nm] = Route!Kept(v)
    BY <2>c, <2>e, <2>f
  <2>10. \A y \in DOMAIN x : y # nm => wr[y] = x[y]
    BY <2>e, <2>f
  <2>11. wr[nm].kept /\ wr[nm].value = v
    BY <2>9, ValueIs
  <2>12. nm \in Bound(e, n)
    BY <2>2, <2>3, <2>5, NamesNext
  <2>13. Writes(e, p, n, wr)
    <3>1. ASSUME NEW y \in DOMAIN wr, wr[y].kept  PROVE  y \in Bound(e, n)
      <4>1. y # nm => FALSE
        BY <2>8, <2>10, <3>1 DEF Drops
      <4> QED
        BY <2>12, <4>1
    <3>2. ASSUME NEW i \in (n + 1)..L
          PROVE  e.segs[i].name \in DOMAIN wr /\ wr[e.segs[i].name].kept /\ wr[e.segs[i].name].value = ValueAt(e, p, i)
      <4>1. i = n + 1
        BY <2>3
      <4>2. ValueAt(e, p, i) = v
        BY <2>3, <2>4, <4>1 DEF ValueAt
      <4> QED
        BY <2>3, <2>5, <2>8, <2>11, <4>1, <4>2
    <3> QED
      BY <2>2, <3>1, <3>2 DEF Writes
  <2>14. Within(t, m, wr)
    <3>1. ASSUME NEW y \in DOMAIN wr  PROVE  \E g \in Entries(t) : Leads(m, g) /\ y \in Bound(g, n)
      <4>1. CASE y = nm
        BY <2>1, <2>3, <2>12, <4>1
      <4>2. CASE y # nm
        BY <1>1, <2>8, <4>2 DEF Within
      <4> QED
        BY <4>1, <4>2
    <3> QED
      BY <1>1, <3>1 DEF Within
  <2>15. e \in Reach(t, p, m) /\ \A r \in Reach(t, p, m) : r = e
    <3>1. ASSUME NEW r \in Reach(t, p, m)  PROVE  r = e
      <4>1. r \in Entries(t) /\ Leads(w, r)
        BY <1>2
      <4> QED
        BY <1>1, <1>2, <2>1, <4>1, AtWild
    <3> QED
      BY <1>2, <2>1, <3>1
  <2> QED
    BY <1>1, <1>3, <2>1, <2>7, <2>13, <2>14, <2>15 DEF Good
<1> QED
  BY <1>4, <1>5

\* The child of the path's segment comes first.
LEMMA ChildGood ==
    ASSUME NEW t, NEW C, Class(C), TreeOf(t, C), NEW p, Len(p) \in Nat, NEW m \in DOMAIN t, Visited(p, m),
           NEW h, h = Len(m) + 1, h <= Len(p), p[h] # "",
           NEW c, c = Append(m, StaticEdge(p[h])), NEW s, Good(t, p, c, s), s.entry # Route!noEntry
    PROVE  Good(t, p, m, s)
<1>1. PICK n \in Nat : n = Len(m) /\ Node(m) /\ h = n + 1
  BY TreeNode, LenNode
<1>2. c = Append(m, StaticEdge(p[h])) /\ Len(c) = h
  BY <1>1, AppendIs
<1>3. PICK e : e = s.entry
  OBVIOUS
<1>4. /\ e \in Reach(t, p, c) /\ Writes(e, p, h, s.written) /\ Within(t, c, s.written)
      /\ \A r \in Reach(t, p, c) : r # e => Prefer(e, r, h)
  BY <1>2, <1>3 DEF Good
<1>5. e \in Entries(t) /\ Leads(c, e)
  BY <1>4 DEF Reach
<1>6. PICK L \in Nat : L = Len(e.segs) /\ e \in Routes
  BY <1>5, EntryIs, RouteSegs
<1>7. h \in 1..L /\ e.segs[h].kind = "static"
  <2>1. PICK x : x = p[h]
    OBVIOUS
  <2>2. Leads(Append(m, StaticEdge(x)), e)
    BY <1>2, <1>5, <2>1
  <2>3. Len(m) + 1 \in 1..Len(e.segs) /\ e.segs[Len(m) + 1].kind = "static"
    BY <1>1, <1>6, <2>2, LeadsStatic
  <2> QED
    BY <1>1, <1>6, <2>3
<1>8. e \in Reach(t, p, m)
  BY <1>1, <1>2, <1>4, ReachOn
<1>9. Writes(e, p, n, s.written)
  <2>1. ASSUME NEW y \in DOMAIN s.written, s.written[y].kept  PROVE  y \in Bound(e, n)
    <3>1. y \in Bound(e, h)
      BY <1>4, <2>1 DEF Writes
    <3> QED
      BY <1>1, <1>6, <1>7, <3>1, NamesNext
  <2>2. ASSUME NEW i \in (n + 1)..L, e.segs[i].kind # "static"  PROVE  i \in (h + 1)..L
    <3>1. i # h
      BY <1>7, <2>2
    <3>2. i # n + 1
      BY <1>1, <3>1
    <3>3. i \in ((n + 1) + 1)..L
      BY <3>2, OneOn
    <3> QED
      BY <1>1, <3>3
  <2> QED
    BY <1>4, <1>6, <2>1, <2>2 DEF Writes
<1>10. Within(t, m, s.written)
  BY <1>1, <1>2, <1>4, WithinNext
<1>11. ASSUME NEW r \in Reach(t, p, m), r # e  PROVE  Prefer(e, r, n)
  <2>1. Route!Rank(e.segs[h]) = 1
    BY <1>7, RankIs
  <2>2. PICK K \in Nat : K = Len(r.segs) /\ r \in Routes /\ r \in Entries(t)
    BY EntryIs, RouteSegs DEF Reach
  <2>3. CASE r \in Reach(t, p, c)
    <3>1. Leads(Append(m, StaticEdge(p[h])), r)
      BY <1>2, <2>3 DEF Reach
    <3>x. Len(m) + 1 \in 1..Len(r.segs) /\ r.segs[Len(m) + 1].kind = "static"
      BY <1>1, <2>2, <3>1, LeadsStatic
    <3>2. h \in 1..K /\ r.segs[h].kind = "static"
      BY <1>1, <2>2, <3>x
    <3>3. Route!Rank(r.segs[h]) = 1
      BY <3>2, RankIs
    <3>4. Prefer(e, r, h)
      BY <1>4, <1>11, <2>3
    <3>5. Route!Rank(e.segs[n + 1]) = Route!Rank(r.segs[n + 1]) /\ Prefer(e, r, n + 1)
      BY <1>1, <2>1, <3>3, <3>4
    <3> QED
      BY <1>6, <3>5, PreferNext
  <2>4. CASE r \in Reach(t, p, Append(m, KindEdge(":")))
    <3>1. Leads(Append(m, KindEdge(":")), r) /\ ":" \in {":", "*"}
      BY <2>4 DEF Reach
    <3>2. h \in 1..K /\ r.segs[h].kind = ":"
      BY <1>1, <2>2, <3>1, LeadsKind
    <3>3. Route!Rank(r.segs[h]) = 2
      BY <3>2, RankIs
    <3>a. Route!Rank(e.segs[n + 1]) = 1 /\ Route!Rank(r.segs[n + 1]) = 2
      BY <1>1, <2>1, <3>3
    <3>b. Route!Rank(e.segs[n + 1]) < Route!Rank(r.segs[n + 1])
      BY ONLY <3>a
    <3>4. n + 1 \in 1..L /\ n + 1 \in 1..K /\ Route!Rank(e.segs[n + 1]) < Route!Rank(r.segs[n + 1])
      BY <1>1, <1>7, <3>2, <3>b
    <3> QED
      BY <1>1, <1>6, <2>2, <3>4, PreferNow
  <2>5. CASE Leads(Append(m, KindEdge("*")), r)
    <3>1. "*" \in {":", "*"}
      OBVIOUS
    <3>x. Len(m) + 1 \in 1..Len(r.segs) /\ r.segs[Len(m) + 1].kind = "*"
      BY <1>1, <2>2, <2>5, <3>1, LeadsKind
    <3>2. h \in 1..K /\ r.segs[h].kind = "*"
      BY <1>1, <2>2, <3>x
    <3>3. Route!Rank(r.segs[h]) = 3
      BY <3>2, RankIs
    <3>a. Route!Rank(e.segs[n + 1]) = 1 /\ Route!Rank(r.segs[n + 1]) = 3
      BY <1>1, <2>1, <3>3
    <3>b. Route!Rank(e.segs[n + 1]) < Route!Rank(r.segs[n + 1])
      BY ONLY <3>a
    <3>4. n + 1 \in 1..L /\ n + 1 \in 1..K /\ Route!Rank(e.segs[n + 1]) < Route!Rank(r.segs[n + 1])
      BY <1>1, <1>7, <3>2, <3>b
    <3> QED
      BY <1>1, <1>6, <2>2, <3>4, PreferNow
  <2> QED
    BY <1>1, <1>2, <2>3, <2>4, <2>5, ReachOn
<1> QED
  BY <1>1, <1>3, <1>8, <1>9, <1>10, <1>11 DEF Good

\* The parameter comes next, and hides what the child left.
ByParamAt(t, p, m, f, b) ==
    Route!Over(f.written,
               Route!Over(Route!Write(t[Append(m, KindEdge(":"))].name, Route!Kept(p[Len(m) + 1])), b))

\* The parameter's name is the one of every route that passes it, and of no node below.
ParamNamed(t, m, q, e) ==
    /\ q \in DOMAIN t /\ Len(m) + 1 \in 1..Len(e.segs) /\ Leads(m, e)
    /\ e.segs[Len(m) + 1].kind = ":" /\ e.segs[Len(m) + 1].name = t[q].name
    /\ \A g \in Entries(t) : Leads(q, g) => t[q].name \notin Bound(g, Len(m) + 1)

LEMMA ParamName ==
    ASSUME NEW t, NEW C, Class(C), TreeOf(t, C), NEW m, Node(m),
           NEW q, q = Append(m, KindEdge(":")), NEW e \in Entries(t), Leads(q, e)
    PROVE  ParamNamed(t, m, q, e)
<1>1. PICK n \in Nat : n = Len(m)
  BY LenNode
<1>2. q # <<>> /\ Len(q) = n + 1 /\ Node(q)
  BY <1>1, AppendIs
<1>3. e \in Routes /\ ":" \in {":", "*"}
  BY EntryIs
<1>4. Leads(m, e) /\ Len(m) + 1 \in 1..Len(e.segs) /\ e.segs[Len(m) + 1].kind = ":"
  BY <1>3, LeadsKind
<1>5. q \in DOMAIN t /\ t[q].name = e.segs[n + 1].name
  <2>1. q \in DOMAIN t /\ t[q].name = e.segs[Len(q)].name
    BY <1>2, OnTheWay
  <2> QED
    BY <1>2, <2>1
<1>6. ASSUME NEW g \in Entries(t), Leads(q, g), t[q].name \in Bound(g, n + 1)  PROVE  FALSE
  <2>1. PICK K \in Nat : K = Len(g.segs) /\ g \in Routes
    BY EntryIs, RouteSegs
  <2>2. PICK j \in ((n + 1) + 1)..K : g.segs[j].kind # "static" /\ t[q].name = g.segs[j].name
    BY <1>6, <2>1 DEF Bound
  <2>3. PICK i : i = n + 1 /\ i \in Nat
    OBVIOUS
  <2>4. i \in 1..Len(e.segs) /\ e.segs[i].kind # "static" /\ e.segs[i].name = t[q].name
    BY <1>1, <1>4, <1>5, <2>3
  <2>5. j \in 1..Len(g.segs) /\ i < j
    BY <2>1, <2>3
  <2>6. q = Route!Stem(e, i) /\ q = Route!Stem(g, i)
    BY <1>2, <1>6, <2>3 DEF Leads
  <2> QED
    BY <1>3, <2>1, <2>2, <2>4, <2>5, <2>6, OtherName
<1> QED
  BY <1>1, <1>4, <1>5, <1>6 DEF ParamNamed

ByParamRight(t, p, m, f, b, q, w) ==
    /\ DOMAIN w = DOMAIN f.written \cup {t[q].name} \cup DOMAIN b
    /\ \A x \in DOMAIN f.written : w[x] = f.written[x]
    /\ t[q].name \notin DOMAIN f.written => w[t[q].name] = Route!Kept(p[Len(m) + 1])
    /\ \A x \in DOMAIN b : x \notin DOMAIN f.written /\ x # t[q].name => w[x] = b[x]

LEMMA ByParamIs ==
    ASSUME NEW t, NEW p, NEW m, NEW f, NEW b, NEW q, q = Append(m, KindEdge(":")), NEW w, w = ByParamAt(t, p, m, f, b)
    PROVE  ByParamRight(t, p, m, f, b, q, w)
<1>1. PICK nm : nm = t[q].name
  OBVIOUS
<1>2. PICK kv : kv = Route!Kept(p[Len(m) + 1])
  OBVIOUS
<1>3. PICK wr : wr = Route!Write(nm, kv) /\ DOMAIN wr = {nm} /\ wr[nm] = kv
  BY WriteIs
<1>4. PICK o : o = Route!Over(wr, b)
  OBVIOUS
<1>5. PICK fw : fw = f.written
  OBVIOUS
<1>6. w = Route!Over(fw, o)
  BY <1>1, <1>2, <1>3, <1>4, <1>5 DEF ByParamAt
<1>7. /\ DOMAIN o = DOMAIN wr \cup DOMAIN b /\ \A x \in DOMAIN wr : o[x] = wr[x]
      /\ \A x \in DOMAIN b : x \notin DOMAIN wr => o[x] = b[x]
  BY ONLY <1>4 DEF Route!Over
<1>8. /\ DOMAIN w = DOMAIN fw \cup DOMAIN o /\ \A x \in DOMAIN fw : w[x] = fw[x]
      /\ \A x \in DOMAIN o : x \notin DOMAIN fw => w[x] = o[x]
  BY ONLY <1>6 DEF Route!Over
<1>9. /\ DOMAIN w = DOMAIN fw \cup {nm} \cup DOMAIN b
      /\ \A x \in DOMAIN fw : w[x] = fw[x]
      /\ nm \notin DOMAIN fw => w[nm] = kv
      /\ \A x \in DOMAIN b : x \notin DOMAIN fw /\ x # nm => w[x] = b[x]
  BY ONLY <1>3, <1>7, <1>8
<1> QED
  BY <1>1, <1>2, <1>5, <1>9 DEF ByParamRight

LEMMA ParamGood ==
    ASSUME NEW t, NEW C, Class(C), TreeOf(t, C), NEW p, Len(p) \in Nat, NEW m \in DOMAIN t, Visited(p, m),
           NEW h, h = Len(m) + 1, h <= Len(p), p[h] # "",
           NEW q, q = Append(m, KindEdge(":")), NEW f, Good(t, p, q, f), f.entry # Route!noEntry,
           NEW b, Drops(b), Within(t, m, b), Reach(t, p, Append(m, StaticEdge(p[h]))) = {},
           NEW s, s.entry = f.entry, s.written = ByParamAt(t, p, m, f, b)
    PROVE  Good(t, p, m, s)
<1>1. PICK n \in Nat : n = Len(m) /\ Node(m) /\ h = n + 1
  BY TreeNode, LenNode
<1>2. Len(q) = h
  BY <1>1, AppendIs
<1>3. PICK e : e = f.entry
  OBVIOUS
<1>4. /\ e \in Reach(t, p, q) /\ Writes(e, p, h, f.written) /\ Within(t, q, f.written)
      /\ \A r \in Reach(t, p, q) : r # e => Prefer(e, r, h)
  BY <1>2, <1>3 DEF Good
<1>5. e \in Entries(t) /\ Leads(q, e)
  BY <1>4 DEF Reach
<1>6. PICK L \in Nat : L = Len(e.segs) /\ e \in Routes
  BY <1>5, EntryIs, RouteSegs
<1>7. PICK nm : nm = t[q].name
  OBVIOUS
<1>8. /\ h \in 1..L /\ e.segs[h].kind = ":" /\ e.segs[h].name = nm /\ Leads(m, e)
      /\ \A g \in Entries(t) : Leads(q, g) => nm \notin Bound(g, h)
  <2>1. ParamNamed(t, m, q, e)
    BY <1>1, <1>5, ParamName
  <2> QED
    BY <1>1, <1>6, <1>7, <2>1 DEF ParamNamed
<1>9. e \in Reach(t, p, m)
  BY <1>1, <1>4, ReachOn
<1>10. PICK w : w = ByParamAt(t, p, m, f, b)
  OBVIOUS
<1>11. PICK fw : fw = f.written
  OBVIOUS
<1>12. nm \notin DOMAIN fw
  BY <1>2, <1>4, <1>8, <1>11 DEF Within
<1>13. /\ DOMAIN w = DOMAIN fw \cup {nm} \cup DOMAIN b
       /\ \A x \in DOMAIN fw : w[x] = fw[x]
       /\ w[nm] = Route!Kept(p[h])
       /\ \A x \in DOMAIN b : x \notin DOMAIN fw /\ x # nm => w[x] = b[x]
  <2>1. ByParamRight(t, p, m, f, b, q, w)
    BY <1>10, ByParamIs
  <2>2. p[Len(m) + 1] = p[h]
    OBVIOUS
  <2> QED
    BY <1>7, <1>11, <1>12, <2>1, <2>2 DEF ByParamRight
<1>14. w[nm].kept /\ w[nm].value = p[h]
  BY <1>13, ValueIs
<1>15. \A x : x \in Bound(e, n) <=> x \in Bound(e, h) \/ x = nm
  <2>1. n + 1 \in 1..L /\ e.segs[n + 1].kind # "static" /\ e.segs[n + 1].name = nm
    BY <1>1, <1>8
  <2>2. \A x : x \in Bound(e, n) <=> x \in Bound(e, n + 1) \/ (e.segs[n + 1].kind # "static" /\ x = e.segs[n + 1].name)
    BY <1>6, <2>1, NamesNext
  <2> QED
    BY <1>1, <2>1, <2>2
<1>16. Writes(e, p, n, w)
  <2>1. ASSUME NEW y \in DOMAIN w, w[y].kept  PROVE  y \in Bound(e, n)
    <3>1. CASE y = nm
      BY <1>15, <3>1
    <3>2. CASE y \in DOMAIN fw
      <4>1. y \in Bound(e, h)
        BY <1>4, <1>11, <1>13, <2>1, <3>2 DEF Writes
      <4> QED
        BY <1>15, <4>1
    <3>3. CASE y \notin DOMAIN fw /\ y # nm
      <4>1. y \in DOMAIN b /\ w[y] = b[y]
        BY <1>13, <3>3
      <4> QED
        BY <2>1, <4>1 DEF Drops
    <3> QED
      BY <3>1, <3>2, <3>3
  <2>2. ASSUME NEW i \in (n + 1)..L, e.segs[i].kind # "static"
        PROVE  e.segs[i].name \in DOMAIN w /\ w[e.segs[i].name].kept /\ w[e.segs[i].name].value = ValueAt(e, p, i)
    <3>1. CASE i = n + 1
      <4>1. i = h /\ e.segs[i].name = nm /\ e.segs[i].kind = ":"
        BY <1>1, <1>8, <3>1
      <4>2. ValueAt(e, p, i) = p[h]
        BY <4>1 DEF ValueAt
      <4> QED
        BY <1>13, <1>14, <4>1, <4>2
    <3>2. CASE i # n + 1
      <4>1. i \in ((n + 1) + 1)..L
        BY <3>2, OneOn
      <4>2. i \in (h + 1)..Len(e.segs)
        BY <1>1, <1>6, <4>1
      <4>3. /\ e.segs[i].name \in DOMAIN fw /\ fw[e.segs[i].name].kept
            /\ fw[e.segs[i].name].value = ValueAt(e, p, i)
        BY <1>4, <1>11, <2>2, <4>2 DEF Writes
      <4> QED
        BY <1>13, <4>3
    <3> QED
      BY <3>1, <3>2
  <2> QED
    BY <1>6, <2>1, <2>2 DEF Writes
<1>17. Within(t, m, w)
  <2>1. Within(t, m, fw)
    BY <1>1, <1>4, <1>11, WithinNext
  <2>2. ASSUME NEW y \in DOMAIN w  PROVE  \E g \in Entries(t) : Leads(m, g) /\ y \in Bound(g, n)
    <3>1. CASE y = nm
      BY <1>5, <1>8, <1>15, <3>1
    <3>2. CASE y \in DOMAIN fw
      BY <1>1, <2>1, <3>2 DEF Within
    <3>3. CASE y \in DOMAIN b
      BY <1>1, <3>3 DEF Within
    <3> QED
      BY <1>13, <3>1, <3>2, <3>3
  <2> QED
    BY <1>1, <2>2 DEF Within
<1>18. ASSUME NEW r \in Reach(t, p, m), r # e  PROVE  Prefer(e, r, n)
  <2>1. Route!Rank(e.segs[n + 1]) = 2
    BY <1>1, <1>8, RankIs
  <2>2. PICK K \in Nat : K = Len(r.segs) /\ r \in Routes /\ r \in Entries(t)
    BY EntryIs, RouteSegs DEF Reach
  <2>3. r \in Reach(t, p, q) \/ Leads(Append(m, KindEdge("*")), r)
    BY <1>1, ReachOn
  <2>4. CASE r \in Reach(t, p, q)
    <3>1. Leads(Append(m, KindEdge(":")), r) /\ ":" \in {":", "*"}
      BY <2>4 DEF Reach
    <3>2. r.segs[Len(m) + 1].kind = ":"
      BY <1>1, <2>2, <3>1, LeadsKind
    <3>3. Route!Rank(r.segs[n + 1]) = 2
      BY <1>1, <3>2, RankIs
    <3>4. Prefer(e, r, n + 1)
      BY <1>1, <1>4, <1>18, <2>4
    <3>5. Route!Rank(e.segs[n + 1]) = Route!Rank(r.segs[n + 1])
      BY <2>1, <3>3
    <3> QED
      BY <1>6, <3>4, <3>5, PreferNext
  <2>5. CASE Leads(Append(m, KindEdge("*")), r)
    <3>1. "*" \in {":", "*"}
      OBVIOUS
    <3>2. Len(m) + 1 \in 1..Len(r.segs) /\ r.segs[Len(m) + 1].kind = "*"
      BY <1>1, <2>2, <2>5, <3>1, LeadsKind
    <3>3. n + 1 \in 1..K /\ Route!Rank(r.segs[n + 1]) = 3
      BY <1>1, <2>2, <3>2, RankIs
    <3>4. Route!Rank(e.segs[n + 1]) < Route!Rank(r.segs[n + 1])
      BY ONLY <2>1, <3>3
    <3>5. n + 1 \in 1..L
      BY <1>1, <1>8
    <3> QED
      BY <1>6, <2>2, <3>3, <3>4, <3>5, PreferNow
  <2> QED
    BY <2>3, <2>4, <2>5
<1> QED
  BY <1>1, <1>3, <1>9, <1>10, <1>16, <1>17, <1>18 DEF Good

ByChildAt(t, p, f, m) ==
    IF p[Len(m) + 1] # "" /\ Append(m, StaticEdge(p[Len(m) + 1])) \in DOMAIN t
    THEN f[Append(m, StaticEdge(p[Len(m) + 1]))]
    ELSE [entry |-> Route!noEntry, written |-> Route!nothing]

FindInCases(t, p, f, m, h, q, b, s) ==
    /\ h > Len(p) /\ t[m].entry # Route!noEntry => s = [entry |-> t[m].entry, written |-> Route!nothing]
    /\ h > Len(p) /\ t[m].entry = Route!noEntry => s = CaughtAt(t, p, m, Route!nothing)
    /\ ~ (h > Len(p)) /\ b.entry # Route!noEntry => s = b
    /\ ~ (h > Len(p)) /\ b.entry = Route!noEntry /\ (p[h] = "" \/ q \notin DOMAIN t)
          => s = CaughtAt(t, p, m, b.written)
    /\ ~ (h > Len(p)) /\ b.entry = Route!noEntry /\ p[h] # "" /\ q \in DOMAIN t
          => IF f[q].entry # Route!noEntry
             THEN s = [entry |-> f[q].entry, written |-> ByParamAt(t, p, m, f[q], b.written)]
             ELSE s = CaughtAt(t, p, m, Route!Over(Route!Write(t[q].name, Route!Deleted),
                                                   ByParamAt(t, p, m, f[q], b.written)))

LEMMA FindInIs ==
    ASSUME NEW t, NEW p, NEW f, NEW m, NEW h, h = Len(m) + 1, NEW q, q = Append(m, KindEdge(":")),
           NEW b, b = ByChildAt(t, p, f, m), NEW s, s = Route!findIn(t, p, f, m)
    PROVE  FindInCases(t, p, f, m, h, q, b, s)
<1>1. s = IF Len(m) + 1 > Len(p)
               THEN IF t[m].entry # Route!noEntry THEN [entry |-> t[m].entry, written |-> Route!nothing]
                    ELSE CaughtAt(t, p, m, Route!nothing)
               ELSE IF b.entry # Route!noEntry THEN b
               ELSE IF p[Len(m) + 1] = "" \/ q \notin DOMAIN t THEN CaughtAt(t, p, m, b.written)
               ELSE IF f[q].entry # Route!noEntry
                    THEN [entry |-> f[q].entry, written |-> ByParamAt(t, p, m, f[q], b.written)]
               ELSE CaughtAt(t, p, m, Route!Over(Route!Write(t[q].name, Route!Deleted),
                                                 ByParamAt(t, p, m, f[q], b.written)))
  BY DEF Route!findIn, CaughtAt, ByParamAt, ByChildAt, StaticEdge, KindEdge
<1> QED
  BY <1>1 DEF FindInCases

LEMMA NothingIs == DOMAIN Route!nothing = {}
  BY DEF Route!nothing

\* One node, when its children were searched rightly.
LEMMA SearchStep ==
    ASSUME NEW t, NEW C, Class(C), TreeOf(t, C), NEW p, Len(p) \in Nat, NEW m \in DOMAIN t, Visited(p, m),
           NEW f, \A x \in DOMAIN t : Visited(p, x) /\ Len(x) = Len(m) + 1 => Good(t, p, x, f[x])
    PROVE  Good(t, p, m, Route!findIn(t, p, f, m))
<1>1. PICK n \in Nat : n = Len(m) /\ Node(m) /\ n <= Len(p)
  BY TreeNode, LenNode DEF Visited
<1>2. PICK h : h = Len(m) + 1
  OBVIOUS
<1>3. PICK c : c = Append(m, StaticEdge(p[h]))
  OBVIOUS
<1>4. PICK q : q = Append(m, KindEdge(":"))
  OBVIOUS
<1>5. PICK b : b = ByChildAt(t, p, f, m)
  OBVIOUS
<1>6. PICK s : s = Route!findIn(t, p, f, m)
  OBVIOUS
<1>7. PICK none : none = Route!nothing /\ DOMAIN none = {}
  BY NothingIs
<1>8. Drops(none) /\ Within(t, m, none)
  BY <1>7 DEF Drops, Within
<1>c. FindInCases(t, p, f, m, h, q, b, s)
  BY <1>2, <1>4, <1>5, <1>6, FindInIs
<1>9. CASE h > Len(p)
  <2>1. Len(m) = Len(p)
    BY <1>1, <1>2, <1>9
  <2>2. \A e : e \in Reach(t, p, m) <=> e \in Entries(t) /\ (m = Route!NodeOf(e) \/ Leads(Append(m, KindEdge("*")), e))
    BY <2>1, ReachEnd
  <2>3. s = IF t[m].entry # Route!noEntry THEN [entry |-> t[m].entry, written |-> none] ELSE CaughtAt(t, p, m, none)
    BY <1>7, <1>9, <1>c DEF FindInCases
  <2>4. CASE t[m].entry = Route!noEntry
    <3>1. \A e : e \in Reach(t, p, m) <=> e \in Entries(t) /\ Leads(Append(m, KindEdge("*")), e)
      BY <2>2, <2>4, EntryIs
    <3> QED
      BY <1>6, <1>8, <2>3, <2>4, <3>1, CaughtGood
  <2>5. CASE t[m].entry # Route!noEntry
    <3>1. PICK e : e = t[m].entry /\ e \in Entries(t) /\ m = Route!NodeOf(e)
      BY <2>5 DEF Entries, TreeOf
    <3>2. PICK L \in Nat : L = Len(e.segs) /\ e \in Routes /\ Len(m) = L /\ m # <<>>
      BY <3>1, EntryIs, RouteSegs
    <3>3. s.entry = e /\ s.written = none
      BY <2>3, <2>5, <3>1
    <3>4. Writes(e, p, n, none)
      BY <1>1, <1>7, <3>2 DEF Writes
    <3>5. ASSUME NEW r \in Reach(t, p, m)  PROVE  r = e
      <4>1. r \in Entries(t)
        BY <2>2
      <4>2. CASE m = Route!NodeOf(r)
        BY <3>1, <4>1, <4>2, EntryIs
      <4>3. CASE Leads(Append(m, KindEdge("*")), r)
        <5>1. PICK K \in Nat : K = Len(r.segs) /\ r \in Routes
          BY <4>1, EntryIs, RouteSegs
        <5>2. n + 1 = K /\ HasWild(r)
          BY <1>1, <4>1, <4>3, <5>1, AtWild, WildIs
        <5>3. ~ HasWild(e)
          <6>1. Leads(m, e)
            <7>1. Len(m) \in 0..Len(e.segs)
              BY <3>2
            <7> QED
              BY <3>1, <3>2, <7>1 DEF Leads, Route!NodeOf
          <6> QED
            BY <1>1, <3>2, <6>1, VisitedKind, WildIs
        <5>4. e \in C /\ r \in C
          BY <3>1, <4>1, EntryIs
        <5> QED
          BY <5>2, <5>3, <5>4 DEF Class, Parameters, CatchAlls
      <4> QED
        BY <2>2, <4>2, <4>3
    <3>6. e \in Reach(t, p, m)
      BY <2>2, <3>1
    <3>7. e # Route!noEntry
      BY <2>5, <3>1
    <3> QED
      BY <1>1, <1>6, <1>8, <3>3, <3>4, <3>5, <3>6, <3>7 DEF Good
  <2> QED
    BY <2>4, <2>5
<1>10. CASE ~ (h > Len(p))
  <2>1. h <= Len(p)
    BY <1>1, <1>2, <1>10
  <2>2. \A e : e \in Reach(t, p, m) <=>
           \/ e \in Reach(t, p, c) /\ p[h] # ""
           \/ e \in Reach(t, p, q) /\ p[h] # ""
           \/ e \in Entries(t) /\ Leads(Append(m, KindEdge("*")), e)
    <3>1. \A e : e \in Reach(t, p, m) <=>
              \/ e \in Reach(t, p, Append(m, StaticEdge(p[h]))) /\ p[h] # ""
              \/ e \in Reach(t, p, Append(m, KindEdge(":"))) /\ p[h] # ""
              \/ e \in Entries(t) /\ Leads(Append(m, KindEdge("*")), e)
      BY <1>2, <2>1, ReachOn
    <3>2. Reach(t, p, c) = Reach(t, p, Append(m, StaticEdge(p[h])))
      BY <1>3
    <3>3. Reach(t, p, q) = Reach(t, p, Append(m, KindEdge(":")))
      BY <1>4
    <3> QED
      BY ONLY <3>1, <3>2, <3>3
  <2>3. Node(c) /\ c # <<>> /\ Len(c) = Len(m) + 1 /\ Visited(p, c)
    <3>1. PICK x : x = StaticEdge(p[h])
      OBVIOUS
    <3>2. x.kind # "*"
      BY <3>1 DEF StaticEdge
    <3>3. c = Append(m, x) /\ Len(m) + 1 <= Len(p)
      BY <1>2, <1>3, <2>1, <3>1
    <3> QED
      BY <1>1, <3>2, <3>3, VisitedNext, AppendIs
  <2>4. Node(q) /\ q # <<>> /\ Len(q) = Len(m) + 1 /\ Visited(p, q)
    <3>1. PICK x : x = KindEdge(":")
      OBVIOUS
    <3>2. x.kind # "*"
      BY <3>1 DEF KindEdge
    <3>3. q = Append(m, x) /\ Len(m) + 1 <= Len(p)
      BY <1>2, <1>4, <2>1, <3>1
    <3> QED
      BY <1>1, <3>2, <3>3, VisitedNext, AppendIs
  <2>5. b = IF p[h] # "" /\ c \in DOMAIN t THEN f[c] ELSE [entry |-> Route!noEntry, written |-> none]
    BY <1>2, <1>3, <1>5, <1>7 DEF ByChildAt
  <2>6. c \in DOMAIN t => Good(t, p, c, f[c])
    BY <2>3
  <2>7. q \in DOMAIN t => Good(t, p, q, f[q])
    BY <2>4
  <2>8. PICK w : w = ByParamAt(t, p, m, f[q], b.written)
    OBVIOUS
  <2>9. PICK d : d = Route!Over(Route!Write(t[q].name, Route!Deleted), w)
    OBVIOUS
  <2>10. s = IF b.entry # Route!noEntry THEN b
             ELSE IF p[h] = "" \/ q \notin DOMAIN t THEN CaughtAt(t, p, m, b.written)
             ELSE IF f[q].entry # Route!noEntry THEN [entry |-> f[q].entry, written |-> w]
             ELSE CaughtAt(t, p, m, d)
    BY <1>10, <1>c, <2>8, <2>9 DEF FindInCases
  <2>11. CASE b.entry # Route!noEntry
    <3>1. p[h] # "" /\ c \in DOMAIN t /\ b = f[c]
      BY <2>5, <2>11
    <3>2. Good(t, p, c, b)
      BY <2>6, <3>1
    <3>3. Good(t, p, m, b)
      BY <1>2, <1>3, <2>1, <2>11, <3>1, <3>2, ChildGood
    <3> QED
      BY <1>6, <2>10, <2>11, <3>3
  <2>12. CASE b.entry = Route!noEntry
    <3>1. Drops(b.written) /\ Within(t, m, b.written) /\ (p[h] # "" => Reach(t, p, c) = {})
      <4>1. CASE p[h] # "" /\ c \in DOMAIN t
        <5>1. b = f[c] /\ Good(t, p, c, b)
          BY <2>5, <2>6, <4>1
        <5>2. Drops(b.written) /\ Within(t, c, b.written) /\ Reach(t, p, c) = {}
          BY <2>12, <5>1 DEF Good
        <5> QED
          BY <1>1, <1>3, <5>2, WithinNext
      <4>2. CASE ~ (p[h] # "" /\ c \in DOMAIN t)
        <5>1. b.written = none
          BY <2>5, <4>2
        <5>2. ASSUME p[h] # "", NEW e \in Reach(t, p, c)  PROVE  FALSE
          <6>1. e \in Entries(t) /\ Leads(c, e)
            BY DEF Reach
          <6> QED
            BY <2>3, <4>2, <5>2, <6>1, OnTheWay
        <5> QED
          BY <1>8, <5>1, <5>2
      <4> QED
        BY <4>1, <4>2
    <3>2. CASE p[h] = "" \/ q \notin DOMAIN t
      <4>1. p[h] # "" => Reach(t, p, q) = {}
        <5>1. ASSUME p[h] # "", NEW e \in Reach(t, p, q)  PROVE  FALSE
          <6>1. e \in Entries(t) /\ Leads(q, e)
            BY DEF Reach
          <6> QED
            BY <2>4, <3>2, <5>1, <6>1, OnTheWay
        <5> QED
          BY <5>1
      <4>2. \A e : e \in Reach(t, p, m) <=> e \in Entries(t) /\ Leads(Append(m, KindEdge("*")), e)
        BY <2>2, <3>1, <4>1
      <4>3. s = CaughtAt(t, p, m, b.written)
        BY <2>10, <2>12, <3>2
      <4> QED
        BY <1>6, <3>1, <4>2, <4>3, CaughtGood
    <3>3. CASE p[h] # "" /\ q \in DOMAIN t /\ f[q].entry # Route!noEntry
      <4>1. s.entry = f[q].entry /\ s.written = w
        BY <2>10, <2>12, <3>3
      <4>2. PICK fq : fq = f[q] /\ Good(t, p, q, fq) /\ fq.entry # Route!noEntry
        BY <2>7, <3>3
      <4>3. PICK bw : bw = b.written /\ Drops(bw) /\ Within(t, m, bw)
        BY <3>1
      <4>4. Reach(t, p, Append(m, StaticEdge(p[h]))) = {}
        BY <1>3, <3>1, <3>3
      <4>5. s.entry = fq.entry /\ s.written = ByParamAt(t, p, m, fq, bw)
        BY <2>8, <4>1, <4>2, <4>3
      <4>6. Good(t, p, m, s)
        BY <1>2, <1>4, <2>1, <3>3, <4>2, <4>3, <4>4, <4>5, ParamGood
      <4> QED
        BY <1>6, <4>6
    <3>4. CASE p[h] # "" /\ q \in DOMAIN t /\ f[q].entry = Route!noEntry
      <4>1. s = CaughtAt(t, p, m, d)
        BY <2>10, <2>12, <3>4
      <4>2. PICK fq : fq = f[q] /\ Reach(t, p, q) = {} /\ Drops(fq.written) /\ Within(t, q, fq.written)
        BY <2>7, <3>4 DEF Good
      <4>3. PICK bw : bw = b.written /\ Drops(bw) /\ Within(t, m, bw)
        BY <3>1
      <4>4. PICK nm : nm = t[q].name
        OBVIOUS
      <4>5. w = ByParamAt(t, p, m, fq, bw)
        BY <2>8, <4>2, <4>3
      <4>6. ByParamRight(t, p, m, fq, bw, q, w)
        BY <1>4, <4>5, ByParamIs
      <4>7. PICK del : del = Route!Deleted /\ ~ del.kept
        BY ValueIs
      <4>8. PICK wr : wr = Route!Write(nm, del) /\ DOMAIN wr = {nm} /\ wr[nm] = del
        BY WriteIs
      <4>9. d = Route!Over(wr, w)
        BY <2>9, <4>4, <4>7, <4>8
      <4>10. /\ DOMAIN d = DOMAIN wr \cup DOMAIN w /\ \A x \in DOMAIN wr : d[x] = wr[x]
             /\ \A x \in DOMAIN w : x \notin DOMAIN wr => d[x] = w[x]
        BY ONLY <4>9 DEF Route!Over
      <4>11. Within(t, m, fq.written)
        BY <1>1, <1>4, <4>2, WithinNext
      <4>12. ASSUME NEW y \in DOMAIN d
             PROVE  ~ d[y].kept /\ \E g \in Entries(t) : Leads(m, g) /\ y \in Bound(g, n)
        <5>1. CASE y = nm
          <6>1. ~ d[y].kept
            BY <4>7, <4>8, <4>10, <5>1
          <6>2. PICK e \in Entries(t) : Leads(q, e)
            BY <2>4, <3>4, LeadsSome
          <6>3. ParamNamed(t, m, q, e)
            BY <1>1, <1>4, <6>2, ParamName
          <6>4. PICK L \in Nat : L = Len(e.segs)
            BY EntryIs, RouteSegs
          <6>5. nm \in Bound(e, n) /\ Leads(m, e)
            BY <1>1, <4>4, <6>3, <6>4, NamesNext DEF ParamNamed
          <6> QED
            BY <5>1, <6>1, <6>5
        <5>2. CASE y # nm /\ y \in DOMAIN fq.written
          <6>1. d[y] = w[y] /\ w[y] = fq.written[y]
            BY <4>6, <4>8, <4>10, <5>2 DEF ByParamRight
          <6> QED
            BY <1>1, <4>2, <4>11, <5>2, <6>1 DEF Drops, Within
        <5>3. CASE y # nm /\ y \notin DOMAIN fq.written
          <6>1. y \in DOMAIN bw /\ d[y] = w[y] /\ w[y] = bw[y]
            BY <4>4, <4>6, <4>8, <4>10, <5>3 DEF ByParamRight
          <6> QED
            BY <1>1, <4>3, <6>1 DEF Drops, Within
        <5> QED
          BY <5>1, <5>2, <5>3
      <4>13. Drops(d) /\ Within(t, m, d)
        BY <1>1, <4>12 DEF Drops, Within
      <4>14. \A e : e \in Reach(t, p, m) <=> e \in Entries(t) /\ Leads(Append(m, KindEdge("*")), e)
        BY <2>2, <3>1, <3>4, <4>2
      <4> QED
        BY <1>6, <4>1, <4>13, <4>14, CaughtGood
    <3> QED
      BY <3>2, <3>3, <3>4
  <2> QED
    BY <2>11, <2>12
<1> QED
  BY <1>9, <1>10

\* The search of a tree is a function of its nodes: what it finds at one needs only
\* what it finds at the nodes below.
LEMMA FindAgree ==
    ASSUME NEW t, NEW p, Len(p) \in Nat, NEW m, Node(m), NEW f, NEW g,
           \A x \in DOMAIN t : Len(m) < Len(p) /\ Len(x) = Len(m) + 1 => f[x] = g[x]
    PROVE  Route!findIn(t, p, f, m) = Route!findIn(t, p, g, m)
<1>1. PICK h : h = Len(m) + 1
  OBVIOUS
<1>2. PICK q : q = Append(m, KindEdge(":"))
  OBVIOUS
<1>3. PICK c : c = Append(m, StaticEdge(p[h]))
  OBVIOUS
<1>4. Len(q) = Len(m) + 1 /\ Len(c) = Len(m) + 1 /\ Len(m) \in Nat
  BY <1>2, <1>3, AppendIs, LenNode
<1>5. PICK b : b = ByChildAt(t, p, f, m)
  OBVIOUS
<1>6. PICK d : d = ByChildAt(t, p, g, m)
  OBVIOUS
<1>7. PICK s : s = Route!findIn(t, p, f, m)
  OBVIOUS
<1>8. PICK u : u = Route!findIn(t, p, g, m)
  OBVIOUS
<1>9. FindInCases(t, p, f, m, h, q, b, s)
  BY <1>1, <1>2, <1>5, <1>7, FindInIs
<1>10. FindInCases(t, p, g, m, h, q, d, u)
  BY <1>1, <1>2, <1>6, <1>8, FindInIs
<1>11. CASE h > Len(p)
  BY <1>7, <1>8, <1>9, <1>10, <1>11 DEF FindInCases
<1>12. CASE ~ (h > Len(p))
  <2>1. Len(m) < Len(p)
    BY <1>1, <1>4, <1>12
  <2>2. b = d
    <3>1. c \in DOMAIN t => f[c] = g[c]
      BY <1>4, <2>1
    <3>2. b = IF p[h] # "" /\ c \in DOMAIN t THEN f[c] ELSE [entry |-> Route!noEntry, written |-> Route!nothing]
      BY <1>1, <1>3, <1>5 DEF ByChildAt
    <3>3. d = IF p[h] # "" /\ c \in DOMAIN t THEN g[c] ELSE [entry |-> Route!noEntry, written |-> Route!nothing]
      BY <1>1, <1>3, <1>6 DEF ByChildAt
    <3> QED
      BY <3>1, <3>2, <3>3
  <2>3. q \in DOMAIN t => f[q] = g[q]
    BY <1>4, <2>1
  <2>4. s = u
    <3>1. CASE b.entry # Route!noEntry
      BY <1>9, <1>10, <1>12, <2>2, <3>1 DEF FindInCases
    <3>2. CASE b.entry = Route!noEntry /\ (p[h] = "" \/ q \notin DOMAIN t)
      BY <1>9, <1>10, <1>12, <2>2, <3>2 DEF FindInCases
    <3>3. CASE b.entry = Route!noEntry /\ p[h] # "" /\ q \in DOMAIN t
      <4>1. PICK fq : fq = f[q] /\ fq = g[q]
        BY <2>3, <3>3
      <4>2. IF fq.entry # Route!noEntry
            THEN s = [entry |-> fq.entry, written |-> ByParamAt(t, p, m, fq, b.written)]
            ELSE s = CaughtAt(t, p, m, Route!Over(Route!Write(t[q].name, Route!Deleted), ByParamAt(t, p, m, fq, b.written)))
        BY <1>9, <1>12, <3>3, <4>1 DEF FindInCases
      <4>3. IF fq.entry # Route!noEntry
            THEN u = [entry |-> fq.entry, written |-> ByParamAt(t, p, m, fq, b.written)]
            ELSE u = CaughtAt(t, p, m, Route!Over(Route!Write(t[q].name, Route!Deleted), ByParamAt(t, p, m, fq, b.written)))
        BY <1>10, <1>12, <2>2, <3>3, <4>1 DEF FindInCases
      <4> QED
        BY ONLY <4>2, <4>3
    <3> QED
      BY <3>1, <3>2, <3>3
  <2> QED
    BY <1>7, <1>8, <2>4
<1> QED
  BY <1>11, <1>12

Solved(t, p, f, k) == \A m \in DOMAIN t : Len(m) + k >= Len(p) => f[m] = Route!findIn(t, p, f, m)

LEMMA FindExists ==
    ASSUME NEW t, NEW C, Class(C), TreeOf(t, C), NEW p, Len(p) \in Nat
    PROVE  \E f : f = [m \in DOMAIN t |-> Route!findIn(t, p, f, m)]
<1>1. PICK T : T = {k \in Nat : \A f : ~ (f = [m \in DOMAIN t |-> f[m]] /\ Solved(t, p, f, k))}
  OBVIOUS
<1>2. 0 \notin T
  <2>1. PICK f : f = [m \in DOMAIN t |-> Route!findIn(t, p, <<>>, m)]
    OBVIOUS
  <2>2. DOMAIN f = DOMAIN t /\ \A m \in DOMAIN t : f[m] = Route!findIn(t, p, <<>>, m)
    BY ONLY <2>1
  <2>3. f = [m \in DOMAIN t |-> f[m]]
    BY ONLY <2>1, <2>2
  <2>4. ASSUME NEW m \in DOMAIN t, Len(m) + 0 >= Len(p)  PROVE  f[m] = Route!findIn(t, p, f, m)
    <3>1. Node(m) /\ Len(m) \in Nat
      BY TreeNode, LenNode
    <3>2. ~ (Len(m) < Len(p))
      BY <2>4, <3>1
    <3>3. Route!findIn(t, p, <<>>, m) = Route!findIn(t, p, f, m)
      BY <3>1, <3>2, FindAgree
    <3> QED
      BY <2>2, <3>3
  <2>5. Solved(t, p, f, 0)
    BY <2>4 DEF Solved
  <2> QED
    BY <1>1, <2>3, <2>5
<1>3. ASSUME NEW k \in Nat, k \notin T  PROVE  k + 1 \notin T
  <2>1. PICK f : Solved(t, p, f, k)
    BY <1>1, <1>3
  <2>2. PICK g : g = [m \in DOMAIN t |-> Route!findIn(t, p, f, m)]
    OBVIOUS
  <2>3. DOMAIN g = DOMAIN t /\ \A m \in DOMAIN t : g[m] = Route!findIn(t, p, f, m)
    BY ONLY <2>2
  <2>4. g = [m \in DOMAIN t |-> g[m]]
    BY ONLY <2>2, <2>3
  <2>5. ASSUME NEW m \in DOMAIN t, Len(m) + (k + 1) >= Len(p)  PROVE  g[m] = Route!findIn(t, p, g, m)
    <3>1. Node(m) /\ Len(m) \in Nat
      BY TreeNode, LenNode
    <3>2. ASSUME NEW x \in DOMAIN t, Len(x) = Len(m) + 1  PROVE  f[x] = g[x]
      <4>1. Len(x) + k >= Len(p)
        BY <2>5, <3>1, <3>2
      <4> QED
        BY <2>1, <2>3, <4>1 DEF Solved
    <3>3. Route!findIn(t, p, f, m) = Route!findIn(t, p, g, m)
      BY <3>1, <3>2, FindAgree
    <3> QED
      BY <2>3, <3>3
  <2>6. Solved(t, p, g, k + 1)
    BY <2>5 DEF Solved
  <2> QED
    BY <1>1, <2>4, <2>6
<1>4. T = {}
  <2>1. SUFFICES ASSUME T # {}  PROVE  FALSE
    OBVIOUS
  <2>2. PICK k \in T : \A j \in T : k <= j
    BY <1>1, <2>1, Least
  <2>3. k \in Nat /\ k # 0
    BY <1>1, <1>2, <2>2
  <2>4. PICK j \in Nat : k = j + 1
    BY <2>3
  <2>5. j \notin T
    BY <2>2, <2>4
  <2> QED
    BY <1>3, <2>2, <2>4, <2>5
<1>5. PICK f : f = [m \in DOMAIN t |-> f[m]] /\ Solved(t, p, f, Len(p))
  BY <1>1, <1>4
<1>6. \A m \in DOMAIN t : f[m] = Route!findIn(t, p, f, m)
  <2>1. ASSUME NEW m \in DOMAIN t  PROVE  f[m] = Route!findIn(t, p, f, m)
    <3>1. Len(m) \in Nat
      BY TreeNode, LenNode
    <3>2. Len(m) + Len(p) >= Len(p)
      BY <3>1
    <3> QED
      BY <1>5, <3>2 DEF Solved
  <2> QED
    BY <2>1
<1>7. [m \in DOMAIN t |-> f[m]] = [m \in DOMAIN t |-> Route!findIn(t, p, f, m)]
  BY <1>6
<1> QED
  BY <1>5, <1>7

LEMMA SearchGood ==
    ASSUME NEW t, NEW C, Class(C), TreeOf(t, C), NEW p, Len(p) \in Nat,
           NEW f, \A m \in DOMAIN t : f[m] = Route!findIn(t, p, f, m)
    PROVE  Good(t, p, <<>>, f[<<>>])
<1>1. PICK T : T = {k \in Nat : \E m \in DOMAIN t : Visited(p, m) /\ k + Len(m) = Len(p) /\ ~ Good(t, p, m, f[m])}
  OBVIOUS
<1>2. T = {}
  <2>1. SUFFICES ASSUME T # {}  PROVE  FALSE
    OBVIOUS
  <2>2. PICK k \in T : \A j \in T : k <= j
    BY <1>1, <2>1, Least
  <2>3. PICK m \in DOMAIN t : Visited(p, m) /\ k + Len(m) = Len(p) /\ ~ Good(t, p, m, f[m])
    BY <1>1, <2>2
  <2>4. k \in Nat /\ Len(m) \in Nat
    BY <1>1, <2>2, TreeNode, LenNode
  <2>5. ASSUME NEW x \in DOMAIN t, Visited(p, x), Len(x) = Len(m) + 1, ~ Good(t, p, x, f[x])  PROVE  FALSE
    <3>1. PICK j : j = k - 1
      OBVIOUS
    <3>2. Len(x) <= Len(p)
      BY <2>5 DEF Visited
    <3>3. j \in Nat /\ j + Len(x) = Len(p) /\ ~ (k <= j)
      BY <2>3, <2>4, <2>5, <3>1, <3>2
    <3>4. j \in T
      BY <1>1, <2>5, <3>3
    <3> QED
      BY <2>2, <3>3, <3>4
  <2>6. Good(t, p, m, Route!findIn(t, p, f, m))
    BY <2>3, <2>5, SearchStep
  <2> QED
    BY <2>3, <2>6
<1>3. <<>> \in DOMAIN t /\ Len(<<>>) = 0
  BY DEF TreeOf
<1>4. Visited(p, <<>>)
  BY <1>3 DEF Visited
<1>5. ~ Good(t, p, <<>>, f[<<>>]) => Len(p) \in T
  BY <1>1, <1>3, <1>4
<1> QED
  BY <1>2, <1>5

\* The parameters of a search that found a route are the ones the route binds.
LEMMA BoundIs ==
    ASSUME NEW e \in Routes, NEW p, NEW path, path.segs = p, NEW w, Writes(e, p, 0, w)
    PROVE  Route!After(Route!noParams, w) = Route!Bound(e, path)
<1>1. PICK L \in Nat : L = Len(e.segs) /\ DOMAIN e.segs = 1..L
  BY RouteSegs
<1>2. PICK N : N = {e.segs[i].name : i \in {j \in DOMAIN e.segs : e.segs[j].kind # "static"}}
  OBVIOUS
<1>3. \A x : x \in N <=> \E i \in 1..L : e.segs[i].kind # "static" /\ x = e.segs[i].name
  BY <1>1, <1>2
<1>4. \A x : x \in Bound(e, 0) <=> x \in N
  <2>1. 0 + 1 = 1
    OBVIOUS
  <2> QED
    BY <1>1, <1>2, <2>1 DEF Bound
<1>5. ASSUME NEW x \in N  PROVE  x \in DOMAIN w /\ w[x].kept
  <2>1. PICK i \in 1..L : e.segs[i].kind # "static" /\ x = e.segs[i].name
    BY <1>3
  <2>2. i \in (0 + 1)..Len(e.segs)
    BY <1>1
  <2> QED
    BY <2>1, <2>2 DEF Writes
<1>6. {n \in DOMAIN w : w[n].kept} = N
  BY <1>4, <1>5 DEF Writes
<1>7. PICK u : u = Route!After(Route!noParams, w)
  OBVIOUS
<1>8. DOMAIN Route!noParams = {}
  BY DEF Route!noParams
<1>9. u = [n \in N |-> IF n \in DOMAIN w THEN w[n].value ELSE Route!noParams[n]]
  <2>1. N \cup (DOMAIN Route!noParams \ DOMAIN w) = N
    BY <1>8
  <2> QED
    BY <1>6, <1>7, <2>1 DEF Route!After
<1>10. PICK v : v = Route!Bound(e, path)
  OBVIOUS
<1>11. PICK ix : ix = [n \in N |-> CHOOSE j \in DOMAIN e.segs : e.segs[j].kind # "static" /\ e.segs[j].name = n]
  OBVIOUS
<1>12. v = [n \in N |-> IF e.segs[ix[n]].kind = ":" THEN path.segs[ix[n]] ELSE SubSeq(path.segs, ix[n], Len(path.segs))]
  BY <1>2, <1>10, <1>11 DEF Route!Bound
<1>13. ASSUME NEW n \in N  PROVE  u[n] = v[n]
  <2>1. \E j \in DOMAIN e.segs : e.segs[j].kind # "static" /\ e.segs[j].name = n
    BY <1>2
  <2>2. ix[n] = CHOOSE j \in DOMAIN e.segs : e.segs[j].kind # "static" /\ e.segs[j].name = n
    BY <1>11
  <2>3. ix[n] \in DOMAIN e.segs /\ e.segs[ix[n]].kind # "static" /\ e.segs[ix[n]].name = n
    BY <2>1, <2>2
  <2>4. PICK i \in 1..L : i = ix[n] /\ e.segs[i].kind # "static" /\ e.segs[i].name = n
    BY <1>1, <2>3
  <2>5. i \in (0 + 1)..Len(e.segs)
    BY <1>1
  <2>6. w[n].value = ValueAt(e, p, i)
    BY <2>4, <2>5 DEF Writes
  <2>7. v[n] = ValueAt(e, p, i)
    BY <1>12, <2>4 DEF ValueAt
  <2> QED
    BY <1>5, <1>9, <2>6, <2>7
<1>14. u = v
  <2>1. u = [n \in N |-> u[n]]
    BY <1>9
  <2>2. v = [n \in N |-> v[n]]
    BY <1>12
  <2> QED
    BY <1>13, <2>1, <2>2
<1> QED
  BY <1>7, <1>10, <1>14

\* What a search gives: the first of the routes that serve the path, and its parameters.
Found(E, path, s) ==
    /\ s.entry = Route!noEntry => s.params = Route!noParams /\ \A e \in E : ~ ServesFrom(e, path.segs, 0)
    /\ s.entry # Route!noEntry =>
          /\ s.entry \in E /\ ServesFrom(s.entry, path.segs, 0)
          /\ \A r \in E : ServesFrom(r, path.segs, 0) /\ r # s.entry => Prefer(s.entry, r, 0)
          /\ s.params = Route!Bound(s.entry, path)

LEMMA SearchIs ==
    ASSUME NEW t, NEW C, Class(C), TreeOf(t, C), NEW p, Len(p) \in Nat, NEW path, path.segs = p
    PROVE  Found(Entries(t), path, Route!search(t, p, Route!noParams))
<1>1. PICK s : s = Route!search(t, p, Route!noParams)
  OBVIOUS
<1>2. PICK f : f = CHOOSE g : g = [m \in DOMAIN t |-> Route!findIn(t, p, g, m)]
  OBVIOUS
<1>3. f = [m \in DOMAIN t |-> Route!findIn(t, p, f, m)]
  BY <1>2, FindExists
<1>4. \A m \in DOMAIN t : f[m] = Route!findIn(t, p, f, m)
  BY <1>3
<1>5. PICK fr : fr = f[<<>>]
  OBVIOUS
<1>6. Good(t, p, <<>>, fr)
  BY <1>4, <1>5, SearchGood
<1>7. s = [entry |-> fr.entry, params |-> Route!After(Route!noParams, fr.written)]
  BY <1>1, <1>2, <1>5 DEF Route!search
<1>8. s.entry = fr.entry /\ s.params = Route!After(Route!noParams, fr.written)
  BY <1>7
<1>9. Len(<<>>) = 0
  OBVIOUS
<1>10. \A e : e \in Reach(t, p, <<>>) <=> e \in Entries(t) /\ ServesFrom(e, p, 0)
  BY <1>9, EntryIs, LeadsRoot DEF Reach
<1>11. CASE fr.entry = Route!noEntry
  <2>1. Drops(fr.written) /\ Reach(t, p, <<>>) = {}
    BY <1>6, <1>11 DEF Good
  <2>2. PICK w : w = fr.written
    OBVIOUS
  <2>3. {n \in DOMAIN w : w[n].kept} \cup (DOMAIN Route!noParams \ DOMAIN w) = {}
    BY <2>1, <2>2 DEF Drops, Route!noParams
  <2>4. Route!After(Route!noParams, w) = Route!noParams
    <3>1. Route!After(Route!noParams, w) = [n \in {} |-> IF n \in DOMAIN w THEN w[n].value ELSE Route!noParams[n]]
      BY <2>3 DEF Route!After
    <3>2. DOMAIN Route!noParams = {} /\ Route!noParams = [n \in {} |-> ""]
      BY DEF Route!noParams
    <3> QED
      BY <3>1, <3>2
  <2> QED
    BY <1>1, <1>8, <1>10, <1>11, <2>1, <2>2, <2>4 DEF Found
<1>12. CASE fr.entry # Route!noEntry
  <2>1. PICK e : e = fr.entry
    OBVIOUS
  <2>2. /\ e \in Reach(t, p, <<>>) /\ Writes(e, p, 0, fr.written)
        /\ \A r \in Reach(t, p, <<>>) : r # e => Prefer(e, r, 0)
    BY <1>6, <1>9, <1>12, <2>1 DEF Good
  <2>3. e \in Entries(t) /\ e \in Routes
    BY <1>10, <2>2, EntryIs
  <2>4. s.params = Route!Bound(e, path)
    BY <1>8, <2>2, <2>3, BoundIs
  <2> QED
    BY <1>1, <1>8, <1>10, <1>12, <2>1, <2>2, <2>4 DEF Found
<1> QED
  BY <1>11, <1>12

(***************************************************************************)
(* The matcher.                                                            *)
(***************************************************************************)
Statics == {r \in Routes : \A i \in DOMAIN r.segs : r.segs[i].kind = "static"}

RouteTypes ==
    /\ staticGroup \subseteq Statics
    /\ \A n \in DOMAIN segmentIndex : n \in Nat /\ TreeOf(segmentIndex[n], Parameters(n))
    /\ TreeOf(radixTree, CatchAlls)

RouteInv == RouteTypes /\ Route!RightRoute

LEMMA FeatureIs ==
    ASSUME NEW r \in Routes
    PROVE  /\ Route!extractPathFeature(r).segmentCnt = Len(r.segs)
           /\ Route!extractPathFeature(r).hasParam <=> \E i \in DOMAIN r.segs : r.segs[i].kind = ":"
           /\ Route!extractPathFeature(r).hasWild <=> HasWild(r)
           /\ ~ Route!extractPathFeature(r).hasParam /\ ~ Route!extractPathFeature(r).hasWild => r \in Statics
           /\ Route!extractPathFeature(r).hasWild => r \in CatchAlls
           /\ Route!extractPathFeature(r).hasParam /\ ~ Route!extractPathFeature(r).hasWild
                 => r \in Parameters(Len(r.segs))
<1>1. PICK x : x = Route!extractPathFeature(r)
  OBVIOUS
<1>2. /\ x.segmentCnt = Len(r.segs)
      /\ x.hasParam <=> \E i \in DOMAIN r.segs : r.segs[i].kind = ":"
      /\ x.hasWild <=> \E i \in DOMAIN r.segs : r.segs[i].kind = "*"
  BY <1>1 DEF Route!extractPathFeature
<1>3. DOMAIN r.segs = 1..Len(r.segs)
  BY RouteSegs
<1>4. \A i \in DOMAIN r.segs : r.segs[i].kind \in {"static", ":", "*"}
  BY <1>3, SegIs DEF SegKinds
<1>5. ~ x.hasParam /\ ~ x.hasWild => r \in Statics
  BY <1>2, <1>4 DEF Statics
<1>6. x.hasWild => r \in CatchAlls
  BY <1>2 DEF CatchAlls, HasWild
<1>7. x.hasParam /\ ~ x.hasWild => r \in Parameters(Len(r.segs))
  BY <1>2 DEF Parameters, HasWild
<1> QED
  BY <1>1, <1>2, <1>5, <1>6, <1>7 DEF HasWild

\* Which routes serve a path: of the routes with parameters, what the search says ...
LEMMA ServesTree ==
    ASSUME NEW r \in Routes, \E i \in DOMAIN r.segs : r.segs[i].kind # "static", NEW path
    PROVE  Route!Serves(r, path) <=> ServesFrom(r, path.segs, 0)
<1>1. PICK L \in Nat : L = Len(r.segs)
  BY RouteSegs
<1>2. PICK p : p = path.segs
  OBVIOUS
<1>3. PICK wild \in BOOLEAN : wild <=> L > 0 /\ r.segs[L].kind = "*"
  OBVIOUS
<1>4. wild <=> HasWild(r)
  BY <1>1, <1>3, WildIs
<1>5. PICK F : F = Fixed(r) /\ F = IF wild THEN L - 1 ELSE L
  BY <1>1, <1>4, WildIs
<1>6. Route!Serves(r, path) <=>
         /\ IF wild THEN Len(p) >= L - 1 ELSE Len(p) = L
         /\ \A i \in 1..F : IF r.segs[i].kind = ":" THEN p[i] # "" ELSE r.segs[i].name = p[i]
  BY <1>1, <1>2, <1>3, <1>5 DEF Route!Serves
<1>7. 0 + 1 = 1
  OBVIOUS
<1>8. ServesFrom(r, p, 0) <=>
         /\ IF wild THEN Len(p) >= L - 1 ELSE Len(p) = L
         /\ \A i \in 1..F : IF r.segs[i].kind = ":" THEN p[i] # "" ELSE r.segs[i].name = p[i]
  BY <1>1, <1>4, <1>5, <1>7 DEF ServesFrom, Fits
<1> QED
  BY <1>2, <1>6, <1>8

\* ... and of the static ones, the one that is the path itself.
LEMMA ServesStatic ==
    ASSUME NEW r \in Statics, NEW path \in Paths
    PROVE  Route!Serves(r, path) <=> r = Route!AsRoute(path)
<1>1. PICK L \in Nat : L = Len(r.segs) /\ DOMAIN r.segs = 1..L /\ r \in Routes
  BY RouteSegs DEF Statics
<1>2. \A i \in 1..L : r.segs[i].kind = "static"
  BY <1>1 DEF Statics
<1>3. PICK p : p = path.segs /\ p \in Seq(STRING) /\ path = [segs |-> p, slash |-> path.slash]
  BY HTTPConstants
<1>4. PICK K \in Nat : K = Len(p) /\ DOMAIN p = 1..K
  BY <1>3
<1>5. ~ (L > 0 /\ r.segs[L].kind = "*")
  BY <1>2
<1>6. Route!Serves(r, path) <=> K = L /\ (\A i \in 1..L : r.segs[i].name = p[i]) /\ r.slash = path.slash
  BY <1>1, <1>2, <1>3, <1>4, <1>5 DEF Route!Serves
<1>7. PICK a : a = Route!AsRoute(path)
  OBVIOUS
<1>8. a = [segs |-> [i \in 1..K |-> [kind |-> "static", name |-> p[i]]], slash |-> path.slash]
  BY <1>3, <1>4, <1>7 DEF Route!AsRoute
<1>9. PICK as : as = [i \in 1..K |-> [kind |-> "static", name |-> p[i]]]
  OBVIOUS
<1>10. a.segs = as /\ a.slash = path.slash /\ a = [segs |-> as, slash |-> path.slash]
  BY <1>8, <1>9
<1>11. DOMAIN as = 1..K /\ Len(as) = K /\ \A i \in 1..K : as[i].kind = "static" /\ as[i].name = p[i]
  BY <1>9
<1>12. ASSUME r = a  PROVE  K = L /\ (\A i \in 1..L : r.segs[i].name = p[i]) /\ r.slash = path.slash
  BY <1>1, <1>10, <1>11, <1>12
<1>13. ASSUME K = L, \A i \in 1..L : r.segs[i].name = p[i], r.slash = path.slash  PROVE  r = a
  <2>1. r = [segs |-> r.segs, slash |-> r.slash]
    BY <1>1, RouteConstants DEF Route!RoutesAgree
  <2>2. \A i \in 1..L : r.segs[i] = [kind |-> "static", name |-> p[i]]
    <3>1. ASSUME NEW i \in 1..L  PROVE  r.segs[i] = [kind |-> "static", name |-> p[i]]
      <4>1. r.segs[i] = [kind |-> r.segs[i].kind, name |-> r.segs[i].name]
        BY <1>1, SegIs
      <4> QED
        BY <1>2, <1>13, <4>1
    <3> QED
      BY <3>1
  <2>3. PICK rs : rs = r.segs
    OBVIOUS
  <2>4. rs = [i \in 1..L |-> rs[i]]
    <3>1. PICK X : X = [kind : {"static", ":", "*"}, name : STRING \ {""}]
      OBVIOUS
    <3>2. r.segs \in Seq(X)
      BY <1>1, <3>1, RouteConstants DEF Route!RoutesAgree
    <3> QED
      BY <1>1, <2>3, <3>2
  <2>5. rs = as
    BY <1>9, <1>13, <2>2, <2>3, <2>4
  <2> QED
    BY <1>10, <1>13, <2>1, <2>3, <2>5
<1> QED
  BY <1>6, <1>7, <1>12, <1>13

LEMMA PreferBefore ==
    ASSUME NEW r \in Routes, NEW s \in Routes, HasWild(r) <=> HasWild(s), Prefer(r, s, 0)
    PROVE  Route!Before(r, s)
<1>1. PICK L \in Nat : L = Len(r.segs) /\ DOMAIN r.segs = 1..L
  BY RouteSegs
<1>2. PICK K \in Nat : K = Len(s.segs) /\ DOMAIN s.segs = 1..K
  BY RouteSegs
<1>3. PICK i \in (0 + 1)..L :
         /\ i <= K /\ Route!Rank(r.segs[i]) < Route!Rank(s.segs[i])
         /\ \A j \in (0 + 1)..(i - 1) : Route!Rank(r.segs[j]) = Route!Rank(s.segs[j])
  BY <1>1, <1>2 DEF Prefer
<1>4. i \in DOMAIN r.segs /\ i \in DOMAIN s.segs /\ \A j \in 1..(i - 1) : j \in (0 + 1)..(i - 1)
  BY <1>1, <1>2, <1>3
<1>5. Route!extractPathFeature(r).hasWild = Route!extractPathFeature(s).hasWild
  BY DEF Route!extractPathFeature, HasWild
<1> QED
  BY <1>3, <1>4, <1>5 DEF Route!Before

LEMMA WildLast ==
    ASSUME NEW r \in Routes, NEW s \in Routes, ~ HasWild(r), HasWild(s)
    PROVE  Route!Before(r, s)
<1>1. Route!extractPathFeature(r).hasWild = FALSE /\ Route!extractPathFeature(s).hasWild = TRUE
  BY DEF Route!extractPathFeature, HasWild
<1> QED
  BY <1>1 DEF Route!Before

LEMMA StaticFirst ==
    ASSUME NEW r \in Statics, NEW s \in Routes, ~ HasWild(s), Len(r.segs) = Len(s.segs),
           \E i \in DOMAIN s.segs : s.segs[i].kind = ":"
    PROVE  Route!Before(r, s)
<1>1. PICK L \in Nat : L = Len(r.segs) /\ DOMAIN r.segs = 1..L /\ r \in Routes
  BY RouteSegs DEF Statics
<1>2. DOMAIN s.segs = 1..L
  BY <1>1, RouteSegs
<1>3. \A i \in 1..L : r.segs[i].kind = "static"
  BY <1>1 DEF Statics
<1>4. PICK T : T = {i \in 1..L : s.segs[i].kind = ":"}
  OBVIOUS
<1>5. T \subseteq Nat /\ T # {}
  BY <1>2, <1>4
<1>6. PICK i \in T : \A j \in T : i <= j
  BY <1>5, Least
<1>7. i \in 1..L /\ s.segs[i].kind = ":"
  BY <1>4, <1>6
<1>8. ASSUME NEW j \in 1..(i - 1)  PROVE  Route!Rank(r.segs[j]) = 1 /\ Route!Rank(s.segs[j]) = 1
  <2>1. j \in 1..L /\ ~ (i <= j)
    BY <1>7
  <2>2. j \notin T
    BY <1>6, <2>1
  <2>3. s.segs[j].kind \in {"static", ":", "*"}
    <3>1. j \in 1..Len(s.segs)
      BY <1>1, <2>1
    <3> QED
      BY <3>1, SegIs DEF SegKinds
  <2>4. s.segs[j].kind # "*"
    BY <1>2, <2>1 DEF HasWild
  <2>5. s.segs[j].kind = "static"
    BY <1>4, <2>1, <2>2, <2>3, <2>4
  <2> QED
    BY <1>3, <2>1, <2>5, RankIs
<1>9. Route!Rank(r.segs[i]) = 1 /\ Route!Rank(s.segs[i]) = 2
  BY <1>3, <1>7, RankIs
<1>10. Route!Rank(r.segs[i]) < Route!Rank(s.segs[i])
  BY ONLY <1>9
<1>11. i \in DOMAIN r.segs /\ i \in DOMAIN s.segs
  BY <1>1, <1>2, <1>7
<1>12. Route!extractPathFeature(r).hasWild = Route!extractPathFeature(s).hasWild
  <2>1. ~ HasWild(r)
    BY <1>1, <1>3 DEF HasWild
  <2> QED
    BY <2>1 DEF Route!extractPathFeature, HasWild
<1> QED
  BY <1>8, <1>10, <1>11, <1>12 DEF Route!Before

LEMMA RegisteredIs ==
    ASSUME RouteTypes
    PROVE  \A r : r \in Route!Registered <=>
              \/ r \in staticGroup
              \/ r \in Entries(radixTree)
              \/ \E n \in DOMAIN segmentIndex : r \in Entries(segmentIndex[n])
  BY DEF Route!Registered, Entries

LEMMA RouteBegins ==
    ASSUME Init  PROVE  RouteInv
<1>1. staticGroup = {} /\ DOMAIN segmentIndex = {} /\ radixTree = Route!newCompressedRadixTree /\ asked = {}
  BY DEF Init, Route!RouteInit
<1>2. RouteTypes
  BY <1>1, EmptyTree DEF RouteTypes
<1>3. Route!RightRoute
  BY <1>1 DEF Route!RightRoute
<1> QED
  BY <1>2, <1>3 DEF RouteInv

LEMMA RoutesAdded ==
    ASSUME RouteInv, NEW r \in Routes, Route!addRoute(r)
    PROVE  RouteInv'
<1>1. PICK L \in Nat : L = Len(r.segs)
  BY RouteSegs
<1>2. PICK x : x = Route!extractPathFeature(r) /\ x.segmentCnt = L
  BY <1>1, FeatureIs
<1>3. Route!RightRoute'
  <2>1. asked' = {}
    BY DEF Route!addRoute, Route!Change
  <2> QED
    BY <2>1 DEF Route!RightRoute
<1>4. RouteTypes
  BY DEF RouteInv
<1>5. CASE ~ x.hasParam /\ ~ x.hasWild /\ staticGroup' = staticGroup \cup {r} /\ UNCHANGED <<segmentIndex, radixTree>>
  <2>1. r \in Statics
    BY <1>2, <1>5, FeatureIs
  <2>2. RouteTypes'
    BY <1>4, <1>5, <2>1 DEF RouteTypes
  <2> QED
    BY <1>3, <2>2 DEF RouteInv
<1>6. CASE /\ x.hasWild /\ ~ Route!Duplicate(radixTree, r)
           /\ radixTree' = Route!insert(radixTree, r) /\ UNCHANGED <<staticGroup, segmentIndex>>
  <2>1. r \in CatchAlls /\ Class(CatchAlls)
    BY <1>2, <1>6, FeatureIs DEF Class
  <2>2. TreeOf(radixTree', CatchAlls)
    BY <1>4, <1>6, <2>1, Insert DEF RouteTypes
  <2>3. RouteTypes'
    BY <1>4, <1>6, <2>2 DEF RouteTypes
  <2> QED
    BY <1>3, <2>3 DEF RouteInv
<1>7. ASSUME NEW tree, tree = IF L \in DOMAIN segmentIndex THEN segmentIndex[L] ELSE Route!newCompressedRadixTree,
             x.hasParam, ~ x.hasWild, ~ Route!Duplicate(tree, r),
             segmentIndex' = [n \in DOMAIN segmentIndex \cup {L} |->
                                 IF n = L THEN Route!insert(tree, r) ELSE segmentIndex[n]],
             UNCHANGED <<staticGroup, radixTree>>
      PROVE  RouteInv'
  <2>1. r \in Parameters(L) /\ Class(Parameters(L))
    BY <1>1, <1>2, <1>7, FeatureIs DEF Class
  <2>2. TreeOf(tree, Parameters(L))
    BY <1>4, <1>7, EmptyTree DEF RouteTypes
  <2>3. TreeOf(Route!insert(tree, r), Parameters(L))
    BY <1>7, <2>1, <2>2, Insert
  <2>4. ASSUME NEW n \in DOMAIN segmentIndex'  PROVE  n \in Nat /\ TreeOf(segmentIndex'[n], Parameters(n))
    <3>1. CASE n = L
      BY <1>7, <2>3, <3>1
    <3>2. CASE n # L
      BY <1>4, <1>7, <3>2 DEF RouteTypes
    <3> QED
      BY <3>1, <3>2
  <2>5. staticGroup' \subseteq Statics /\ TreeOf(radixTree', CatchAlls)
    BY <1>4, <1>7 DEF RouteTypes
  <2>6. RouteTypes'
    BY <2>4, <2>5 DEF RouteTypes
  <2> QED
    BY <1>3, <2>6 DEF RouteInv
<1> QED
  BY <1>2, <1>5, <1>6, <1>7 DEF Route!addRoute

LEMMA RoutesRemoved ==
    ASSUME RouteInv, NEW r \in Routes, Route!removeRoute(r)
    PROVE  RouteInv'
<1>1. PICK L \in Nat : L = Len(r.segs)
  BY RouteSegs
<1>2. PICK x : x = Route!extractPathFeature(r) /\ x.segmentCnt = L
  BY <1>1, FeatureIs
<1>3. Route!RightRoute'
  <2>1. asked' = {}
    BY DEF Route!removeRoute, Route!Change
  <2> QED
    BY <2>1 DEF Route!RightRoute
<1>4. RouteTypes
  BY DEF RouteInv
<1>5. CASE staticGroup' = staticGroup \ {r} /\ UNCHANGED <<segmentIndex, radixTree>>
  <2>1. RouteTypes'
    BY <1>4, <1>5 DEF RouteTypes
  <2> QED
    BY <1>3, <2>1 DEF RouteInv
<1>6. CASE /\ Route!Removable(radixTree, r)
           /\ radixTree' = Route!remove(radixTree, r) /\ UNCHANGED <<staticGroup, segmentIndex>>
  <2>1. Class(CatchAlls)
    BY DEF Class
  <2>2. TreeOf(radixTree', CatchAlls)
    BY <1>4, <1>6, <2>1, Remove DEF RouteTypes
  <2>3. RouteTypes'
    BY <1>4, <1>6, <2>2 DEF RouteTypes
  <2> QED
    BY <1>3, <2>3 DEF RouteInv
<1>7. CASE /\ L \in DOMAIN segmentIndex /\ Route!Removable(segmentIndex[L], r)
           /\ segmentIndex' = [segmentIndex EXCEPT ![L] = Route!remove(@, r)]
           /\ UNCHANGED <<staticGroup, radixTree>>
  <2>1. Class(Parameters(L))
    BY DEF Class
  <2>2. TreeOf(segmentIndex[L], Parameters(L))
    BY <1>4, <1>7 DEF RouteTypes
  <2>3. TreeOf(Route!remove(segmentIndex[L], r), Parameters(L))
    BY <1>7, <2>1, <2>2, Remove
  <2>4. /\ DOMAIN segmentIndex' = DOMAIN segmentIndex
        /\ segmentIndex'[L] = Route!remove(segmentIndex[L], r)
        /\ \A n \in DOMAIN segmentIndex : n # L => segmentIndex'[n] = segmentIndex[n]
    BY <1>7
  <2>5. ASSUME NEW n \in DOMAIN segmentIndex'  PROVE  n \in Nat /\ TreeOf(segmentIndex'[n], Parameters(n))
    <3>1. CASE n = L
      BY <2>3, <2>4, <3>1
    <3>2. CASE n # L
      BY <1>4, <2>4, <3>2 DEF RouteTypes
    <3> QED
      BY <3>1, <3>2
  <2>6. staticGroup' \subseteq Statics /\ TreeOf(radixTree', CatchAlls)
    BY <1>4, <1>7 DEF RouteTypes
  <2>7. RouteTypes'
    BY <2>5, <2>6 DEF RouteTypes
  <2> QED
    BY <1>3, <2>7 DEF RouteInv
<1> QED
  BY <1>2, <1>5, <1>6, <1>7 DEF Route!removeRoute

\* What a lookup answers.
Answers(path, found) ==
    LET serving == {r \in Route!Registered : Route!Serves(r, path)}
    IN  IF serving = {} THEN found.entry = Route!noEntry /\ found.params = Route!noParams
        ELSE /\ found.entry \in serving
             /\ \A r \in serving \ {found.entry} : Route!Before(found.entry, r)
             /\ found.params = Route!Bound(found.entry, path)

\* A tree is of routes that the search tells apart.
LEMMA TreeServes ==
    ASSUME NEW t, NEW C, Class(C), TreeOf(t, C), NEW r \in Entries(t), NEW path
    PROVE  /\ r \in Routes /\ r # Route!noEntry
           /\ Route!Serves(r, path) <=> ServesFrom(r, path.segs, 0)
           /\ C = CatchAlls => HasWild(r)
           /\ \A n : C = Parameters(n) => ~ HasWild(r) /\ Len(r.segs) = n /\ \E i \in DOMAIN r.segs : r.segs[i].kind = ":"
<1>1. r \in C /\ r \in Routes /\ r # Route!noEntry
  BY EntryIs
<1>2. \E i \in DOMAIN r.segs : r.segs[i].kind # "static"
  BY <1>1 DEF Class, CatchAlls, Parameters, HasWild
<1> QED
  BY <1>1, <1>2, ServesTree DEF CatchAlls, Parameters

LEMMA AnswerIs ==
    ASSUME RouteTypes, NEW path \in Paths, NEW count, count = Len(path.segs),
           NEW bySegs, bySegs = IF count \in DOMAIN segmentIndex
                                THEN Route!search(segmentIndex[count], path.segs, Route!noParams)
                                ELSE [entry |-> Route!noEntry, params |-> Route!noParams],
           NEW found, found = IF Route!AsRoute(path) \in staticGroup
                              THEN [entry |-> Route!AsRoute(path), params |-> Route!noParams]
                              ELSE IF bySegs.entry # Route!noEntry THEN bySegs
                              ELSE Route!search(radixTree, path.segs, bySegs.params)
    PROVE  Answers(path, found)
<1>0. PICK p : p = path.segs
  OBVIOUS
<1>a. p \in Seq(STRING)
  BY <1>0, HTTPConstants
<1>1. p = path.segs /\ p \in Seq(STRING) /\ count = Len(p) /\ count \in Nat
  BY <1>0, <1>a
<1>2. PICK serving : serving = {r \in Route!Registered : Route!Serves(r, path)}
  OBVIOUS
<1>3. \A r : r \in serving <=> /\ \/ r \in staticGroup
                                  \/ r \in Entries(radixTree)
                                  \/ \E n \in DOMAIN segmentIndex : r \in Entries(segmentIndex[n])
                               /\ Route!Serves(r, path)
  BY <1>2, RegisteredIs
<1>4. \A r \in staticGroup : r \in Statics /\ r \in Routes /\ (Route!Serves(r, path) <=> r = Route!AsRoute(path))
  BY ServesStatic DEF RouteTypes, Statics
<1>5. TreeOf(radixTree, CatchAlls) /\ Class(CatchAlls)
  BY DEF RouteTypes, Class
<1>6. \A r \in Entries(radixTree) :
         r \in Routes /\ r # Route!noEntry /\ HasWild(r) /\ (Route!Serves(r, path) <=> ServesFrom(r, p, 0))
  BY <1>1, <1>5, TreeServes
<1>7. ASSUME NEW n \in DOMAIN segmentIndex, NEW r \in Entries(segmentIndex[n])
      PROVE  /\ r \in Routes /\ r # Route!noEntry /\ ~ HasWild(r) /\ (Route!Serves(r, path) <=> ServesFrom(r, p, 0))
             /\ Len(r.segs) = n /\ \E i \in DOMAIN r.segs : r.segs[i].kind = ":"
             /\ Route!Serves(r, path) => n = count
  <2>1. TreeOf(segmentIndex[n], Parameters(n)) /\ Class(Parameters(n))
    BY DEF RouteTypes, Class
  <2>2. /\ r \in Routes /\ r # Route!noEntry /\ ~ HasWild(r) /\ (Route!Serves(r, path) <=> ServesFrom(r, p, 0))
        /\ Len(r.segs) = n /\ \E i \in DOMAIN r.segs : r.segs[i].kind = ":"
    BY <1>1, <2>1, TreeServes
  <2>3. ServesFrom(r, p, 0) => n = count
    BY <1>1, <2>2 DEF ServesFrom
  <2> QED
    BY <2>2, <2>3
<1>8. CASE Route!AsRoute(path) \in staticGroup
  <2>1. PICK a : a = Route!AsRoute(path) /\ a \in Statics /\ a \in Routes /\ Route!Serves(a, path) /\ a \in serving
    BY <1>3, <1>4, <1>8
  <2>2. found.entry = a /\ found.params = Route!noParams
    BY <1>8, <2>1
  <2>3. \A i \in DOMAIN a.segs : a.segs[i].kind = "static"
    BY <2>1 DEF Statics
  <2>4. ~ HasWild(a)
    BY <2>3 DEF HasWild
  <2>5. Len(a.segs) = count
    <3>1. PICK L \in Nat : L = Len(a.segs) /\ DOMAIN a.segs = 1..L
      BY <2>1, RouteSegs
    <3>2. ~ (L > 0 /\ a.segs[L].kind = "*")
      BY <2>3, <3>1
    <3> QED
      BY <1>1, <2>1, <3>1, <3>2 DEF Route!Serves
  <2>6. ASSUME NEW r \in serving, r # a  PROVE  Route!Before(a, r)
    <3>1. r \notin staticGroup
      BY <1>3, <1>4, <2>1, <2>6
    <3>2. CASE r \in Entries(radixTree)
      BY <1>6, <2>1, <2>4, <3>2, WildLast
    <3>3. ASSUME NEW n \in DOMAIN segmentIndex, r \in Entries(segmentIndex[n])  PROVE  Route!Before(a, r)
      <4>1. /\ r \in Routes /\ ~ HasWild(r) /\ Len(r.segs) = n
            /\ (\E i \in DOMAIN r.segs : r.segs[i].kind = ":") /\ n = count
        BY <1>3, <1>7, <3>3
      <4> QED
        BY <2>1, <2>5, <4>1, StaticFirst
    <3> QED
      BY <1>3, <3>1, <3>2, <3>3
  <2>7. Route!Bound(a, path) = Route!noParams
    <3>1. PICK N : N = {a.segs[i].name : i \in {j \in DOMAIN a.segs : a.segs[j].kind # "static"}}
      OBVIOUS
    <3>2. N = {}
      BY <2>3, <3>1
    <3>3. PICK v : v = Route!Bound(a, path)
      OBVIOUS
    <3>4. DOMAIN v = {} /\ v = [x \in {} |-> v[x]]
      BY <3>1, <3>2, <3>3 DEF Route!Bound
    <3>5. DOMAIN Route!noParams = {} /\ Route!noParams = [x \in {} |-> ""]
      BY DEF Route!noParams
    <3> QED
      BY <3>3, <3>4, <3>5
  <2> QED
    BY <1>2, <2>1, <2>2, <2>6, <2>7 DEF Answers
<1>9. CASE Route!AsRoute(path) \notin staticGroup
  <2>1. \A r \in staticGroup : r \notin serving
    BY <1>3, <1>4, <1>6, <1>7, <1>9
  <2>2. CASE bySegs.entry # Route!noEntry
    <3>1. count \in DOMAIN segmentIndex
      BY <2>2
    <3>2. PICK t : t = segmentIndex[count] /\ TreeOf(t, Parameters(count)) /\ Class(Parameters(count))
      BY <3>1 DEF RouteTypes, Class
    <3>3. Found(Entries(t), path, bySegs)
      BY <1>1, <3>1, <3>2, SearchIs
    <3>4. PICK e : e = bySegs.entry /\ e \in Entries(t) /\ ServesFrom(e, p, 0) /\ bySegs.params = Route!Bound(e, path)
      BY <1>1, <2>2, <3>3 DEF Found
    <3>5. found.entry = e /\ found.params = Route!Bound(e, path)
      BY <1>9, <2>2, <3>4
    <3>6. e \in serving /\ e \in Routes /\ ~ HasWild(e)
      BY <1>3, <1>7, <3>1, <3>2, <3>4
    <3>7. ASSUME NEW r \in serving, r # e  PROVE  Route!Before(e, r)
      <4>1. CASE r \in Entries(radixTree)
        BY <1>6, <3>6, <4>1, WildLast
      <4>2. ASSUME NEW n \in DOMAIN segmentIndex, r \in Entries(segmentIndex[n])  PROVE  Route!Before(e, r)
        <5>1. r \in Routes /\ ~ HasWild(r) /\ n = count /\ ServesFrom(r, p, 0)
          BY <1>3, <1>7, <4>2
        <5>2. Prefer(e, r, 0)
          BY <1>1, <2>2, <3>2, <3>3, <3>4, <3>7, <4>2, <5>1 DEF Found
        <5> QED
          BY <3>6, <5>1, <5>2, PreferBefore
      <4> QED
        BY <1>3, <2>1, <4>1, <4>2
    <3> QED
      BY <1>2, <3>5, <3>6, <3>7 DEF Answers
  <2>3. CASE bySegs.entry = Route!noEntry
    <3>1. bySegs.params = Route!noParams /\ \A n \in DOMAIN segmentIndex : \A r \in Entries(segmentIndex[n]) : r \notin serving
      <4>1. CASE count \in DOMAIN segmentIndex
        <5>1. PICK t : t = segmentIndex[count] /\ TreeOf(t, Parameters(count)) /\ Class(Parameters(count))
          BY <4>1 DEF RouteTypes, Class
        <5>2. Found(Entries(t), path, bySegs)
          BY <1>1, <4>1, <5>1, SearchIs
        <5>3. bySegs.params = Route!noParams /\ \A e \in Entries(t) : ~ ServesFrom(e, p, 0)
          BY <1>1, <2>3, <5>2 DEF Found
        <5> QED
          BY <1>3, <1>7, <5>1, <5>3
      <4>2. CASE count \notin DOMAIN segmentIndex
        <5>1. bySegs.params = Route!noParams
          BY <4>2
        <5> QED
          BY <1>3, <1>7, <4>2, <5>1
      <4> QED
        BY <4>1, <4>2
    <3>2. found = Route!search(radixTree, path.segs, Route!noParams)
      BY <1>9, <2>3, <3>1
    <3>3. Found(Entries(radixTree), path, found)
      BY <1>1, <1>5, <3>2, SearchIs
    <3>4. \A r : r \in serving <=> r \in Entries(radixTree) /\ ServesFrom(r, p, 0)
      BY <1>3, <1>6, <2>1, <3>1
    <3>5. CASE found.entry = Route!noEntry
      <4>1. found.params = Route!noParams /\ serving = {}
        BY <1>1, <3>3, <3>4, <3>5 DEF Found
      <4> QED
        BY <1>2, <3>5, <4>1 DEF Answers
    <3>6. CASE found.entry # Route!noEntry
      <4>1. PICK e : /\ e = found.entry /\ e \in Entries(radixTree) /\ ServesFrom(e, p, 0)
                     /\ found.params = Route!Bound(e, path)
        BY <1>1, <3>3, <3>6 DEF Found
      <4>2. e \in serving /\ e \in Routes /\ HasWild(e)
        BY <1>6, <3>4, <4>1
      <4>3. ASSUME NEW r \in serving, r # e  PROVE  Route!Before(e, r)
        <5>1. r \in Entries(radixTree) /\ ServesFrom(r, p, 0) /\ r \in Routes /\ HasWild(r)
          BY <1>6, <3>4
        <5>2. Prefer(e, r, 0)
          BY <1>1, <3>3, <3>6, <4>1, <4>3, <5>1 DEF Found
        <5> QED
          BY <4>2, <5>1, <5>2, PreferBefore
      <4> QED
        BY <1>2, <4>1, <4>2, <4>3 DEF Answers
    <3> QED
      BY <3>5, <3>6
  <2> QED
    BY <2>2, <2>3
<1> QED
  BY <1>8, <1>9

LEMMA RouteLookedUp ==
    ASSUME RouteInv, NEW path \in Paths, Route!matchInto(path)
    PROVE  RouteInv'
<1>1. PICK bySegs : bySegs = IF Len(path.segs) \in DOMAIN segmentIndex
                             THEN Route!search(segmentIndex[Len(path.segs)], path.segs, Route!noParams)
                             ELSE [entry |-> Route!noEntry, params |-> Route!noParams]
  OBVIOUS
<1>2. PICK found : found = IF Route!AsRoute(path) \in staticGroup
                           THEN [entry |-> Route!AsRoute(path), params |-> Route!noParams]
                           ELSE IF bySegs.entry # Route!noEntry THEN bySegs
                           ELSE Route!search(radixTree, path.segs, bySegs.params)
  OBVIOUS
<1>3. /\ pathParams' = found.params /\ asked' = {[path |-> path, entry |-> found.entry]}
      /\ UNCHANGED <<staticGroup, segmentIndex, radixTree>>
  BY <1>1, <1>2 DEF Route!matchInto, Route!table
<1>4. RouteTypes /\ RouteTypes'
  BY <1>3 DEF RouteInv, RouteTypes
<1>5. Answers(path, found)
  BY <1>1, <1>2, <1>4, AnswerIs
<1>6. Route!Registered' = Route!Registered
  BY <1>3 DEF Route!Registered
<1>7. ASSUME NEW a \in asked'
      PROVE  LET serving == {r \in Route!Registered' : Route!Serves(r, a.path)}
             IN  IF serving = {} THEN a.entry = Route!noEntry /\ pathParams' = Route!noParams
                 ELSE /\ a.entry \in serving
                      /\ \A r \in serving \ {a.entry} : Route!Before(a.entry, r)
                      /\ pathParams' = Route!Bound(a.entry, a.path)
  <2>1. a.path = path /\ a.entry = found.entry
    BY <1>3
  <2> QED
    BY <1>3, <1>5, <1>6, <2>1 DEF Answers
<1>8. Route!RightRoute'
  BY <1>7 DEF Route!RightRoute
<1> QED
  BY <1>4, <1>8 DEF RouteInv

LEMMA RouteStill ==
    ASSUME RouteInv, UNCHANGED <<staticGroup, segmentIndex, radixTree, pathParams, asked>>
    PROVE  RouteInv'
<1>1. RouteTypes'
  BY DEF RouteInv, RouteTypes
<1>2. Route!Registered' = Route!Registered
  BY DEF Route!Registered
<1>3. Route!RightRoute
  BY DEF RouteInv
<1>4. Route!RightRoute'
  BY <1>2, <1>3 DEF Route!RightRoute
<1> QED
  BY <1>1, <1>4 DEF RouteInv

LEMMA RouteStep ==
    ASSUME RouteInv, [Next]_vars
    PROVE  RouteInv'
<1>1. CASE Route!RouteNext
  BY <1>1, RoutesAdded, RoutesRemoved, RouteLookedUp DEF Route!RouteNext
<1>2. CASE UNCHANGED routeVars
  BY <1>2, RouteStill DEF routeVars
<1>3. Route!RouteNext \/ UNCHANGED routeVars
  BY DEF Next, Still, vars
<1> QED
  BY <1>1, <1>2, <1>3

\* gserver's matchInto and find: for every set of routes that can be told apart and every
\* path, whatever was added and removed before, a request gets the most precise route that
\* serves its path and that route's own parameters, and none only when none serves it.
THEOREM RightRouteFound == Spec => []RightRoute
<1>1. RouteInv => RightRoute
  BY DEF RouteInv, RightRoute
<1> QED
  BY RouteBegins, RouteStep, <1>1, PTL DEF Spec

===============================================================================
