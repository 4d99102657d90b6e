---------------------------- MODULE DirectoryProofs ----------------------------
(***************************************************************************)
(* What the users of a service's directory may rely on, proved for any      *)
(* number of users, of calls and of changes: the cache does not go back in *)
(* time, and who takes turns is fair.                                      *)
(***************************************************************************)
EXTENDS MCDirectory, WellFoundedInduction, FunctionTheorems, FiniteSetTheorems, TLAPS

-------------------------------------------------------------------------------
(***************************************************************************)
(* ServiceManager.  Nothing cached or held is newer than the store, so what *)
(* a call fetches later is not older than what was cached before it.       *)
(***************************************************************************)
UserStates == [at : {"idle", "refresh", "discover", "store", "fill", "reread", "check", "create",
                 "select"},
           began : Int, got : Int, healthy : Int]

SDTypes == rev \in Nat /\ services \in Int /\ user \in [Users -> UserStates]

SDNewest == services <= rev /\ \A u \in Users : user[u].began <= rev /\ user[u].got <= rev

SDInv == SDTypes /\ SDNewest /\ SD!StoresNoOlder

\* A step of one user, that leaves the store alone.
LEMMA OneUser ==
    ASSUME SDInv, NEW u \in Users, NEW x \in UserStates, user' = [user EXCEPT ![u] = x],
           x.began <= rev, x.got <= rev, x.at \in {"store", "fill"} => x.got >= x.began,
           services' = services \/ services' = user[u].got, rev' = rev
    PROVE  SDInv'
<1>1. SDTypes /\ SDNewest /\ SD!StoresNoOlder /\ user[u].got \in Int
  BY DEF SDInv, SDTypes, UserStates
<1>2. /\ user' \in [Users -> UserStates] /\ user'[u] = x
      /\ \A w \in Users : w # u => user'[w] = user[w]
  BY <1>1 DEF SDTypes
<1>3. SDTypes'
  BY <1>1, <1>2 DEF SDTypes
<1>4. SDNewest'
  BY <1>1, <1>2 DEF SDNewest
<1>5. SD!StoresNoOlder'
  BY <1>1, <1>2 DEF SD!StoresNoOlder
<1> QED
  BY <1>3, <1>4, <1>5 DEF SDInv

\* Every step of the directory, and of the balancer.
LEMMA SDStep == SDInv /\ [SD!SDNext]_sdVars => SDInv'
<1> SUFFICES ASSUME SDInv, [SD!SDNext]_sdVars PROVE SDInv'
  OBVIOUS
<1> USE DEF SD!store, SD!watch, SD!manager
<1>0. /\ rev \in Nat /\ services \in Int /\ user \in [Users -> UserStates] /\ services <= rev
      /\ SDTypes /\ SDNewest /\ SD!StoresNoOlder
  BY DEF SDInv, SDTypes, SDNewest
<1>1. CASE SD!Put
  <2>1. rev' = rev + 1 /\ UNCHANGED <<services, user>>
    BY <1>1 DEF SD!Put
  <2>2. SDTypes'
    BY <1>0, <2>1 DEF SDTypes
  <2>3. SDNewest'
    BY <1>0, <2>1 DEF SDNewest, UserStates
  <2>4. SD!StoresNoOlder'
    BY <1>0, <2>1 DEF SD!StoresNoOlder
  <2> QED
    BY <2>2, <2>3, <2>4 DEF SDInv
<1>2. CASE SD!Cancel \/ SD!Close \/ SD!Watcher \/ UNCHANGED sdVars
  <2>1. UNCHANGED <<rev, services, user>>
    BY <1>2 DEF SD!Cancel, SD!Close, SD!Watcher, SD!WatchInitial, SD!WatchFirst, SD!WatchOpen,
                SD!WatchReceive, SD!WatchRefresh, SD!WatchHandle, SD!WatchAgain, sdVars
  <2> QED
    BY <1>0, <2>1 DEF SDInv, SDTypes, SDNewest, SD!StoresNoOlder
<1>3. ASSUME NEW u \in Users,
             \/ SD!Call(u) \/ SD!DiscoverAndCache(u) \/ SD!CacheStore(u) \/ SD!GetCachedService(u)
             \/ SD!FilterHealthyServices(u) \/ SD!CreateLB(u) \/ SD!Select(u)
      PROVE  SDInv'
  <2>1. PICK w : w = user[u]
    OBVIOUS
  <2>2. w \in UserStates /\ w.began <= rev /\ w.got <= rev
    BY <1>0, <2>1 DEF SDNewest
  <2>3. SD!NoUser \in UserStates /\ SD!NoUser.began <= rev /\ SD!NoUser.got <= rev
        /\ SD!NoUser.at \notin {"store", "fill"}
    BY <1>0 DEF SD!NoUser, UserStates
  <2>4. CASE SD!Call(u)
    <3>1. PICK at \in {"refresh", "discover", "check"} :
             user' = [user EXCEPT ![u] = [SD!NoUser EXCEPT !.at = at, !.began = services,
                                                          !.got = services]]
      BY <2>4 DEF SD!Call
    <3>2. PICK x : x = [at |-> at, began |-> services, got |-> services, healthy |-> 0]
      OBVIOUS
    <3>3. x \in UserStates /\ x.began <= rev /\ x.got <= rev /\ x.at \notin {"store", "fill"}
      BY <1>0, <3>1, <3>2 DEF UserStates
    <3>4. [SD!NoUser EXCEPT !.at = at, !.began = services, !.got = services] = x
      <4>1. PICK y : y = [SD!NoUser EXCEPT !.at = at]
        OBVIOUS
      <4>2. PICK z : z = [y EXCEPT !.began = services]
        OBVIOUS
      <4>3. y = [at |-> at, began |-> -1, got |-> -1, healthy |-> 0]
        BY <4>1 DEF SD!NoUser
      <4>4. z = [at |-> at, began |-> services, got |-> -1, healthy |-> 0]
        BY <4>2, <4>3
      <4>5. [z EXCEPT !.got = services] = x
        BY <3>2, <4>4
      <4> QED
        BY <4>1, <4>2, <4>5
    <3>5. user' = [user EXCEPT ![u] = x] /\ services' = services /\ rev' = rev
      BY <2>4, <3>1, <3>4 DEF SD!Call
    <3> QED
      BY <3>3, <3>5, OneUser
  <2>5. CASE SD!DiscoverAndCache(u)
    <3>0. services' = services /\ rev' = rev
      BY <2>5 DEF SD!DiscoverAndCache
    <3>1. CASE user' = [user EXCEPT ![u] = SD!NoUser]
      BY <2>3, <3>0, <3>1, OneUser
    <3>2. CASE user' # [user EXCEPT ![u] = SD!NoUser]
      <4>1. PICK at \in {"store", "fill"} :
               user' = [user EXCEPT ![u] = [w EXCEPT !.got = rev, !.at = at]]
        BY <1>0, <2>1, <2>5, <3>2 DEF SD!DiscoverAndCache
      <4>2. PICK x : x = [at |-> at, began |-> w.began, got |-> rev, healthy |-> w.healthy]
        OBVIOUS
      <4>3. x \in UserStates /\ x.began <= rev /\ x.got <= rev /\ x.got >= x.began
        BY <1>0, <2>2, <4>1, <4>2 DEF UserStates
      <4>4. [w EXCEPT !.got = rev, !.at = at] = x
        <5>1. PICK y : y = [w EXCEPT !.got = rev]
          OBVIOUS
        <5>2. y = [at |-> w.at, began |-> w.began, got |-> rev, healthy |-> w.healthy]
          BY <2>2, <5>1 DEF UserStates
        <5>3. [y EXCEPT !.at = at] = x
          BY <4>2, <5>2
        <5> QED
          BY <5>1, <5>3
      <4>5. user' = [user EXCEPT ![u] = x]
        BY <4>1, <4>4
      <4> QED
        BY <3>0, <4>3, <4>5, OneUser
    <3> QED
      BY <3>1, <3>2
  <2>6. CASE SD!CacheStore(u)
    <3>1. PICK x : x = IF w.at = "store" THEN SD!NoUser ELSE [w EXCEPT !.at = "reread"]
      OBVIOUS
    <3>2. user' = [user EXCEPT ![u] = x] /\ services' = user[u].got /\ rev' = rev
      BY <1>0, <2>1, <2>6, <3>1 DEF SD!CacheStore
    <3>3. x \in UserStates /\ x.began <= rev /\ x.got <= rev /\ x.at \notin {"store", "fill"}
      BY <2>2, <2>3, <3>1 DEF UserStates
    <3> QED
      BY <3>2, <3>3, OneUser
  <2>7. CASE SD!GetCachedService(u)
    <3>1. PICK x : x = [w EXCEPT !.at = "check", !.got = services]
      OBVIOUS
    <3>2. user' = [user EXCEPT ![u] = x] /\ services' = services /\ rev' = rev
      BY <1>0, <2>1, <2>7, <3>1 DEF SD!GetCachedService
    <3>3. x \in UserStates /\ x.began <= rev /\ x.got <= rev /\ x.at = "check"
      BY <1>0, <2>2, <3>1 DEF UserStates
    <3> QED
      BY <3>2, <3>3, OneUser
  <2>8. CASE SD!FilterHealthyServices(u)
    <3>1. PICK n \in 0..Members[w.got + 1] :
             user' = [user EXCEPT ![u] = IF n = 0 THEN SD!NoUser
                         ELSE [@ EXCEPT !.healthy = n, !.at = IF lb = -1 THEN "create" ELSE "select"]]
      BY <2>1, <2>8 DEF SD!FilterHealthyServices
    <3>2. PICK at : at = IF lb = -1 THEN "create" ELSE "select"
      OBVIOUS
    <3>3. PICK x : x = IF n = 0 THEN SD!NoUser
                       ELSE [at |-> at, began |-> w.began, got |-> w.got, healthy |-> n]
      OBVIOUS
    <3>4. services' = services /\ rev' = rev
      BY <2>8 DEF SD!FilterHealthyServices
    <3>5. x \in UserStates /\ x.began <= rev /\ x.got <= rev /\ x.at \notin {"store", "fill"}
      BY <2>2, <2>3, <3>1, <3>2, <3>3 DEF UserStates
    <3>6. [w EXCEPT !.healthy = n, !.at = at]
             = [at |-> at, began |-> w.began, got |-> w.got, healthy |-> n]
      <4>1. PICK y : y = [w EXCEPT !.healthy = n]
        OBVIOUS
      <4>2. y = [at |-> w.at, began |-> w.began, got |-> w.got, healthy |-> n]
        BY <2>2, <4>1 DEF UserStates
      <4>3. [y EXCEPT !.at = at] = [at |-> at, began |-> w.began, got |-> w.got, healthy |-> n]
        BY <4>2
      <4> QED
        BY <4>1, <4>3
    <3>7. user' = [user EXCEPT ![u] = IF n = 0 THEN SD!NoUser
                                      ELSE [w EXCEPT !.healthy = n, !.at = at]]
      BY <2>1, <3>1, <3>2
    <3>8. user' = [user EXCEPT ![u] = x]
      BY <3>3, <3>6, <3>7
    <3> QED
      BY <3>4, <3>5, <3>8, OneUser
  <2>9. CASE SD!CreateLB(u)
    <3>1. PICK x : x = [w EXCEPT !.at = "select"]
      OBVIOUS
    <3>2. user' = [user EXCEPT ![u] = x] /\ services' = services /\ rev' = rev
      BY <1>0, <2>1, <2>9, <3>1 DEF SD!CreateLB
    <3>3. x \in UserStates /\ x.began <= rev /\ x.got <= rev /\ x.at = "select"
      BY <2>2, <3>1 DEF UserStates
    <3> QED
      BY <3>2, <3>3, OneUser
  <2>10. CASE SD!Select(u)
    <3>1. user' = [user EXCEPT ![u] = SD!NoUser] /\ services' = services /\ rev' = rev
      BY <2>10 DEF SD!Select
    <3> QED
      BY <2>3, <3>1, OneUser
  <2> QED
    BY <1>3, <2>4, <2>5, <2>6, <2>7, <2>8, <2>9, <2>10
<1> QED
  BY <1>1, <1>2, <1>3 DEF SD!SDNext

\* DiscoverAndCache: a list that is about to be cached is not older than the one that
\* was cached when its call began, however the calls of several users, the changes of
\* the service and failed Discovers interleave: only calls that overlap can take the
\* cache back in time.
THEOREM DirectorySafe == Spec => []StoresNoOlder
<1>1. Init => SDInv
  <2> SUFFICES ASSUME Init PROVE SDInv
    OBVIOUS
  <2>1. rev = 0 /\ services = -1 /\ user = [u \in Users |-> SD!NoUser]
    BY DEF Init, SD!SDInit
  <2>2. SD!NoUser \in UserStates /\ SD!NoUser.at = "idle" /\ SD!NoUser.began = -1 /\ SD!NoUser.got = -1
    BY DEF SD!NoUser, UserStates
  <2> QED
    BY <2>1, <2>2 DEF SDInv, SDTypes, SDNewest, SD!StoresNoOlder
<1>2. SDInv /\ [Next]_vars => SDInv'
  <2>1. [Next]_vars => [SD!SDNext]_sdVars
    BY DEF Next, vars, sdVars
  <2> QED
    BY <2>1, SDStep
<1>3. SDInv => StoresNoOlder
  BY DEF SDInv, StoresNoOlder
<1> QED
  BY <1>1, <1>2, <1>3, PTL DEF Spec

-------------------------------------------------------------------------------
(***************************************************************************)
(* LoadBalancer.  Numbers and functions that are defined by recursion.     *)
(***************************************************************************)

\* A set of naturals that is not empty has a least member.
LEMMA Least ==
    ASSUME NEW T, T \subseteq Nat, T # {}
    PROVE  \E m \in T : \A k \in T : m <= k
<1>1. PICK R : R = {ss \in Nat \X Nat : ss[1] < ss[2]}
  OBVIOUS
<1>2. IsWellFoundedOn(R, Nat)
  BY <1>1, NatLessThanWellFounded DEF OpToRel
<1>3. PICK m \in T : \A k \in T : <<k, m>> \notin R
  BY <1>2, WFMin
<1>4. \A k \in T : ~ (k < m)
  BY <1>1, <1>3
<1> QED
  BY <1>4

\* A step taken N times from b has a run.
Run(f, N, b, S, g) ==
    /\ f \in [0..N -> S] /\ f[0] = b
    /\ \A n \in 1..N : f[n] = g[<<n, f[n - 1]>>]

LEMMA Iterated ==
    ASSUME NEW N \in Nat, NEW S, NEW b \in S, NEW g \in [(1..N) \X S -> S]
    PROVE  \E f : Run(f, N, b, S, g)
<1> DEFINE T == {j \in 0..N : ~ \E f : Run(f, j, b, S, g)}
<1> SUFFICES ASSUME T # {} PROVE FALSE
  OBVIOUS
<1>1. PICK m \in T : \A k \in T : m <= k
  <2>1. T \subseteq Nat
    OBVIOUS
  <2> HIDE DEF T
  <2> QED
    BY <2>1, Least
<1>2. CASE m = 0
  <2>1. PICK f : f = [n \in 0..0 |-> b]
    OBVIOUS
  <2>2. Run(f, 0, b, S, g)
    BY <2>1 DEF Run
  <2> QED
    BY <1>2, <2>2
<1>3. CASE m # 0
  <2>1. m \in 1..N /\ m - 1 \in 0..N /\ m - 1 \notin T
    BY <1>1, <1>3
  <2>2. PICK f : Run(f, m - 1, b, S, g)
    BY <2>1
  <2>3. f[m - 1] \in S
    BY <2>1, <2>2 DEF Run
  <2>4. PICK z : z = g[<<m, f[m - 1]>>]
    OBVIOUS
  <2>5. z \in S
    BY <2>1, <2>3, <2>4
  <2>6. PICK h : h = [n \in 0..m |-> IF n = m THEN z ELSE f[n]]
    OBVIOUS
  <2>7. h \in [0..m -> S]
    <3>1. \A n \in 0..m : n # m => n \in 0..(m - 1)
      BY <2>1
    <3> QED
      BY <2>2, <2>5, <2>6, <3>1 DEF Run
  <2>8. h[0] = b
    BY <2>1, <2>2, <2>6 DEF Run
  <2>9. ASSUME NEW n \in 1..m PROVE h[n] = g[<<n, h[n - 1]>>]
    <3>1. n - 1 \in 0..m /\ n - 1 # m /\ h[n - 1] = f[n - 1]
      BY <2>1, <2>6
    <3>2. CASE n = m
      BY <2>4, <2>6, <3>1, <3>2
    <3>3. CASE n # m
      <4>1. n \in 1..(m - 1) /\ h[n] = f[n]
        BY <2>1, <2>6, <3>3
      <4> QED
        BY <2>2, <3>1, <4>1 DEF Run
    <3> QED
      BY <3>2, <3>3
  <2>10. Run(h, m, b, S, g)
    BY <2>7, <2>8, <2>9 DEF Run
  <2> QED
    BY <2>10
<1> QED
  BY <1>2, <1>3

\* What % leaves, and leaves of the next number.
LEMMA Euclid ==
    ASSUME NEW a \in Nat, NEW L \in Nat \ {0}
    PROVE  a % L \in 0..(L - 1) /\ a \div L \in Nat /\ a = L * (a \div L) + (a % L)
  OBVIOUS

LEMMA OneRemainder ==
    ASSUME NEW p \in Int, NEW q \in Int, NEW r \in Int, NEW s \in Int, NEW L \in Nat \ {0},
           r \in 0..(L - 1), s \in 0..(L - 1), L * p + r = L * q + s
    PROVE  r = s
<1>1. L * (p - q) = s - r
  OBVIOUS
<1>2. CASE p - q >= 1
  <2>1. L * (p - q) >= L
    BY <1>2
  <2> QED
    BY <1>1, <2>1
<1>3. CASE p - q <= -1
  <2>1. L * (p - q) <= -L
    BY <1>3
  <2> QED
    BY <1>1, <2>1
<1>4. CASE p = q
  BY <1>4
<1> QED
  BY <1>2, <1>3, <1>4

LEMMA NextRemainder ==
    ASSUME NEW a \in Nat, NEW L \in Nat \ {0}
    PROVE  (a + 1) % L = IF (a % L) + 1 = L THEN 0 ELSE (a % L) + 1
<1>1. PICK p \in Nat, r \in 0..(L - 1) : r = a % L /\ a = L * p + r
  BY Euclid
<1>2. PICK q \in Nat, s \in 0..(L - 1) : s = (a + 1) % L /\ a + 1 = L * q + s
  <2>1. a + 1 \in Nat
    OBVIOUS
  <2> QED
    BY <2>1, Euclid
<1>3. CASE r + 1 = L
  <2>1. L * (p + 1) + 0 = L * q + s
    BY <1>1, <1>2, <1>3
  <2>2. 0 = s
    BY <2>1, OneRemainder
  <2> QED
    BY <2>2, <1>1, <1>2, <1>3
<1>4. CASE r + 1 # L
  <2>1. L * p + (r + 1) = L * q + s
    BY <1>1, <1>2
  <2>2. r + 1 = s
    BY <2>1, <1>4, OneRemainder
  <2> QED
    BY <2>2, <1>1, <1>2, <1>4
<1> QED
  BY <1>3, <1>4

\* A list of instances as the balancer filters it: no two have the same address.
Lists(list) ==
    /\ list \in Seq([address : LB!Addresses, healthy : BOOLEAN, weight : Nat])
    /\ \A m, n \in DOMAIN list : m # n => list[m].address # list[n].address

\* The weights are added up from the left.
Steps(u, N) ==
    /\ u \in [0..N -> Nat] /\ u[0] = 0
    /\ \A n \in 1..N : u[n - 1] <= u[n]

LEMMA WeightsAre ==
    ASSUME NEW list, Lists(list)
    PROVE  /\ Steps(LB!Weights(list), Len(list))
           /\ \A n \in 1..Len(list) : LB!Weights(list)[n] = LB!Weights(list)[n - 1] + list[n].weight
<1>1. Len(list) \in Nat /\ DOMAIN list = 1..Len(list) /\ \A n \in 1..Len(list) : list[n].weight \in Nat
  <2>1. PICK S : S = [address : LB!Addresses, healthy : BOOLEAN, weight : Nat]
    OBVIOUS
  <2>2. list \in Seq(S)
    BY <2>1 DEF Lists
  <2>3. Len(list) \in Nat /\ DOMAIN list = 1..Len(list) /\ \A n \in 1..Len(list) : list[n] \in S
    BY <2>2
  <2> QED
    BY <2>1, <2>3
<1>2. PICK g : g = [p \in (1..Len(list)) \X Nat |-> p[2] + list[p[1]].weight]
  OBVIOUS
<1>3. g \in [(1..Len(list)) \X Nat -> Nat] /\ \A n \in 1..Len(list), k \in Nat : g[<<n, k>>] = k + list[n].weight
  BY <1>1, <1>2
<1>4. PICK f : Run(f, Len(list), 0, Nat, g)
  BY <1>1, <1>3, Iterated
<1>5. f = [n \in 0..Len(list) |-> IF n = 0 THEN 0 ELSE f[n - 1] + list[n].weight]
  <2>1. ASSUME NEW n \in 0..Len(list), n # 0
        PROVE  f[n] = f[n - 1] + list[n].weight
    <3>1. n \in 1..Len(list) /\ n - 1 \in 0..Len(list)
      BY <1>1, <2>1
    <3>2. f[n - 1] \in Nat /\ f[n] = g[<<n, f[n - 1]>>]
      BY <1>4, <3>1 DEF Run
    <3> QED
      BY <1>3, <3>1, <3>2
  <2> QED
    BY <1>4, <2>1 DEF Run
<1> DEFINE w == CHOOSE x : x = [n \in 0..Len(list) |-> IF n = 0 THEN 0 ELSE x[n - 1] + list[n].weight]
<1>6. w = [n \in 0..Len(list) |-> IF n = 0 THEN 0 ELSE w[n - 1] + list[n].weight]
  BY <1>5
<1>7. LB!Weights(list) = w
  BY DEF LB!Weights
<1> HIDE DEF w
<1>8. PICK v : v = w
  OBVIOUS
<1>9. /\ v = [n \in 0..Len(list) |-> IF n = 0 THEN 0 ELSE v[n - 1] + list[n].weight]
      /\ DOMAIN v = 0..Len(list) /\ v[0] = 0
      /\ \A n \in 1..Len(list) : v[n] = v[n - 1] + list[n].weight
  <2>1. v = [n \in 0..Len(list) |-> IF n = 0 THEN 0 ELSE v[n - 1] + list[n].weight]
    BY <1>6, <1>8
  <2>2. \A n \in 0..Len(list) : v[n] = IF n = 0 THEN 0 ELSE v[n - 1] + list[n].weight
    BY ONLY <2>1
  <2>3. DOMAIN v = 0..Len(list)
    BY ONLY <2>1
  <2>4. 0 \in 0..Len(list) /\ \A n \in 1..Len(list) : n \in 0..Len(list) /\ n # 0
    BY <1>1
  <2> QED
    BY <2>1, <2>2, <2>3, <2>4
<1>10. \A n \in 0..Len(list) : v[n] \in Nat
  <2> DEFINE T == {n \in 0..Len(list) : v[n] \notin Nat}
  <2> SUFFICES ASSUME T # {} PROVE FALSE
    OBVIOUS
  <2>1. PICK m \in T : \A k \in T : m <= k
    <3>1. T \subseteq Nat
      OBVIOUS
    <3> HIDE DEF T
    <3> QED
      BY <3>1, Least
  <2>2. m # 0
    BY <1>9
  <2>3. m \in 1..Len(list) /\ m - 1 \in 0..Len(list) /\ m - 1 \notin T
    BY <1>1, <2>1, <2>2
  <2> QED
    BY <1>1, <1>9, <2>3
<1>11. Steps(v, Len(list))
  <2>1. ASSUME NEW n \in 1..Len(list) PROVE v[n - 1] <= v[n]
    BY <1>1, <1>9, <1>10
  <2> QED
    BY <1>1, <1>9, <1>10, <2>1 DEF Steps
<1> QED
  BY <1>7, <1>8, <1>9, <1>11

LEMMA Monotone ==
    ASSUME NEW N \in Nat, NEW u, Steps(u, N), NEW m \in 0..N, NEW n \in 0..N, m <= n
    PROVE  u[m] <= u[n]
<1> DEFINE T == {k \in m..N : ~ u[m] <= u[k]}
<1> SUFFICES ASSUME T # {} PROVE FALSE
  OBVIOUS
<1>1. PICK k \in T : \A j \in T : k <= j
  <2>1. T \subseteq Nat
    OBVIOUS
  <2> HIDE DEF T
  <2> QED
    BY <2>1, Least
<1>2. k # m /\ k \in 1..N /\ k - 1 \in m..N /\ k - 1 \notin T
  BY <1>1 DEF Steps
<1>3. u[k - 1] <= u[k] /\ u[m] <= u[k - 1] /\ u[m] \in Nat /\ u[k] \in Nat /\ u[k - 1] \in Nat
  BY <1>2 DEF Steps
<1> QED
  BY <1>3

\* Every number below the sum belongs to one place.
LEMMA PlaceExists ==
    ASSUME NEW N \in Nat, NEW u, Steps(u, N), NEW s \in Nat, s < u[N]
    PROVE  \E n \in 1..N : u[n - 1] <= s /\ s < u[n]
<1> DEFINE T == {n \in 0..N : s < u[n]}
<1>1. PICK m \in T : \A k \in T : m <= k
  <2>1. T \subseteq Nat /\ T # {}
    OBVIOUS
  <2> HIDE DEF T
  <2> QED
    BY <2>1, Least
<1>2. m # 0 /\ m \in 1..N /\ m - 1 \in 0..N /\ m - 1 \notin T
  BY <1>1 DEF Steps
<1>3. u[m - 1] <= s /\ s < u[m]
  BY <1>1, <1>2 DEF Steps
<1> QED
  BY <1>2, <1>3

LEMMA PlaceUnique ==
    ASSUME NEW N \in Nat, NEW u, Steps(u, N), NEW s \in Nat, NEW m \in 1..N, NEW n \in 1..N,
           u[m - 1] <= s, s < u[m], u[n - 1] <= s, s < u[n]
    PROVE  m = n
<1>1. /\ u[m - 1] \in Nat /\ u[m] \in Nat /\ u[n - 1] \in Nat /\ u[n] \in Nat
      /\ m - 1 \in 0..N /\ m \in 0..N /\ n - 1 \in 0..N /\ n \in 0..N
  BY DEF Steps
<1>2. ~ m < n
  <2> SUFFICES ASSUME m < n PROVE FALSE
    OBVIOUS
  <2>1. m <= n - 1
    OBVIOUS
  <2>2. u[m] <= u[n - 1]
    BY <1>1, <2>1, Monotone
  <2> QED
    BY <1>1, <2>2
<1>3. ~ n < m
  <2> SUFFICES ASSUME n < m PROVE FALSE
    OBVIOUS
  <2>1. n <= m - 1
    OBVIOUS
  <2>2. u[n] <= u[m - 1]
    BY <1>1, <2>1, Monotone
  <2> QED
    BY <1>1, <2>2
<1> QED
  BY <1>2, <1>3

-------------------------------------------------------------------------------
\* The lists the Discovery holds, and what is left of one without the instances
\* that are not healthy.
LEMMA CatalogLists ==
    Len(Catalog) \in Nat \ {0} /\ \A v \in 1..Len(Catalog) : Lists(Catalog[v])
<1>1. PICK S : S = [address : LB!Addresses, healthy : BOOLEAN, weight : Nat]
  OBVIOUS
<1>2. Catalog \in Seq(Seq(S)) /\ Catalog # <<>>
  BY <1>1, DirectoryConstants
<1>3. Len(Catalog) \in Nat \ {0} /\ DOMAIN Catalog = 1..Len(Catalog)
  BY <1>2
<1>4. \A v \in 1..Len(Catalog) : Catalog[v] \in Seq(S)
  BY <1>2
<1> QED
  BY <1>1, <1>3, <1>4, DirectoryConstants DEF Lists

\* The instances of list that kept holds, from among its first n.
Kept(kept, list, n) ==
    /\ \A j \in DOMAIN kept : \E m \in 1..n : kept[j] = list[m]
    /\ \A j, k \in DOMAIN kept : j # k => kept[j].address # kept[k].address

LEMMA HealthyAre == ASSUME NEW v \in 1..Len(Catalog) PROVE Lists(LB!Healthy(v))
<1> DEFINE S == [address : LB!Addresses, healthy : BOOLEAN, weight : Nat]
<1>0. PICK list : list = Catalog[v]
  OBVIOUS
<1>1. /\ list \in Seq(S) /\ Lists(list)
      /\ \A m, n \in DOMAIN list : m # n => list[m].address # list[n].address
  BY <1>0, CatalogLists DEF Lists
<1> HIDE DEF S
<1>2. Len(list) \in Nat /\ DOMAIN list = 1..Len(list) /\ \A n \in 1..Len(list) : list[n] \in S
  BY <1>1
<1>3. PICK g : g = [p \in (1..Len(list)) \X Seq(S) |->
                       IF list[p[1]].healthy THEN Append(p[2], list[p[1]]) ELSE p[2]]
  OBVIOUS
<1>4. ASSUME NEW n \in 1..Len(list), NEW q \in Seq(S)
      PROVE  g[<<n, q>>] = (IF list[n].healthy THEN Append(q, list[n]) ELSE q) /\ g[<<n, q>>] \in Seq(S)
  <2>1. g[<<n, q>>] = (IF list[n].healthy THEN Append(q, list[n]) ELSE q)
    BY <1>3
  <2>2. Append(q, list[n]) \in Seq(S)
    BY <1>2
  <2> QED
    BY <2>1, <2>2
<1>5. g \in [(1..Len(list)) \X Seq(S) -> Seq(S)]
  <2>1. g = [p \in (1..Len(list)) \X Seq(S) |-> g[p]]
    BY <1>3
  <2>2. \A p \in (1..Len(list)) \X Seq(S) : g[p] \in Seq(S)
    <3> SUFFICES ASSUME NEW p \in (1..Len(list)) \X Seq(S) PROVE g[p] \in Seq(S)
      OBVIOUS
    <3>1. PICK n \in 1..Len(list), q \in Seq(S) : p = <<n, q>>
      OBVIOUS
    <3> QED
      BY <1>4, <3>1
  <2> QED
    BY <2>1, <2>2
<1>6. <<>> \in Seq(S)
  OBVIOUS
<1>7. PICK f : Run(f, Len(list), <<>>, Seq(S), g)
  BY <1>2, <1>5, <1>6, Iterated
<1>8. f = [n \in 0..Len(list) |-> IF n = 0 THEN <<>>
                                  ELSE IF list[n].healthy THEN Append(f[n - 1], list[n]) ELSE f[n - 1]]
  <2>1. ASSUME NEW n \in 0..Len(list), n # 0
        PROVE  f[n] = IF list[n].healthy THEN Append(f[n - 1], list[n]) ELSE f[n - 1]
    <3>1. n \in 1..Len(list) /\ n - 1 \in 0..Len(list)
      BY <1>2, <2>1
    <3>2. f[n - 1] \in Seq(S) /\ f[n] = g[<<n, f[n - 1]>>]
      BY <1>7, <3>1 DEF Run
    <3> QED
      BY <1>4, <3>1, <3>2
  <2> QED
    BY <1>7, <2>1 DEF Run
<1> DEFINE w == CHOOSE x : x = [n \in 0..Len(list) |-> IF n = 0 THEN <<>>
                                  ELSE IF list[n].healthy THEN Append(x[n - 1], list[n]) ELSE x[n - 1]]
<1>9. w = [n \in 0..Len(list) |-> IF n = 0 THEN <<>>
                                  ELSE IF list[n].healthy THEN Append(w[n - 1], list[n]) ELSE w[n - 1]]
  BY <1>8
<1>10. LB!Healthy(v) = w[Len(list)]
  BY <1>0 DEF LB!Healthy
<1> HIDE DEF w
<1>11. PICK k : k = w
  OBVIOUS
<1>12. /\ k[0] = <<>>
       /\ \A n \in 1..Len(list) : k[n] = IF list[n].healthy THEN Append(k[n - 1], list[n]) ELSE k[n - 1]
  <2>1. k = [n \in 0..Len(list) |-> IF n = 0 THEN <<>>
                                  ELSE IF list[n].healthy THEN Append(k[n - 1], list[n]) ELSE k[n - 1]]
    BY <1>9, <1>11
  <2>2. \A n \in 0..Len(list) : k[n] = IF n = 0 THEN <<>>
                                  ELSE IF list[n].healthy THEN Append(k[n - 1], list[n]) ELSE k[n - 1]
    BY ONLY <2>1
  <2>3. 0 \in 0..Len(list) /\ \A n \in 1..Len(list) : n \in 0..Len(list) /\ n # 0
    BY <1>2
  <2> QED
    BY <2>2, <2>3
<1>13. \A n \in 0..Len(list) : k[n] \in Seq(S) /\ Kept(k[n], list, n)
  <2> DEFINE T == {n \in 0..Len(list) : ~ (k[n] \in Seq(S) /\ Kept(k[n], list, n))}
  <2> SUFFICES ASSUME T # {} PROVE FALSE
    OBVIOUS
  <2>1. PICK m \in T : \A i \in T : m <= i
    <3>1. T \subseteq Nat
      OBVIOUS
    <3> HIDE DEF T
    <3> QED
      BY <3>1, Least
  <2>2. m # 0
    <3>1. k[0] \in Seq(S) /\ DOMAIN k[0] = {}
      BY <1>6, <1>12
    <3>2. Kept(k[0], list, 0)
      BY <3>1 DEF Kept
    <3> QED
      BY <2>1, <3>1, <3>2
  <2>3. m \in 1..Len(list) /\ m - 1 \in 0..Len(list) /\ m - 1 \notin T
    BY <1>2, <2>1, <2>2
  <2>4. PICK q : q = k[m - 1] /\ q \in Seq(S) /\ Kept(q, list, m - 1)
    BY <2>3
  <2>5. k[m] = IF list[m].healthy THEN Append(q, list[m]) ELSE q
    BY <1>12, <2>3, <2>4
  <2>6. Kept(q, list, m)
    <3>1. \A i \in 1..(m - 1) : i \in 1..m
      BY <1>2, <2>3
    <3> QED
      BY <2>4, <3>1 DEF Kept
  <2>7. CASE list[m].healthy
    <3>1. PICK r : r = Append(q, list[m]) /\ r \in Seq(S)
      <4>1. list[m] \in S /\ q \in Seq(S)
        BY <1>2, <2>3, <2>4
      <4>2. Append(q, list[m]) \in Seq(S)
        BY <4>1
      <4> QED
        BY <4>2
    <3>2. /\ Len(q) \in Nat /\ DOMAIN q = 1..Len(q) /\ DOMAIN r = 1..(Len(q) + 1)
          /\ r[Len(q) + 1] = list[m] /\ \A j \in 1..Len(q) : r[j] = q[j]
      BY <1>2, <2>3, <2>4, <3>1
    <3>3. \A j \in DOMAIN r : j = Len(q) + 1 \/ j \in DOMAIN q
      BY <3>2
    <3>4. \A j \in DOMAIN r : \E i \in 1..m : r[j] = list[i]
      BY <2>3, <2>6, <3>2, <3>3 DEF Kept
    <3>5. \A j \in DOMAIN q : q[j].address # list[m].address
      <4> SUFFICES ASSUME NEW j \in DOMAIN q PROVE q[j].address # list[m].address
        OBVIOUS
      <4>1. PICK i \in 1..(m - 1) : q[j] = list[i]
        BY <2>4 DEF Kept
      <4>2. i # m /\ i \in DOMAIN list /\ m \in DOMAIN list
        BY <1>2, <2>3
      <4> QED
        BY <1>1, <4>1, <4>2
    <3>6. \A j, i \in DOMAIN r : j # i => r[j].address # r[i].address
      <4> SUFFICES ASSUME NEW j \in DOMAIN r, NEW i \in DOMAIN r, j # i PROVE r[j].address # r[i].address
        OBVIOUS
      <4>1. CASE j = Len(q) + 1
        BY <3>2, <3>3, <3>5, <4>1
      <4>2. CASE i = Len(q) + 1
        BY <3>2, <3>3, <3>5, <4>2
      <4>3. CASE j \in DOMAIN q /\ i \in DOMAIN q
        <5>1. q[j].address # q[i].address
          BY <2>4, <4>3 DEF Kept
        <5> QED
          BY <3>2, <4>3, <5>1
      <4> QED
        BY <3>3, <4>1, <4>2, <4>3
    <3>7. Kept(r, list, m)
      BY <3>4, <3>6 DEF Kept
    <3> QED
      BY <2>1, <2>5, <2>7, <3>1, <3>7
  <2>8. CASE ~ list[m].healthy
    BY <2>1, <2>4, <2>5, <2>6, <2>8
  <2> QED
    BY <2>7, <2>8
<1>14. Len(list) \in 0..Len(list)
  BY <1>2
<1>15. PICK h : h = LB!Healthy(v) /\ h \in Seq(S) /\ Kept(h, list, Len(list))
  BY <1>10, <1>11, <1>13, <1>14
<1>16. \A i, j \in DOMAIN h : i # j => h[i].address # h[j].address
  BY <1>15 DEF Kept
<1> QED
  BY <1>15, <1>16 DEF Lists, S

-------------------------------------------------------------------------------
(***************************************************************************)
(* A strategy that takes turns goes through the slots 0 .. Turn(list) - 1   *)
(* one after the other: Cur is the slot of the next choice, and the         *)
(* instance of place n has the slots from Upto(list)[n - 1] up to, and      *)
(* without, Upto(list)[n].                                                 *)
(***************************************************************************)
TakesTurns == strategy \in {"round_robin", "weighted_round_robin"}

Upto(list) == IF strategy = "round_robin" THEN [n \in 0..Len(list) |-> n] ELSE LB!Weights(list)

Cur(list, at) ==
    IF strategy = "round_robin" THEN at % Len(list)
    ELSE IF at >= LB!TotalWeight(list) THEN 0 ELSE at

LEMMA UptoIs ==
    ASSUME TakesTurns, NEW list, Lists(list), list # <<>>
    PROVE  /\ Len(list) \in Nat \ {0} /\ DOMAIN list = 1..Len(list) /\ Steps(Upto(list), Len(list))
           /\ LB!Turn(list) \in Nat /\ Upto(list)[Len(list)] = LB!Turn(list)
           /\ \A n \in 1..Len(list) : Upto(list)[n] = Upto(list)[n - 1] + LB!Share(list[n])
           /\ strategy = "round_robin" => LB!Turn(list) = Len(list)
           /\ strategy # "round_robin" => LB!Turn(list) = LB!TotalWeight(list)
<1>1. Len(list) \in Nat \ {0} /\ DOMAIN list = 1..Len(list)
  BY DEF Lists
<1>2. CASE strategy = "round_robin"
  <2>1. PICK u : u = Upto(list)
    OBVIOUS
  <2>2. u = [n \in 0..Len(list) |-> n]
    BY <1>2, <2>1 DEF Upto
  <2>3. Steps(u, Len(list)) /\ u[Len(list)] = Len(list) /\ \A n \in 1..Len(list) : u[n] = u[n - 1] + 1
    BY <1>1, <2>2 DEF Steps
  <2> QED
    BY <1>1, <1>2, <2>1, <2>3 DEF LB!Turn, LB!Share
<1>3. CASE strategy = "weighted_round_robin"
  <2>1. PICK u : u = Upto(list)
    OBVIOUS
  <2>2. u = LB!Weights(list)
    BY <1>3, <2>1 DEF Upto
  <2>3. Steps(u, Len(list)) /\ \A n \in 1..Len(list) : u[n] = u[n - 1] + list[n].weight
    BY <2>2, WeightsAre
  <2>4. u[Len(list)] \in Nat
    BY <1>1, <2>3 DEF Steps
  <2> QED
    BY <1>1, <1>3, <2>1, <2>2, <2>3, <2>4 DEF LB!Turn, LB!Share, LB!TotalWeight
<1> QED
  BY <1>2, <1>3 DEF TakesTurns

LEMMA CurIs ==
    ASSUME TakesTurns, NEW list, Lists(list), list # <<>>, NEW at \in Nat
    PROVE  /\ LB!NextIndex(list, at) \in Nat
           /\ LB!Turn(list) > 0 =>
                 /\ Cur(list, at) \in 0..(LB!Turn(list) - 1)
                 /\ Cur(list, LB!NextIndex(list, at))
                       = IF Cur(list, at) + 1 = LB!Turn(list) THEN 0 ELSE Cur(list, at) + 1
<1>1. PICK T \in Nat : T = LB!Turn(list)
  BY UptoIs
<1>2. CASE strategy = "round_robin"
  <2>1. T = Len(list) /\ T \in Nat \ {0} /\ Cur(list, at) = at % T
    BY <1>1, <1>2, UptoIs DEF Cur
  <2>2. PICK r \in 0..(T - 1), s \in 0..(T - 1) : r = at % T /\ s = (at + 1) % T
    <3>1. T \in Nat \ {0} /\ at \in Nat /\ at + 1 \in Nat
      BY <2>1
    <3>2. at % T \in 0..(T - 1)
      BY ONLY <3>1, Euclid
    <3>3. (at + 1) % T \in 0..(T - 1)
      BY ONLY <3>1, Euclid
    <3> QED
      BY <3>2, <3>3
  <2>3. s = IF r + 1 = T THEN 0 ELSE r + 1
    BY <2>1, <2>2, NextRemainder
  <2>4. LB!NextIndex(list, at) = s
    BY <1>2, <2>1, <2>2 DEF LB!NextIndex
  <2>5. Cur(list, s) = s
    <3>1. s % T = s
      BY <2>1
    <3> QED
      BY <1>2, <2>1, <3>1 DEF Cur
  <2> QED
    BY <1>1, <2>1, <2>2, <2>3, <2>4, <2>5
<1>3. CASE strategy = "weighted_round_robin"
  <2>1. T = LB!TotalWeight(list)
    BY <1>1, <1>3, UptoIs
  <2>2. PICK c \in Nat : c = IF at >= T THEN 0 ELSE at
    OBVIOUS
  <2>3. Cur(list, at) = c /\ LB!NextIndex(list, at) = c + 1
    BY <1>3, <2>1, <2>2 DEF Cur, LB!NextIndex
  <2>4. Cur(list, c + 1) = IF c + 1 >= T THEN 0 ELSE c + 1
    BY <1>3, <2>1 DEF Cur
  <2> QED
    BY <1>1, <2>2, <2>3, <2>4
<1> QED
  BY <1>2, <1>3 DEF TakesTurns

\* The instance of a slot.
Holds(list, s, a) ==
    \E n \in 1..Len(list) : Upto(list)[n - 1] <= s /\ s < Upto(list)[n] /\ a = list[n].address

LEMMA ChosenIs ==
    ASSUME TakesTurns, NEW list, Lists(list), list # <<>>, NEW at \in Nat, NEW a \in LB!Chosen(list, at)
    PROVE  /\ a \in LB!Addresses \cup {none}
           /\ LB!Turn(list) > 0 => Holds(list, Cur(list, at), a)
<1>1. /\ Len(list) \in Nat \ {0} /\ DOMAIN list = 1..Len(list) /\ Steps(Upto(list), Len(list))
      /\ Upto(list)[Len(list)] = LB!Turn(list) /\ LB!Turn(list) \in Nat
  BY UptoIs
<1>2. \A n \in 1..Len(list) : list[n].address \in LB!Addresses
  <2>1. PICK S : S = [address : LB!Addresses, healthy : BOOLEAN, weight : Nat]
    OBVIOUS
  <2>2. list \in Seq(S)
    BY <2>1 DEF Lists
  <2>3. \A n \in 1..Len(list) : list[n] \in S
    BY <2>2
  <2> QED
    BY <2>1, <2>3
<1>3. PICK C : C = LB!Candidates(list, at)
  OBVIOUS
<1>4. a \in IF C = {} THEN {none} ELSE {list[n].address : n \in C}
  BY <1>3 DEF LB!Chosen
<1>5. CASE strategy = "round_robin"
  <2>1. C = {(at % Len(list)) + 1}
    BY <1>3, <1>5 DEF LB!Candidates, LB!RoundRobin
  <2>2. PICK r \in 0..(Len(list) - 1) : r = at % Len(list)
    BY <1>1, Euclid
  <2>3. a = list[r + 1].address /\ r + 1 \in 1..Len(list)
    BY <1>1, <1>4, <2>1, <2>2
  <2>4. Cur(list, at) = r
    BY <1>5, <2>2 DEF Cur
  <2>5. PICK u : u = Upto(list) /\ u = [n \in 0..Len(list) |-> n]
    BY <1>5 DEF Upto
  <2>6. u[r + 1 - 1] <= r /\ r < u[r + 1]
    BY <1>1, <2>5
  <2>7. Holds(list, r, a)
    <3>1. PICK n \in 1..Len(list) : n = r + 1
      BY <2>3
    <3> QED
      BY <2>3, <2>5, <2>6, <3>1 DEF Holds
  <2> QED
    BY <1>2, <2>3, <2>4, <2>7
<1>6. CASE strategy = "weighted_round_robin"
  <2>1. PICK u, c : u = Upto(list) /\ u = LB!Weights(list) /\ c = Cur(list, at)
    BY <1>6 DEF Upto
  <2>2. C = {n \in 1..Len(list) : u[n - 1] <= c /\ c < u[n]}
    <3>1. C = LB!Weighted(list, at)
      BY <1>3, <1>6 DEF LB!Candidates
    <3>2. c = IF at >= LB!TotalWeight(list) THEN 0 ELSE at
      BY <1>6, <2>1 DEF Cur
    <3> QED
      BY <1>1, <2>1, <3>1, <3>2 DEF LB!Weighted
  <2>3. CASE C = {}
    <3>1. LB!Turn(list) = 0
      <4> SUFFICES ASSUME LB!Turn(list) > 0 PROVE FALSE
        BY <1>1
      <4>1. c \in Nat /\ c < u[Len(list)]
        <5>1. PICK T \in Nat : T = LB!Turn(list) /\ u[Len(list)] = T /\ T > 0
          BY <1>1, <2>1
        <5>2. c \in 0..(T - 1)
          BY <2>1, <5>1, CurIs
        <5> QED
          BY <5>1, <5>2
      <4> QED
        BY <1>1, <2>1, <2>2, <2>3, <4>1, PlaceExists
    <3> QED
      BY <1>4, <2>3, <3>1
  <2>4. CASE C # {}
    <3>1. PICK n \in C : a = list[n].address
      BY <1>4, <2>4
    <3> QED
      BY <1>2, <2>1, <2>2, <3>1 DEF Holds
  <2> QED
    BY <2>3, <2>4
<1> QED
  BY <1>5, <1>6 DEF TakesTurns

\* The choices made around list, the next of which has slot c.
Slot(list, c, k, j) ==
    IF c - k + j - 1 < 0 THEN c - k + j - 1 + LB!Turn(list) ELSE c - k + j - 1

Laps(list, chosen, c) ==
    /\ Len(chosen) <= LB!Turn(list)
    /\ \A j \in 1..Len(chosen) : Holds(list, Slot(list, c, Len(chosen), j), chosen[j])

\* One choice more, the first one included.
LEMMA OneChoice ==
    ASSUME TakesTurns, NEW list, Lists(list), list # <<>>, LB!Turn(list) > 0, NEW c \in 0..(LB!Turn(list) - 1),
           NEW S, NEW chosen \in Seq(S), Laps(list, chosen, c), Len(chosen) < LB!Turn(list),
           NEW a \in S, Holds(list, c, a),
           NEW d, d = IF c + 1 = LB!Turn(list) THEN 0 ELSE c + 1
    PROVE  Laps(list, Append(chosen, a), d)
<1>1. PICK T \in Nat \ {0} : T = LB!Turn(list)
  BY UptoIs
<1>2. PICK more : more = Append(chosen, a)
  OBVIOUS
<1>3. PICK k \in Nat : k = Len(chosen)
  OBVIOUS
<1>4. Len(more) = k + 1 /\ more[k + 1] = a /\ \A j \in 1..k : more[j] = chosen[j]
  BY <1>2, <1>3
<1>5. ASSUME NEW j \in 1..(k + 1) PROVE Holds(list, Slot(list, d, k + 1, j), more[j])
  <2>1. CASE j = k + 1
    <3>1. Slot(list, d, k + 1, j) = c
      BY <1>1, <1>3, <2>1 DEF Slot
    <3> QED
      BY <1>4, <2>1, <3>1
  <2>2. CASE j \in 1..k
    <3>1. Slot(list, d, k + 1, j) = Slot(list, c, k, j)
      BY <1>1, <1>3, <2>2 DEF Slot
    <3> QED
      BY <1>3, <1>4, <2>2, <3>1 DEF Laps
  <2> QED
    BY <2>1, <2>2
<1> QED
  BY <1>1, <1>2, <1>3, <1>4, <1>5 DEF Laps

\* A whole turn gives every instance as many choices as it has slots.
LEMMA TurnIsFair ==
    ASSUME TakesTurns, NEW list, Lists(list), list # <<>>, LB!Turn(list) > 0, NEW c \in 0..(LB!Turn(list) - 1),
           NEW S, NEW chosen \in Seq(S), Laps(list, chosen, c), Len(chosen) = LB!Turn(list),
           NEW n \in DOMAIN list
    PROVE  Cardinality({k \in DOMAIN chosen : chosen[k] = list[n].address}) = LB!Share(list[n])
<1>1. PICK T \in Nat \ {0} : T = LB!Turn(list)
  BY UptoIs
<1>2. PICK u, N : u = Upto(list) /\ N = Len(list)
  OBVIOUS
<1>3. /\ N \in Nat \ {0} /\ DOMAIN list = 1..N /\ Steps(u, N) /\ u[N] = T /\ n \in 1..N
      /\ u[n] = u[n - 1] + LB!Share(list[n])
  BY <1>1, <1>2, UptoIs
<1>4. PICK lo \in Nat, hi \in Nat : lo = u[n - 1] /\ hi = u[n] /\ lo <= hi /\ hi <= T
  <2>1. n - 1 \in 0..N /\ n \in 0..N /\ N \in 0..N /\ n <= N
    BY <1>3
  <2>2. u[n] <= u[N]
    BY <1>3, <2>1, Monotone
  <2> QED
    BY <1>3, <2>1, <2>2 DEF Steps
<1>5. Len(chosen) = T /\ DOMAIN chosen = 1..T
  BY <1>1
<1> DEFINE P == {k \in DOMAIN chosen : chosen[k] = list[n].address}
           slot(j) == IF c + j - 1 < T THEN c + j - 1 ELSE c + j - 1 - T
<1>6. \A j \in 1..T : slot(j) \in 0..(T - 1)
  BY <1>1
<1>7. \A j \in 1..T : Slot(list, c, T, j) = slot(j)
  BY <1>1 DEF Slot
<1>8. \A j \in 1..T : \E m \in 1..N : u[m - 1] <= slot(j) /\ slot(j) < u[m] /\ chosen[j] = list[m].address
  BY <1>2, <1>5, <1>7 DEF Laps, Holds
<1>9. \A j \in P : j \in 1..T /\ slot(j) \in lo..(hi - 1)
  <2> SUFFICES ASSUME NEW j \in P PROVE j \in 1..T /\ slot(j) \in lo..(hi - 1)
    OBVIOUS
  <2>1. j \in 1..T /\ chosen[j] = list[n].address
    BY <1>5
  <2>2. PICK m \in 1..N : u[m - 1] <= slot(j) /\ slot(j) < u[m] /\ chosen[j] = list[m].address
    BY <1>8, <2>1
  <2>3. m = n
    BY <1>3, <2>1, <2>2 DEF Lists
  <2> QED
    BY <1>4, <1>6, <2>1, <2>2, <2>3
<1>10. \A s \in lo..(hi - 1) : \E j \in P : slot(j) = s
  <2> SUFFICES ASSUME NEW s \in lo..(hi - 1) PROVE \E j \in P : slot(j) = s
    OBVIOUS
  <2>0. s \in Nat /\ s < T /\ c \in Nat /\ c < T
    BY <1>1, <1>4
  <2>1. PICK j : j = IF s >= c THEN s - c + 1 ELSE s - c + 1 + T
    OBVIOUS
  <2>2. j \in 1..T /\ slot(j) = s
    BY <2>0, <2>1
  <2>3. PICK m \in 1..N : u[m - 1] <= s /\ s < u[m] /\ chosen[j] = list[m].address
    BY <1>8, <2>2
  <2>4. s \in Nat /\ u[n - 1] <= s /\ s < u[n]
    BY <1>4
  <2>5. m = n
    BY <1>3, <2>3, <2>4, PlaceUnique
  <2>6. j \in P
    BY <1>5, <2>2, <2>3, <2>5
  <2> QED
    BY <2>2, <2>6
<1>11. \A i, j \in P : slot(i) = slot(j) => i = j
  BY <1>1, <1>9
<1>12. PICK f : f = [j \in P |-> slot(j)]
  OBVIOUS
<1> HIDE DEF slot, P
<1>13. f \in Bijection(P, lo..(hi - 1))
  <2>1. f \in [P -> lo..(hi - 1)]
    BY <1>9, <1>12
  <2>2. \A i, j \in P : f[i] = f[j] => i = j
    BY <1>11, <1>12
  <2>3. \A s \in lo..(hi - 1) : \E j \in P : f[j] = s
    BY <1>10, <1>12
  <2>4. f \in Injection(P, lo..(hi - 1))
    BY <2>1, <2>2 DEF Injection, IsInjective
  <2>5. f \in Surjection(P, lo..(hi - 1))
    BY <2>1, <2>3 DEF Surjection
  <2> QED
    BY <2>4, <2>5 DEF Bijection
<1>14. IsFiniteSet(lo..(hi - 1)) /\ Cardinality(lo..(hi - 1)) = hi - lo
  <2>1. PICK top \in Int : top = hi - 1 /\ lo \in Int
    BY <1>4
  <2>2. IsFiniteSet(lo..top) /\ Cardinality(lo..top) = IF lo > top THEN 0 ELSE top - lo + 1
    BY <2>1, FS_Interval
  <2> QED
    BY <1>4, <2>1, <2>2
<1>15. Cardinality(P) = hi - lo
  <2>1. ExistsBijection(P, lo..(hi - 1))
    BY <1>13 DEF ExistsBijection
  <2>2. ExistsBijection(lo..(hi - 1), P)
    BY <2>1, Fun_ExistsBijSymmetric
  <2> QED
    BY <1>14, <2>2, FS_Bijection
<1>16. LB!Share(list[n]) \in Nat
  <2>1. LB!Share(list[n]) = 1 \/ LB!Share(list[n]) = list[n].weight
    BY DEF LB!Share
  <2>2. list[n].weight \in Nat
    <3>1. PICK R : R = [address : LB!Addresses, healthy : BOOLEAN, weight : Nat]
      OBVIOUS
    <3>2. list \in Seq(R)
      BY <3>1 DEF Lists
    <3>3. list[n] \in R
      BY <3>2
    <3> QED
      BY <3>1, <3>3
  <2> QED
    BY <2>1, <2>2
<1> QED
  BY <1>3, <1>4, <1>15, <1>16 DEF P

-------------------------------------------------------------------------------
(***************************************************************************)
(* The choices since the list was chosen from first are laps around it,    *)
(* and the strategy's index says where the next one falls.                 *)
(***************************************************************************)
CallerStates == [at : {"idle", "fetch", "store", "reread", "pick"}, found : 0..Len(Catalog),
                 version : 0..Len(Catalog), address : {none}]

LBTypes ==
    /\ now \in 1..Len(Catalog) /\ cached \in 0..Len(Catalog)
    /\ ch \in Seq(1..Len(Catalog))
    /\ caller \in [Callers -> CallerStates]
    /\ \A c \in Callers : /\ caller[c].at \in {"store", "pick"} => caller[c].version # 0
                          /\ caller[c].at = "reread" => cached # 0

LBRecent ==
    /\ index \in [LB!Addresses -> Nat]
    /\ recent = [list |-> recent.list, chosen |-> recent.chosen]
    /\ recent.list # <<>> =>
          /\ Lists(recent.list)
          /\ recent.chosen \in Seq(LB!Addresses \cup {none}) /\ recent.chosen # <<>>
          /\ LB!Turn(recent.list) > 0 =>
                Laps(recent.list, recent.chosen, Cur(recent.list, index[recent.list[1].address]))

FairInv == TakesTurns => LBTypes /\ LBRecent

LEMMA FirstAddress ==
    ASSUME NEW list, Lists(list), list # <<>>
    PROVE  list[1].address \in LB!Addresses
<1>1. PICK R : R = [address : LB!Addresses, healthy : BOOLEAN, weight : Nat]
  OBVIOUS
<1>2. list \in Seq(R)
  BY <1>1 DEF Lists
<1>3. list[1] \in R
  BY <1>2
<1> QED
  BY <1>1, <1>3

LEMMA InvIsFair == FairInv => LB!FairTurns
<1> SUFFICES ASSUME FairInv, TakesTurns, recent.list # <<>>, Len(recent.chosen) = LB!Turn(recent.list),
                    NEW n \in DOMAIN recent.list
             PROVE  LB!Cardinality({k \in DOMAIN recent.chosen : recent.chosen[k] = recent.list[n].address})
                       = LB!Share(recent.list[n])
  BY DEF LB!FairTurns, TakesTurns
<1>1. PICK list, chosen, at : list = recent.list /\ chosen = recent.chosen /\ at = index[list[1].address]
  OBVIOUS
<1>2. LBRecent
  BY DEF FairInv
<1>3. /\ Lists(list) /\ list # <<>> /\ chosen \in Seq(LB!Addresses \cup {none}) /\ chosen # <<>>
      /\ LB!Turn(list) > 0 => Laps(list, chosen, Cur(list, at))
      /\ index \in [LB!Addresses -> Nat] /\ Len(chosen) = LB!Turn(list)
  BY <1>1, <1>2 DEF LBRecent
<1>4. at \in Nat
  BY <1>1, <1>3, FirstAddress
<1>5. LB!Turn(list) \in Nat /\ LB!Turn(list) > 0
  BY <1>3, UptoIs
<1>6. Cur(list, at) \in 0..(LB!Turn(list) - 1) /\ Laps(list, chosen, Cur(list, at))
  BY <1>3, <1>4, <1>5, CurIs
<1>7. Cardinality({k \in DOMAIN chosen : chosen[k] = list[n].address}) = LB!Share(list[n])
  BY <1>1, <1>3, <1>5, <1>6, TurnIsFair
<1> QED
  BY <1>1, <1>7 DEF LB!Cardinality, Cardinality

\* Steps that choose nothing.
LEMMA NotChosen ==
    ASSUME LBRecent, TakesTurns, UNCHANGED <<strategy, index, recent>>
    PROVE  LBRecent'
<1>1. \A list : LB!Turn(list)' = LB!Turn(list)
  BY DEF LB!Turn
<1>2. \A list : Upto(list)' = Upto(list)
  BY DEF Upto
<1>3. \A list, at : Cur(list, at)' = Cur(list, at)
  BY DEF Cur
<1> QED
  BY <1>1, <1>2, <1>3 DEF LBRecent, Laps, Slot, Holds

\* Steps of one caller, and those of none.
LEMMA OneCaller ==
    ASSUME LBTypes, NEW c \in Callers, NEW x \in CallerStates, caller' = [caller EXCEPT ![c] = x],
           x.at \in {"store", "pick"} => x.version # 0, x.at = "reread" => cached' # 0,
           now' = now, ch' = ch, cached' \in 0..Len(Catalog), cached # 0 => cached' # 0
    PROVE  LBTypes'
<1>1. caller \in [Callers -> CallerStates]
  BY DEF LBTypes
<1>2. /\ caller' \in [Callers -> CallerStates] /\ caller'[c] = x
      /\ \A d \in Callers : d # c => caller'[d] = caller[d]
  BY <1>1
<1>3. \A d \in Callers : /\ caller'[d].at \in {"store", "pick"} => caller'[d].version # 0
                         /\ caller'[d].at = "reread" => cached' # 0
  BY <1>2 DEF LBTypes
<1>4. CallerStates' = CallerStates
  BY DEF CallerStates
<1> QED
  BY <1>2, <1>3, <1>4 DEF LBTypes

LEMMA BalancerStep == FairInv /\ [LB!LBNext]_lbVars => FairInv'
<1> SUFFICES ASSUME FairInv, [LB!LBNext]_lbVars PROVE FairInv'
  OBVIOUS
<1>1. UNCHANGED strategy /\ TakesTurns' = TakesTurns
  BY DEF LB!LBNext, LB!Change, LB!StartWatching, LB!WatchStores, LB!Lookup, LB!Fetch, LB!Store,
         LB!Reread, LB!Pick, LB!IncreaseConnections, LB!DecreaseConnections, LB!choosing, lbVars, TakesTurns
<1> SUFFICES ASSUME TakesTurns PROVE LBTypes' /\ LBRecent'
  BY <1>1 DEF FairInv
<1>2. LBTypes /\ LBRecent /\ strategy # "least_connections" /\ strategy # "random"
  BY DEF FairInv, TakesTurns
<1>3. PICK N \in Nat \ {0} :
      /\ now \in 1..N /\ cached \in 0..N /\ ch \in Seq(1..N) /\ Len(Catalog) = N
      /\ caller \in [Callers -> CallerStates]
      /\ CallerStates = [at : {"idle", "fetch", "store", "reread", "pick"}, found : 0..N, version : 0..N,
                         address : {none}]
  BY <1>2, CatalogLists DEF LBTypes, CallerStates
<1> USE DEF LB!discovery, LB!choosing
<1>4. CASE LB!Change
  <2>1. now' = now + 1 /\ now' \in 1..N /\ (ch' = Append(ch, now') \/ ch' = ch) /\ UNCHANGED <<cached, caller>>
    <3>1. /\ now < Len(Catalog) /\ now' = now + 1 /\ (ch' = Append(ch, now + 1) \/ ch' = ch)
          /\ UNCHANGED <<cached, caller>>
      BY ONLY <1>4 DEF LB!Change
    <3>2. now + 1 \in 1..N
      BY <1>3, <3>1
    <3> QED
      BY ONLY <3>1, <3>2
  <2>2. ch' \in Seq(1..N)
    <3>1. PICK S : S = 1..N
      OBVIOUS
    <3>2. ch \in Seq(S) /\ now' \in S
      BY <1>3, <2>1, <3>1
    <3>3. Append(ch, now') \in Seq(S)
      BY ONLY <3>2
    <3> QED
      BY ONLY <2>1, <3>1, <3>2, <3>3
  <2>3. UNCHANGED <<strategy, index, recent>>
    BY <1>4 DEF LB!Change
  <2> QED
    BY <1>2, <1>3, <2>1, <2>2, <2>3, NotChosen DEF LBTypes, CallerStates
<1>5. CASE LB!StartWatching
  BY <1>2, <1>3, <1>5, NotChosen DEF LB!StartWatching, LBTypes, CallerStates
<1>6. CASE LB!WatchStores
  <2>1. cached' = Head(ch) /\ ch' = Tail(ch) /\ ch # <<>> /\ UNCHANGED <<now, caller, strategy, index, recent>>
    BY <1>6 DEF LB!WatchStores
  <2>2. cached' \in 1..N /\ ch' \in Seq(1..N)
    BY <1>3, <2>1
  <2> QED
    BY <1>2, <1>3, <2>1, <2>2, NotChosen DEF LBTypes, CallerStates
<1>7. ASSUME NEW c \in Callers,
             LB!Lookup(c) \/ LB!Fetch(c) \/ LB!Store(c) \/ LB!Reread(c)
                \/ LB!IncreaseConnections(c) \/ LB!DecreaseConnections(c)
      PROVE  LBTypes' /\ LBRecent'
  <2>0. PICK r \in CallerStates : r = caller[c]
    BY <1>3
  <2>1. LBRecent'
    BY <1>2, <1>7, NotChosen DEF LB!Lookup, LB!Fetch, LB!Store, LB!Reread, LB!IncreaseConnections,
         LB!DecreaseConnections
  <2>2. caller[c].at \in {"idle", "fetch", "store", "reread", "pick"}
    BY <1>3
  <2>3. CASE LB!Lookup(c)
    <3>1. PICK at : at = IF cached = 0 THEN "fetch" ELSE "pick"
      OBVIOUS
    <3>2. PICK x : x = [r EXCEPT !.at = at, !.found = cached, !.version = cached]
      OBVIOUS
    <3>3. x \in CallerStates /\ x.at = at /\ x.version = cached
      BY <1>3, <2>0, <3>1, <3>2
    <3>4. caller' = [caller EXCEPT ![c] = x]
      BY <1>3, <2>0, <2>3, <3>1, <3>2 DEF LB!Lookup
    <3>5. now' = now /\ ch' = ch /\ cached' = cached
      BY <2>3 DEF LB!Lookup
    <3> QED
      BY <1>2, <1>3, <2>1, <3>1, <3>3, <3>4, <3>5, OneCaller
  <2>4. CASE LB!Fetch(c)
    <3>1. PICK v \in 0..N : v = now
      BY <1>3
    <3>2. PICK x : x = [r EXCEPT !.at = "store", !.version = v]
      OBVIOUS
    <3>3. PICK y : y = LB!Idle
      OBVIOUS
    <3>4. x \in CallerStates /\ x.at = "store" /\ x.version = now /\ y \in CallerStates /\ y.at = "idle"
      <4>1. y \in CallerStates /\ y.at = "idle"
        BY ONLY <3>3, CatalogLists DEF LB!Idle, CallerStates
      <4>2. x \in CallerStates /\ x.at = "store" /\ x.version = v
        BY ONLY <1>3, <3>2, v \in 0..N, r \in CallerStates
      <4> QED
        BY <3>1, <4>1, <4>2
    <3>5. caller' = [caller EXCEPT ![c] = x] \/ caller' = [caller EXCEPT ![c] = y]
      BY <1>3, <2>0, <2>4, <3>1, <3>2, <3>3 DEF LB!Fetch
    <3>6. now' = now /\ ch' = ch /\ cached' = cached
      BY <2>4 DEF LB!Fetch
    <3> QED
      BY <1>2, <1>3, <2>1, <3>4, <3>5, <3>6, OneCaller
  <2>5. CASE LB!Store(c)
    <3>1. PICK x : x = [r EXCEPT !.at = "reread"]
      OBVIOUS
    <3>2. x \in CallerStates /\ x.at = "reread"
      BY <1>2, <1>3, <2>0, <2>5, <3>1 DEF LB!Store, LBTypes
    <3>3. caller' = [caller EXCEPT ![c] = x]
      BY <1>3, <2>0, <2>5, <3>1 DEF LB!Store
    <3>4. cached' = caller[c].version /\ cached' \in 0..N /\ cached' # 0 /\ now' = now /\ ch' = ch
      BY <1>2, <1>3, <2>0, <2>5 DEF LB!Store, LBTypes
    <3> QED
      BY <1>2, <1>3, <2>1, <3>2, <3>3, <3>4, OneCaller
  <2>6. CASE LB!Reread(c)
    <3>1. PICK x : x = [r EXCEPT !.at = "pick", !.version = cached]
      OBVIOUS
    <3>2. x \in CallerStates /\ x.at = "pick" /\ x.version = cached
      BY <1>2, <1>3, <2>0, <2>6, <3>1 DEF LB!Reread, LBTypes
    <3>3. caller' = [caller EXCEPT ![c] = x]
      BY <1>3, <2>0, <2>6, <3>1 DEF LB!Reread
    <3>4. cached' = cached /\ cached # 0 /\ now' = now /\ ch' = ch
      BY <1>2, <1>3, <2>0, <2>6 DEF LB!Reread, LBTypes
    <3> QED
      BY <1>2, <1>3, <2>1, <3>2, <3>3, <3>4, OneCaller
  <2>7. ~ LB!IncreaseConnections(c) /\ ~ LB!DecreaseConnections(c)
    BY <2>2 DEF LB!IncreaseConnections, LB!DecreaseConnections
  <2> QED
    BY <1>7, <2>3, <2>4, <2>5, <2>6, <2>7
<1>8. ASSUME NEW c \in Callers, LB!Pick(c) PROVE LBTypes' /\ LBRecent'
  <2>1. PICK v : v = caller[c].version
    OBVIOUS
  <2>2. v \in 1..Len(Catalog) /\ now' = now /\ ch' = ch /\ cached' = cached
    BY <1>2, <1>3, <1>8, <2>1 DEF LB!Pick, LBTypes
  <2>3. PICK list : list = LB!Healthy(v)
    OBVIOUS
  <2>4. Lists(list)
    BY <2>2, <2>3, HealthyAre
  <2>5. LBTypes'
    <3>1. PICK y : y = [at |-> "idle", found |-> 0, version |-> 0, address |-> none]
      OBVIOUS
    <3>2. caller' = [caller EXCEPT ![c] = y]
      BY <1>2, <1>8, <2>1, <2>3, <3>1 DEF LB!Pick, LB!Idle
    <3>3. y \in CallerStates /\ y.at = "idle"
      BY <1>3, <3>1
    <3> QED
      BY <1>2, <1>3, <2>2, <3>2, <3>3, OneCaller
  <2>6. CASE list = <<>>
    <3>1. UNCHANGED <<strategy, index, recent>>
      <4>1. UNCHANGED <<index, recent>>
        BY <1>8, <2>1, <2>3, <2>6 DEF LB!Pick
      <4> QED
        BY <1>1, <4>1
    <3> QED
      BY <1>2, <2>5, <3>1, NotChosen
  <2>7. CASE list # <<>>
    <3>1. PICK key, at : key = list[1].address /\ at = index[key]
      OBVIOUS
    <3>2. key \in LB!Addresses /\ at \in Nat /\ index \in [LB!Addresses -> Nat]
      BY <1>2, <2>4, <2>7, <3>1, FirstAddress DEF LBRecent
    <3>3. PICK next : next = LB!NextIndex(list, at)
      OBVIOUS
    <3>4. PICK a \in LB!Chosen(list, at) :
             /\ index' = [index EXCEPT ![key] = next]
             /\ recent' = IF recent.list = list /\ Len(recent.chosen) < LB!Turn(list)
                          THEN [recent EXCEPT !.chosen = Append(recent.chosen, a)]
                          ELSE [list |-> list, chosen |-> <<a>>]
      BY <1>8, <2>1, <2>3, <2>7, <3>1, <3>3 DEF LB!Pick
    <3>5. PICK S : S = LB!Addresses \cup {none}
      OBVIOUS
    <3>6. a \in S /\ (LB!Turn(list) > 0 => Holds(list, Cur(list, at), a)) /\ next \in Nat
      BY <2>4, <2>7, <3>2, <3>3, <3>5, ChosenIs, CurIs
    <3>7. index' \in [LB!Addresses -> Nat] /\ index'[key] = next
      BY <3>2, <3>4, <3>6
    <3>8. LB!Turn(list) \in Nat
      BY <2>4, <2>7, UptoIs
    <3>9. /\ LB!Turn(list) > 0 =>
               /\ Cur(list, at) \in 0..(LB!Turn(list) - 1)
               /\ Cur(list, next) = IF Cur(list, at) + 1 = LB!Turn(list) THEN 0 ELSE Cur(list, at) + 1
      BY <2>4, <2>7, <3>2, <3>3, CurIs
    <3>10. PICK chosen : /\ chosen \in Seq(S) /\ chosen # <<>>
                         /\ recent' = [list |-> list, chosen |-> chosen]
                         /\ LB!Turn(list) > 0 => Laps(list, chosen, Cur(list, next))
      <4>1. CASE recent.list = list /\ Len(recent.chosen) < LB!Turn(list)
        <5>1. PICK q : q = recent.chosen
          OBVIOUS
        <5>2. /\ q \in Seq(S) /\ Len(q) < LB!Turn(list) /\ recent = [list |-> list, chosen |-> q]
              /\ LB!Turn(list) > 0 => Laps(list, q, Cur(list, at))
          BY <1>2, <2>7, <3>1, <3>5, <4>1, <5>1 DEF LBRecent
        <5>3. PICK more : more = Append(q, a)
          OBVIOUS
        <5>4. more \in Seq(S) /\ more # <<>> /\ Len(q) \in Nat
          BY <3>6, <5>2, <5>3
        <5>5. recent' = [list |-> list, chosen |-> more]
          BY <3>4, <4>1, <5>1, <5>2, <5>3
        <5>6. ASSUME LB!Turn(list) > 0 PROVE Laps(list, more, Cur(list, next))
          BY <2>4, <2>7, <3>6, <3>9, <5>2, <5>3, <5>6, OneChoice
        <5> QED
          BY <5>4, <5>5, <5>6
      <4>2. CASE ~ (recent.list = list /\ Len(recent.chosen) < LB!Turn(list))
        <5>1. PICK none1 : none1 = <<>>
          OBVIOUS
        <5>2. none1 \in Seq(S) /\ Append(none1, a) = <<a>> /\ Len(none1) = 0
          BY <5>1
        <5>3. ASSUME LB!Turn(list) > 0 PROVE Laps(list, Append(none1, a), Cur(list, next))
          <6>1. Laps(list, none1, Cur(list, at))
            <7>1. LB!Turn(list) \in Nat /\ Len(none1) = 0 /\ 1..Len(none1) = {}
              BY <3>8, <5>2
            <7> QED
              BY <7>1 DEF Laps
          <6> QED
            BY <2>4, <2>7, <3>6, <3>9, <5>2, <5>3, <6>1, OneChoice
        <5>4. <<a>> \in Seq(S) /\ <<a>> # <<>>
          BY <3>6
        <5> QED
          BY <3>4, <4>2, <5>2, <5>3, <5>4
      <4> QED
        BY <4>1, <4>2
    <3>11. UNCHANGED strategy
      BY <1>1
    <3>12. recent'.list = list /\ recent'.chosen = chosen /\ index'[list[1].address] = next
           /\ recent' = [list |-> recent'.list, chosen |-> recent'.chosen]
      BY <3>1, <3>7, <3>10
    <3>13. LB!Turn(list)' = LB!Turn(list) /\ Cur(list, next)' = Cur(list, next)
      BY <3>11 DEF LB!Turn, Cur
    <3>14. LB!Turn(list) > 0 => Laps(list, chosen, Cur(list, next))'
      BY <3>10, <3>11, <3>13 DEF LB!Turn, Laps, Slot, Holds, Upto
    <3> QED
      BY <2>4, <2>5, <3>5, <3>7, <3>10, <3>12, <3>13, <3>14 DEF LBRecent
  <2> QED
    BY <2>5, <2>6, <2>7
<1>9. CASE UNCHANGED lbVars
  BY <1>2, <1>9, NotChosen DEF lbVars, LBTypes, CallerStates
<1> QED
  BY <1>4, <1>5, <1>6, <1>7, <1>8, <1>9 DEF LB!LBNext

\* FairTurns: one turn of the round robin and of the weighted round robin strategy over
\* a list gives every instance exactly its share, for any lists and any number of callers
\* and of calls.
THEOREM BalancerFair == Spec => []FairTurns
<1>1. Init => FairInv
  <2> SUFFICES ASSUME Init, TakesTurns PROVE LBTypes /\ LBRecent
    BY DEF FairInv
  <2>1. /\ now = 1 /\ ch = <<>> /\ cached = 0 /\ caller = [c \in Callers |-> LB!Idle]
        /\ index = [a \in LB!Addresses |-> 0] /\ recent = [list |-> <<>>, chosen |-> <<>>]
    BY DEF Init, LB!LBInit
  <2>2. LB!Idle \in CallerStates /\ LB!Idle.at = "idle"
    BY CatalogLists DEF LB!Idle, CallerStates
  <2>3. LBTypes
    BY <2>1, <2>2, CatalogLists DEF LBTypes
  <2>4. LBRecent
    BY <2>1 DEF LBRecent
  <2> QED
    BY <2>3, <2>4
<1>2. FairInv /\ [Next]_vars => FairInv'
  <2> SUFFICES ASSUME FairInv, [Next]_vars PROVE FairInv'
    OBVIOUS
  <2>1. [LB!LBNext]_lbVars
    BY DEF Next, vars, lbVars
  <2> QED
    BY <2>1, BalancerStep
<1>3. FairInv => FairTurns
  BY InvIsFair DEF FairTurns
<1> QED
  BY <1>1, <1>2, <1>3, PTL DEF Spec

===============================================================================
