----------------------------- MODULE LoadBalancer -----------------------------
(***************************************************************************)
(* glb: the instances of one service as a LoadBalancer caches them, and    *)
(* the strategies that choose among them.  The Discovery is external: it   *)
(* holds the lists Catalog[1], Catalog[2], ... one after the other, and a  *)
(* watch sends every new one.  The first callers that find no list fetch   *)
(* one and store it; the watch goroutine stores whatever it receives.      *)
(***************************************************************************)
EXTENDS Integers, Sequences, SequencesExt, FiniteSetsExt

CONSTANTS Callers,     \* goroutines that call GetInstance
          Catalog,     \* version -> the list of instances the Discovery holds
          Picks,       \* GetInstance calls that may be made
          none

VARIABLES now,       \* the version the Discovery holds
          watching,  \* StartWatching was called
          ch,        \* the versions sent by the watch and not yet received
          cached,    \* lb.instances[serviceName]: a version, 0 when absent
          caller,    \* caller -> [at, found, version, address]
          strategy,  \* lb.strategy
          index,     \* first address -> the strategy's index or current weight
          conns,     \* address -> connections, of LeastConnectionsStrategy
          recent,    \* history: the list chosen from last, the choices since
          calls      \* history: GetInstance calls made

discovery == <<now, watching, ch>>
choosing == <<strategy, index, conns, recent>>
lbVars == <<discovery, cached, caller, choosing, calls>>

\* BaseInstance.
Instance == UNION {ToSet(Catalog[v]) : v \in DOMAIN Catalog}
Addresses == {i.address : i \in Instance}

Idle == [at |-> "idle", found |-> 0, version |-> 0, address |-> none]

LBInit ==
    /\ now = 1 /\ watching = FALSE /\ ch = <<>>
    /\ cached = 0
    /\ caller = [c \in Callers |-> Idle]
    /\ strategy \in {"random", "round_robin", "weighted_round_robin", "least_connections"}
    /\ index = [a \in Addresses |-> 0]
    /\ conns = [a \in Addresses |-> 0]
    /\ recent = [list |-> <<>>, chosen |-> <<>>]
    /\ calls = 0

-------------------------------------------------------------------------------
\* The Discovery: the instances of the service change.
Change ==
    /\ now < Len(Catalog)
    /\ now' = now + 1
    /\ ch' = IF watching THEN Append(ch, now + 1) ELSE ch
    /\ UNCHANGED <<watching, cached, caller, choosing, calls>>

StartWatching ==
    /\ ~watching
    /\ watching' = TRUE
    /\ UNCHANGED <<now, ch, cached, caller, choosing, calls>>

\* The goroutine of StartWatching.
WatchStores ==
    /\ ch # <<>>
    /\ cached' = Head(ch) /\ ch' = Tail(ch)
    /\ UNCHANGED <<now, watching, caller, choosing, calls>>

-------------------------------------------------------------------------------
\* getHealthyInstances looks for the list under the read lock.
\* Mutant: a list that is not the newest is fetched again.
Lookup_Refetches(c) ==
    /\ caller[c].at = "idle" /\ calls < Picks /\ calls' = calls + 1
    /\ caller' = [caller EXCEPT ![c].at = IF cached # now THEN "fetch" ELSE "pick",
                                ![c].found = cached, ![c].version = cached]
    /\ UNCHANGED <<discovery, cached, choosing>>

Lookup(c) ==
    /\ caller[c].at = "idle" /\ calls < Picks
    /\ calls' = calls + 1
    /\ caller' = [caller EXCEPT ![c].at = IF cached = 0 THEN "fetch" ELSE "pick",
                                ![c].found = cached, ![c].version = cached]
    /\ UNCHANGED <<discovery, cached, choosing>>

\* refreshInstances: GetInstances answers or fails, then the list is stored.
Fetch(c) ==
    /\ caller[c].at = "fetch"
    /\ caller' \in {[caller EXCEPT ![c].at = "store", ![c].version = now],
                    [caller EXCEPT ![c] = Idle]}
    /\ UNCHANGED <<discovery, cached, choosing, calls>>

Store(c) ==
    /\ caller[c].at = "store"
    /\ cached' = caller[c].version
    /\ caller' = [caller EXCEPT ![c].at = "reread"]
    /\ UNCHANGED <<discovery, choosing, calls>>

Reread(c) ==
    /\ caller[c].at = "reread"
    /\ caller' = [caller EXCEPT ![c].at = "pick", ![c].version = cached]
    /\ UNCHANGED <<discovery, cached, choosing, calls>>

-------------------------------------------------------------------------------
Healthy(v) ==
    LET list == Catalog[v]
        kept[n \in 0..Len(list)] ==
            IF n = 0 THEN <<>>
            ELSE IF list[n].healthy THEN Append(kept[n - 1], list[n]) ELSE kept[n - 1]
    IN  kept[Len(list)]

\* Weights(list)[n] adds the weights of the first n instances.
Weights(list) ==
    LET sum[n \in 0..Len(list)] == IF n = 0 THEN 0 ELSE sum[n - 1] + list[n].weight
    IN  sum
TotalWeight(list) == Weights(list)[Len(list)]

\* The strategies: the choices among the positions of the list, for the value
\* of index that belongs to the list's first address.
RoundRobin(list, at) == {(at % Len(list)) + 1}

\* Mutant: the weights of the instances before are not subtracted.
Weighted_NotSubtracted(list, at) ==
    LET current == IF at >= TotalWeight(list) THEN 0 ELSE at
    IN  {n \in DOMAIN list : current < list[n].weight
                             /\ \A m \in 1..(n - 1) : current >= list[m].weight}

Weighted(list, at) ==
    LET current == IF at >= TotalWeight(list) THEN 0 ELSE at
    IN  {n \in DOMAIN list : Weights(list)[n - 1] <= current /\ current < Weights(list)[n]}

LeastConnections(list) ==
    {Min({n \in DOMAIN list : \A m \in DOMAIN list :
             conns[list[n].address] <= conns[list[m].address]})}

Candidates(list, at) ==
    CASE strategy = "random"               -> DOMAIN list
      [] strategy = "round_robin"          -> RoundRobin(list, at)
      [] strategy = "weighted_round_robin" -> Weighted(list, at)
      [] strategy = "least_connections"    -> LeastConnections(list)

\* A list whose weights add up to nothing has no candidate: nil, and no error.
Chosen(list, at) ==
    LET candidates == Candidates(list, at)
    IN  IF candidates = {} THEN {none} ELSE {list[n].address : n \in candidates}

NextIndex(list, at) ==
    CASE strategy = "round_robin"          -> (at + 1) % Len(list)
      [] strategy = "weighted_round_robin" -> (IF at >= TotalWeight(list) THEN 0 ELSE at) + 1
      [] OTHER                             -> at

\* How many choices go around the list once, and how many of them an instance gets.
Turn(list) == IF strategy = "round_robin" THEN Len(list) ELSE TotalWeight(list)
Share(i)   == IF strategy = "round_robin" THEN 1 ELSE i.weight

\* GetInstance filters the list and asks the strategy, which answers under its
\* lock.  A caller that got an instance counts a connection to it where the
\* strategy wants that, in a call of its own.
Pick(c) ==
    /\ caller[c].at = "pick"
    /\ LET list == Healthy(caller[c].version)
           key  == list[1].address
       IN IF list = <<>>
          THEN caller' = [caller EXCEPT ![c] = Idle] /\ UNCHANGED <<index, recent>>
          ELSE \E address \in Chosen(list, index[key]) :
                 /\ index' = [index EXCEPT ![key] = NextIndex(list, index[key])]
                 /\ caller' = [caller EXCEPT ![c] =
                       IF strategy = "least_connections"
                       THEN [Idle EXCEPT !.at = "chosen", !.address = address]
                       ELSE Idle]
                 /\ recent' = IF recent.list = list /\ Len(recent.chosen) < Turn(list)
                              THEN [recent EXCEPT !.chosen = Append(@, address)]
                              ELSE [list |-> list, chosen |-> <<address>>]
    /\ UNCHANGED <<discovery, cached, strategy, conns, calls>>

IncreaseConnections(c) ==
    /\ caller[c].at = "chosen"
    /\ conns' = [conns EXCEPT ![caller[c].address] = @ + 1]
    /\ caller' = [caller EXCEPT ![c].at = "connected"]
    /\ UNCHANGED <<discovery, cached, strategy, index, recent, calls>>

DecreaseConnections(c) ==
    /\ caller[c].at = "connected"
    /\ conns' = [conns EXCEPT ![caller[c].address] = IF @ > 0 THEN @ - 1 ELSE @]
    /\ caller' = [caller EXCEPT ![c] = Idle]
    /\ UNCHANGED <<discovery, cached, strategy, index, recent, calls>>

LBNext ==
    \/ Change \/ StartWatching \/ WatchStores
    \/ \E c \in Callers :
          \/ Lookup(c) \/ Fetch(c) \/ Store(c) \/ Reread(c) \/ Pick(c)
          \/ IncreaseConnections(c) \/ DecreaseConnections(c)

-------------------------------------------------------------------------------
\* Only callers that looked before the first list was stored may put an older
\* list over a newer one (refreshInstances, loadbalancer.go:107).  When they are
\* done, the newest list a watch sends is the cached one from then on.
FirstFetches == \E c \in Callers : caller[c].at \in {"fetch", "store"} /\ caller[c].found = 0

WatchedIsServed ==
    \A v \in DOMAIN Catalog :
        [](cached # 0 /\ ~FirstFetches /\ ch # <<>> /\ now = v => <>[](cached >= v))

\* One turn of a round robin strategy over a list gives every instance exactly
\* its share, whatever other lists with the same first address the strategy was
\* asked about before (RoundRobinStrategy, WeightedRoundRobinStrategy).
FairTurns ==
    (strategy \in {"round_robin", "weighted_round_robin"}
     /\ recent.list # <<>> /\ Len(recent.chosen) = Turn(recent.list)) =>
        \A n \in DOMAIN recent.list :
            Cardinality({k \in DOMAIN recent.chosen :
                            recent.chosen[k] = recent.list[n].address}) = Share(recent.list[n])

===============================================================================
