--------------------------- MODULE ServiceDirectory ---------------------------
(***************************************************************************)
(* gsd: who learns what about the instances of one service.  rev counts    *)
(* the changes of its keys in etcd, which is external, and stands for the  *)
(* list they make.  The goroutine of EtcdRegistry.Watch hands lists to a   *)
(* handler; ServiceManager caches one and selects from it.                 *)
(***************************************************************************)
EXTENDS Integers, Sequences, FiniteSets

CONSTANTS Users,      \* goroutines that use the ServiceManager
          MaxRev,     \* changes of the keys
          Members,    \* rev -> the number of instances in the list
          MaxCalls    \* calls of the ServiceManager

VARIABLES rev,      \* changes of the service's keys so far
          closed,   \* the registry is closed: its context is done
          watcher,  \* [at, got] of the Watch goroutine
          events,   \* the responses in the watch channel
          view,     \* the list the handler was last called with, -1 before
          missed,   \* history: the watch was not there, or its Discover failed
          services, \* sm.services: the cached list, -1 when there is none
          user,     \* user -> [at, began, got, healthy]
          lb,       \* sm.lb, a RoundRobinLoadBalancer: current, -1 for nil
          used      \* history: calls of the ServiceManager

store   == <<rev, closed>>
watch   == <<watcher, events, view, missed>>
manager == <<services, user, lb, used>>
sdVars  == <<store, watch, manager>>

NoUser == [at |-> "idle", began |-> -1, got |-> -1, healthy |-> 0]

SDInit ==
    /\ rev = 0 /\ closed = FALSE
    /\ watcher = [at |-> "initial", got |-> -1]
    /\ events = <<>> /\ view = -1 /\ missed = FALSE
    /\ services = -1 /\ lb = -1 /\ used = 0
    /\ user = [u \in Users |-> NoUser]

Watched == watcher.at \in {"range", "refresh", "handle"}
           /\ \A i \in DOMAIN events : events[i] = "event"

\* A key of the service is put or deleted.  A watch that is open is told.
Put ==
    /\ rev < MaxRev /\ ~closed
    /\ rev' = rev + 1
    /\ events' = IF Watched THEN Append(events, "event") ELSE events
    /\ missed' = (missed \/ ~Watched)
    /\ UNCHANGED <<closed, watcher, view, manager>>

\* The server gives up a watch: what comes after this response is lost.
Cancel ==
    /\ Watched /\ ~closed
    /\ events' = Append(events, "canceled")
    /\ UNCHANGED <<store, watcher, view, missed, manager>>

Close ==
    /\ ~closed
    /\ closed' = TRUE
    /\ UNCHANGED <<rev, watch, manager>>

-------------------------------------------------------------------------------
\* EtcdRegistry.Discover, with the retries of retryWithBackoff: the list as of
\* some moment of the call, or an error.
Discover(got) == got = rev /\ ~closed

WatchInitial ==
    /\ watcher.at = "initial"
    /\ \/ Discover(rev) /\ watcher' = [at |-> "first", got |-> rev]
       \/ watcher' = [watcher EXCEPT !.at = "open"]
    /\ UNCHANGED <<store, events, view, missed, manager>>

WatchFirst ==
    /\ watcher.at = "first"
    /\ view' = watcher.got
    /\ watcher' = [watcher EXCEPT !.at = "open"]
    /\ UNCHANGED <<store, events, missed, manager>>

WatchOpen ==
    /\ watcher.at = "open"
    /\ watcher' = [watcher EXCEPT !.at = "range"]
    /\ events' = <<>> /\ missed' = (view < rev)
    /\ UNCHANGED <<store, view, manager>>

\* Mutant: the list is fetched before the event is received.
WatchReceive_Early ==
    /\ watcher.at = "range" /\ events # <<>> /\ ~closed
    /\ watcher' = [watcher EXCEPT !.at = IF Head(events) = "canceled" THEN "again" ELSE "handle"]
    /\ events' = Tail(events)
    /\ UNCHANGED <<store, view, missed, manager>>

WatchReceive ==
    /\ watcher.at = "range" /\ events # <<>> /\ ~closed
    /\ watcher' = [watcher EXCEPT !.at = IF Head(events) = "canceled" THEN "again" ELSE "refresh"]
    /\ events' = Tail(events)
    /\ UNCHANGED <<store, view, missed, manager>>

\* An error leaves the handler with the old list until the next event.
WatchRefresh ==
    /\ watcher.at = "refresh"
    /\ \/ Discover(rev) /\ watcher' = [at |-> "handle", got |-> rev] /\ UNCHANGED missed
       \/ watcher' = [watcher EXCEPT !.at = "range"] /\ missed' = TRUE
    /\ UNCHANGED <<store, events, view, manager>>

WatchHandle ==
    /\ watcher.at = "handle"
    /\ view' = watcher.got
    /\ watcher' = [watcher EXCEPT !.at = "range"]
    /\ missed' = (missed /\ view' < rev)
    /\ UNCHANGED <<store, events, manager>>

\* The channel of a closed client is closed: the range ends as after a break.
\* Mutant: nobody looks at the context.
WatchAgain_Forever ==
    /\ watcher.at = "again" \/ (watcher.at = "range" /\ closed)
    /\ watcher' = [watcher EXCEPT !.at = "open"]
    /\ UNCHANGED <<store, events, view, missed, manager>>

WatchAgain ==
    /\ watcher.at = "again" \/ (watcher.at = "range" /\ closed)
    /\ watcher' = [watcher EXCEPT !.at = IF closed THEN "done" ELSE "open"]
    /\ UNCHANGED <<store, events, view, missed, manager>>

-------------------------------------------------------------------------------
\* ServiceManager: SelectServiceWithHealthCheck, and DiscoverAndCache on its own.
Call(u) ==
    /\ user[u].at = "idle" /\ used < MaxCalls /\ used' = used + 1
    /\ \E at \in {"refresh", IF services = -1 THEN "discover" ELSE "check"} :
          user' = [user EXCEPT ![u] = [NoUser EXCEPT !.at = at, !.began = services, !.got = services]]
    /\ UNCHANGED <<store, watch, services, lb>>

\* Mutant: an attempt that failed leaves the list of an earlier call.
DiscoverAndCache_Stale(u) ==
    /\ user[u].at \in {"refresh", "discover"}
    /\ \/ \E old \in 0..rev : user' = [user EXCEPT ![u].got = old,
                   ![u].at = IF @ = "refresh" THEN "store" ELSE "fill"]
       \/ user' = [user EXCEPT ![u] = NoUser]
    /\ UNCHANGED <<store, watch, services, lb, used>>

DiscoverAndCache(u) ==
    /\ user[u].at \in {"refresh", "discover"}
    /\ \/ Discover(rev) /\ user' = [user EXCEPT ![u].got = rev,
                   ![u].at = IF @ = "refresh" THEN "store" ELSE "fill"]
       \/ user' = [user EXCEPT ![u] = NoUser]
    /\ UNCHANGED <<store, watch, services, lb, used>>

CacheStore(u) ==
    /\ user[u].at \in {"store", "fill"}
    /\ services' = user[u].got
    /\ user' = [user EXCEPT ![u] = IF @.at = "store" THEN NoUser ELSE [@ EXCEPT !.at = "reread"]]
    /\ UNCHANGED <<store, watch, lb, used>>

GetCachedService(u) ==
    /\ user[u].at = "reread"
    /\ user' = [user EXCEPT ![u].at = "check", ![u].got = services]
    /\ UNCHANGED <<store, watch, services, lb, used>>

\* FilterHealthyServices asks the instances one by one; any of them may fail.
FilterHealthyServices(u) ==
    /\ user[u].at = "check"
    /\ \E n \in 0..Members[user[u].got + 1] :
          user' = [user EXCEPT ![u] = IF n = 0 THEN NoUser
                       ELSE [@ EXCEPT !.healthy = n, !.at = IF lb = -1 THEN "create" ELSE "select"]]
    /\ UNCHANGED <<store, watch, services, lb, used>>

\* The load balancer is created without a lock.
CreateLB(u) ==
    /\ user[u].at = "create"
    /\ lb' = 0
    /\ user' = [user EXCEPT ![u].at = "select"]
    /\ UNCHANGED <<store, watch, services, used>>

Select(u) ==
    /\ user[u].at = "select"
    /\ lb' = lb + 1
    /\ user' = [user EXCEPT ![u] = NoUser]
    /\ UNCHANGED <<store, watch, services, used>>

Watcher == WatchInitial \/ WatchFirst \/ WatchOpen \/ WatchReceive \/ WatchRefresh
           \/ WatchHandle \/ WatchAgain

SDNext ==
    \/ Put \/ Cancel \/ Close \/ Watcher
    \/ \E u \in Users :
          \/ Call(u) \/ DiscoverAndCache(u) \/ CacheStore(u) \/ GetCachedService(u)
          \/ FilterHealthyServices(u) \/ CreateLB(u) \/ Select(u)

-------------------------------------------------------------------------------
\* The handler of Watch ends up with the newest list, or something happened that
\* Watch does not make good: a change between a Discover and the next Watch call
\* (etcd.go:204), a Discover that failed after an event, or Close.
HandlerCatchesUp == [](rev = MaxRev => <>(view = rev \/ missed \/ closed))

\* A closed registry stops its watch goroutine, wherever it is.
CloseEndsWatch == closed ~> watcher.at = "done"

\* A list that is about to be cached is not older than the one that was cached
\* when its call began: only calls that overlap take the cache back in time.
StoresNoOlder ==
    \A u \in Users : user[u].at \in {"store", "fill"} => user[u].got >= user[u].began

===============================================================================
