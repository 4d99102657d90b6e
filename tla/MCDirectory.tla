----------------------------- MODULE MCDirectory ------------------------------
(***************************************************************************)
(* Who learns of a service's instances and chooses among them, for TLC:    *)
(* glb's LoadBalancer, and gsd's watch and ServiceManager.  They share no  *)
(* state: the initial state picks the one that runs, part.                 *)
(***************************************************************************)
EXTENDS Integers, Sequences, FiniteSets

CONSTANTS Callers, Catalog, Picks, none,  \* LoadBalancer
          Users, MaxRev, MaxCalls         \* ServiceDirectory

VARIABLES part,
          now, watching, ch, cached, caller, strategy, index, conns, recent, calls,
          rev, closed, watcher, events, view, missed, services, user, lb, used

lbVars == <<now, watching, ch, cached, caller, strategy, index, conns, recent, calls>>
sdVars == <<rev, closed, watcher, events, view, missed, services, user, lb, used>>
vars   == <<part, lbVars, sdVars>>

\* Lists that begin with the same instance, one of weight zero and one that is not
\* healthy, and a list without a healthy instance.
I(a, h, w) == [address |-> a, healthy |-> h, weight |-> w]
MCCatalog == << <<I("a", TRUE, 1), I("b", TRUE, 2)>>,
                <<I("a", TRUE, 0), I("b", FALSE, 1), I("c", TRUE, 1)>>,
                <<I("b", FALSE, 1)>> >>

\* The first list of ServiceDirectory is empty, the others are of one and two.
Members == <<0, 1, 2>>

LB == INSTANCE LoadBalancer
SD == INSTANCE ServiceDirectory

\* No list has an address twice, and no weight is negative.
ASSUME DirectoryConstants ==
    /\ Catalog \in Seq(Seq([address : LB!Addresses, healthy : BOOLEAN, weight : Nat])) /\ Catalog # <<>>
    /\ \A v \in DOMAIN Catalog : \A m, n \in DOMAIN Catalog[v] :
          m # n => Catalog[v][m].address # Catalog[v][n].address

Init ==
    /\ part \in {"balancer", "directory"}
    /\ LB!LBInit /\ (part # "balancer" => strategy = "random")
    /\ SD!SDInit

Next ==
    \/ part = "balancer" /\ LB!LBNext /\ UNCHANGED <<part, sdVars>>
    \/ part = "directory" /\ SD!SDNext /\ UNCHANGED <<part, lbVars>>

\* The watch goroutines run, each in the behaviours that use it.
Fairness == /\ WF_lbVars(part = "balancer" /\ LB!WatchStores)
            /\ WF_sdVars(part = "directory" /\ SD!Watcher)

Spec == Init /\ [][Next]_vars /\ Fairness

-------------------------------------------------------------------------------
\* RoundRobinStrategy, WeightedRoundRobinStrategy: one turn over a list gives every
\* instance exactly its share, whatever other lists with the same first address the
\* strategy was asked about before, and whoever asked.
FairTurns == part = "balancer" => LB!FairTurns

\* DiscoverAndCache: a list that is about to be cached is not older than the one that
\* was cached when its call began; only calls that overlap take the cache back in time.
StoresNoOlder == SD!StoresNoOlder

\* What a watch sees arrives: LoadBalancer's newest list is the cached one from then
\* on, but for callers that looked before there was any; the handler of
\* EtcdRegistry.Watch ends up with the newest list unless a change fell between a
\* Discover and the next watch, or a Discover failed; and Close ends the watch.
WatchDelivers ==
    /\ LB!WatchedIsServed
    /\ SD!HandlerCatchesUp
    /\ SD!CloseEndsWatch

===============================================================================
