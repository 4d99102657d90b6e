----------------------------- MODULE EtcdRegistry -----------------------------
(***************************************************************************)
(* gsd/etcd.go: the registration of one service.  A caller registers and   *)
(* unregisters it and in the end closes the registry; every Register that  *)
(* succeeds leaves a keepAlive goroutine behind, which takes a lease of    *)
(* its own, puts the key again and renews the lease, until the registry's  *)
(* context is done.  The store is external: a key may be attached to one   *)
(* lease and goes when that lease runs out.                                *)
(*                                                                         *)
(* A request to the store takes effect and is answered, takes effect and   *)
(* the answer is lost, or fails; once the context is done it fails.        *)
(***************************************************************************)
EXTENDS Integers, FiniteSets

CONSTANTS Keepers,     \* the keepAlive goroutines, one per Register: 1..n
          Leases,      \* lease identities; one that is over is used again
          MaxRetries,  \* ErrorHandlingOptions.MaxRetries
          none

\* What the constants must be.
EtcdConstants ==
    /\ Keepers = 1..Cardinality(Keepers)
    /\ MaxRetries \in Nat

VARIABLES kv,         \* the lease the key is attached to, none if it is absent
          live,       \* the leases that have not run out
          call,       \* the caller: [op, at, attempt, lease]
          keeper,     \* keeper -> [at, lease, established]
          registers,  \* history: the Register calls made, at most |Keepers|
          ctxDone,    \* e.ctx is cancelled: Close was called
          status      \* history: "in" after a Register that succeeded, "out"
                      \* after an Unregister that did, "unsettled" otherwise

vars == <<kv, live, call, keeper, registers, ctxDone, status>>

NoCall == [op |-> "none", attempt |-> 0, lease |-> none]

Init ==
    /\ kv = none
    /\ live = {}
    /\ call = NoCall
    /\ keeper = [k \in Keepers |-> [at |-> "none", lease |-> none, established |-> FALSE]]
    /\ registers = 0
    /\ ctxDone = FALSE
    /\ status = "unsettled"

\* The outcomes of a Put or a Delete.
Outcomes == IF ctxDone THEN {"failed"} ELSE {"ok", "lost", "failed"}

\* lease.Grant: a lease that is neither live nor known to anybody.  A grant
\* whose answer is lost leaves a lease that nobody ever uses: it is a failure.
Unused == Leases \ (live \cup {call.lease} \cup {keeper[k].lease : k \in Keepers})
NewLease == CHOOSE l \in Unused : TRUE

Grant(granted) ==
    /\ granted => ~ctxDone /\ Unused # {}
    /\ live' = IF granted THEN live \cup {NewLease} ELSE live

\* client.Put with a lease: an error if the lease has run out.
Put(outcome, l) ==
    /\ outcome = "ok" => l \in live
    /\ kv' = IF outcome = "failed" \/ l \notin live THEN kv ELSE l

-------------------------------------------------------------------------------
\* Register, Unregister and retryWithBackoff.  An error is retried, as long as
\* attempts are left, or not, as options.ShouldRetry says.
Retry(op) ==
    \/ /\ call.attempt < MaxRetries
       /\ call' = [op |-> op, attempt |-> call.attempt + 1, lease |-> none]
    \/ call' = NoCall

CallRegister ==
    /\ call.op = "none" /\ registers < Cardinality(Keepers)
    /\ registers' = registers + 1
    /\ call' = [NoCall EXCEPT !.op = "grant"]
    /\ status' = "unsettled"
    /\ UNCHANGED <<kv, live, keeper, ctxDone>>

RegisterGrant ==
    /\ call.op = "grant"
    /\ \E granted \in BOOLEAN :
          /\ Grant(granted)
          /\ IF granted THEN call' = [call EXCEPT !.op = "put", !.lease = NewLease]
             ELSE Retry("grant")
    /\ UNCHANGED <<kv, keeper, registers, ctxDone, status>>

\* Mutant: the key is put without its lease.
RegisterPut_NoLease ==
    /\ call.op = "put"
    /\ \E outcome \in Outcomes :
          /\ kv' = IF outcome = "failed" THEN kv ELSE "permanent"
          /\ IF outcome = "ok"
             THEN /\ call' = NoCall
                  /\ keeper' = [keeper EXCEPT ![registers].at = "grant"]
                  /\ status' = "in"
             ELSE Retry("grant") /\ UNCHANGED <<keeper, status>>
    /\ UNCHANGED <<live, registers, ctxDone>>

RegisterPut ==
    /\ call.op = "put"
    /\ \E outcome \in Outcomes :
          /\ Put(outcome, call.lease)
          /\ IF outcome = "ok"
             THEN /\ call' = NoCall
                  /\ keeper' = [keeper EXCEPT ![registers].at = "grant"]
                  /\ status' = "in"
             ELSE Retry("grant") /\ UNCHANGED <<keeper, status>>
    /\ UNCHANGED <<live, registers, ctxDone>>

CallUnregister ==
    /\ call.op = "none" /\ registers > 0
    /\ call' = [NoCall EXCEPT !.op = "delete"]
    /\ status' = "unsettled"
    /\ UNCHANGED <<kv, live, keeper, registers, ctxDone>>

UnregisterDelete ==
    /\ call.op = "delete"
    /\ \E outcome \in Outcomes :
          /\ kv' = IF outcome = "failed" THEN kv ELSE none
          /\ IF outcome = "ok" THEN call' = NoCall /\ status' = "out"
             ELSE Retry("delete") /\ UNCHANGED status
    /\ UNCHANGED <<live, keeper, registers, ctxDone>>

Close ==
    /\ ~ctxDone
    /\ ctxDone' = TRUE
    /\ UNCHANGED <<kv, live, call, keeper, registers, status>>

-------------------------------------------------------------------------------
\* Mutant: the goroutine gives up on every failure.
Failed_GivesUp(k) == [keeper[k] EXCEPT !.lease = none, !.at = "done"]

\* keepAlive.  A failure of the first keepAliveFunc ends the goroutine; after
\* that a failure is followed by a pause and another attempt.
Failed(k) == [keeper[k] EXCEPT !.lease = none,
                               !.at = IF keeper[k].established THEN "closed" ELSE "done"]

KeeperGrant(k) ==
    /\ keeper[k].at = "grant"
    /\ \E granted \in BOOLEAN :
          /\ Grant(granted)
          /\ keeper' = [keeper EXCEPT ![k] =
                          IF granted THEN [@ EXCEPT !.at = "put", !.lease = NewLease]
                          ELSE Failed(k)]
    /\ UNCHANGED <<kv, call, registers, ctxDone, status>>

KeeperPut(k) ==
    /\ keeper[k].at = "put"
    /\ \E outcome \in Outcomes :
          /\ Put(outcome, keeper[k].lease)
          /\ keeper' = [keeper EXCEPT ![k] =
                          IF outcome = "ok" THEN [@ EXCEPT !.at = "start"]
                          ELSE Failed(k)]
    /\ UNCHANGED <<live, call, registers, ctxDone, status>>

\* lease.KeepAlive: a channel of renewals, or an error.
KeeperStart(k) ==
    /\ keeper[k].at = "start"
    /\ \E started \in BOOLEAN :
          /\ started => ~ctxDone
          /\ keeper' = [keeper EXCEPT ![k] =
                          IF started THEN [@ EXCEPT !.at = "alive", !.established = TRUE]
                          ELSE Failed(k)]
    /\ UNCHANGED <<kv, live, call, registers, ctxDone, status>>

\* The renewals stop: the lease ran out, the connection broke, or ctx is done.
ChannelCloses(k) ==
    /\ keeper[k].at = "alive"
    /\ keeper' = [keeper EXCEPT ![k] = [@ EXCEPT !.at = "closed", !.lease = none]]
    /\ UNCHANGED <<kv, live, call, registers, ctxDone, status>>

\* The select sees the closed channel: pause, and call keepAliveFunc again.
Reestablish(k) ==
    /\ keeper[k].at = "closed"
    /\ keeper' = [keeper EXCEPT ![k].at = "grant"]
    /\ UNCHANGED <<kv, live, call, registers, ctxDone, status>>

\* The select sees ctx.Done().
KeeperDone(k) ==
    /\ keeper[k].at \in {"alive", "closed"} /\ ctxDone
    /\ keeper' = [keeper EXCEPT ![k] = [@ EXCEPT !.at = "done", !.lease = none]]
    /\ UNCHANGED <<kv, live, call, registers, ctxDone, status>>

\* The store: a lease nobody renews runs out, and its key goes.
LeaseExpires(l) ==
    /\ l \in live
    /\ \A k \in Keepers : ~(keeper[k].at = "alive" /\ keeper[k].lease = l)
    /\ live' = live \ {l}
    /\ kv' = IF kv = l THEN none ELSE kv
    /\ UNCHANGED <<call, keeper, registers, ctxDone, status>>

Next ==
    \/ CallRegister \/ RegisterGrant \/ RegisterPut
    \/ CallUnregister \/ UnregisterDelete \/ Close
    \/ \E k \in Keepers : \/ KeeperGrant(k) \/ KeeperPut(k) \/ KeeperStart(k)
                          \/ ChannelCloses(k) \/ Reestablish(k) \/ KeeperDone(k)
    \/ \E l \in Leases : LeaseExpires(l)

KeeperRuns(k) == KeeperGrant(k) \/ KeeperPut(k) \/ KeeperStart(k) \/ Reestablish(k)

\* Calls and goroutines go on; leases run out; a request made again and again
\* is answered at some time; the renewals of a lease that is over stop; a
\* select takes each case at some time.
Fairness ==
    /\ WF_vars(RegisterGrant \/ RegisterPut \/ UnregisterDelete)
    /\ \A k \in Keepers :
          /\ WF_vars(KeeperRuns(k)) /\ SF_vars(KeeperDone(k))
          /\ SF_vars(KeeperGrant(k) /\ keeper'[k].at = "put")
          /\ SF_vars(KeeperPut(k) /\ keeper'[k].at = "start")
          /\ SF_vars(KeeperStart(k) /\ keeper'[k].at = "alive")
          /\ WF_vars(ChannelCloses(k) /\ keeper[k].lease \notin live)
    /\ \A l \in Leases : WF_vars(LeaseExpires(l))

Spec == Init /\ [][Next]_vars /\ Fairness

-------------------------------------------------------------------------------
\* A closed registry leaves nothing behind: the key of its service goes
\* once its lease runs out, even though Close neither deletes the key nor
\* revokes a lease, and whatever a keepAlive is doing at that moment.
ClosedVanishes == ctxDone ~> kv = none

\* Once every keepAlive has had a renewal channel, the service comes back after
\* each loss of its lease, however often and wherever re-establishing it fails
\* and however two of them take the key from each other.  (One of two that has
\* not can take the key to a lease that it then never renews.)
EstablishedRecovers ==
    (status = "in" /\ kv = none /\ \A k \in 1..registers : keeper[k].established)
        ~> (kv # none \/ status # "in" \/ ctxDone)

\* "Unregister the service" (etcd.go:145): once Unregister has succeeded, and
\* until Register is called again, the service is not registered.
UnregisteredIsAbsent == status = "out" => kv = none

===============================================================================
