-------------------------------- MODULE MCRetry --------------------------------
(***************************************************************************)
(* What is tried again, for TLC: gretry's Do with the delays it and the    *)
(* other packages wait, and the registration gsd keeps in etcd, whose      *)
(* requests are retried and whose lease is taken anew.  They share no      *)
(* state: the initial state picks the one that runs, part.                 *)
(*                                                                         *)
(* For Do there are a negative MaxRetries, none, one and seven, with       *)
(* delays of six bits, which overflow within as many attempts.             *)
(***************************************************************************)
EXTENDS Retry

CONSTANTS Keepers, Leases, MaxRetries, none  \* EtcdRegistry

VARIABLES part,
          kv, live, call, keeper, registers, registryDone, status

etcdVars == <<kv, live, call, keeper, registers, registryDone, status>>
runVars  == <<part, vars, etcdVars>>

MCLimits == {-1, 0, 1, 7}

Etcd == INSTANCE EtcdRegistry WITH ctxDone <- registryDone

ASSUME RegistryConstants == Etcd!EtcdConstants

RunInit ==
    /\ part \in {"do", "registry"}
    /\ Init /\ (part # "do" => maxRetries = 0)
    /\ Etcd!Init

RunNext ==
    \/ part = "do" /\ Next /\ UNCHANGED <<part, etcdVars>>
    \/ part = "registry" /\ Etcd!Next /\ UNCHANGED <<part, vars>>

\* The fairness of Retry and of EtcdRegistry, each for the behaviours that use it.
Fairness ==
    /\ WF_vars(part = "do" /\ DoStep)
    /\ WF_etcdVars(/\ part = "registry"
                   /\ Etcd!RegisterGrant \/ Etcd!RegisterPut \/ Etcd!UnregisterDelete)
    /\ \A k \in Keepers :
          /\ WF_etcdVars(part = "registry" /\ Etcd!KeeperRuns(k))
          /\ SF_etcdVars(part = "registry" /\ Etcd!KeeperDone(k))
          /\ SF_etcdVars(part = "registry" /\ Etcd!KeeperGrant(k) /\ keeper'[k].at = "put")
          /\ SF_etcdVars(part = "registry" /\ Etcd!KeeperPut(k) /\ keeper'[k].at = "start")
          /\ SF_etcdVars(part = "registry" /\ Etcd!KeeperStart(k) /\ keeper'[k].at = "alive")
          /\ WF_etcdVars(/\ part = "registry"
                         /\ Etcd!ChannelCloses(k) /\ keeper[k].lease \notin live)
    /\ \A l \in Leases : WF_etcdVars(part = "registry" /\ Etcd!LeaseExpires(l))

RunSpec == RunInit /\ [][RunNext]_runVars /\ Fairness

-------------------------------------------------------------------------------
\* EtcdRegistry.Close: a closed registry leaves nothing behind; the key of its service
\* goes once its lease runs out, whatever a keepAlive is doing at that moment.
ClosedVanishes == Etcd!ClosedVanishes

\* keepAlive: once every one has had a renewal channel, the service comes back after
\* each loss of its lease, however often re-establishing it fails and however two of
\* them take the key from each other.
EstablishedRecovers == Etcd!EstablishedRecovers

===============================================================================
