----------------------------- MODULE AccessSystem -----------------------------
(***************************************************************************)
(* Access to GKE clusters: the AccessRequest controller, its neighbours,   *)
(* users, the clock, and restarts of the process.                          *)
(***************************************************************************)
EXTENDS AccessRequestController

accessVars == <<faults, neighbourVars, accessPlatformVars, accessControllerVars>>

AccessInit ==
    /\ FaultsInit
    /\ NeighboursInit
    /\ AccessPlatformInit
    /\ AccessControllerInit

-----------------------------------------------------------------------------
AccessUser ==
    /\ AccessUserNext
    /\ Enqueue(AccessEvents \cup SecretEvents)
    /\ UNCHANGED <<neighbourVars, rbac, accessWorker>>

\* Without its GKE cluster, what was on it is gone, and so is its address.
Surroundings ==
    /\ rbac' = [a \in Accesses |-> IF api'[ClusterOf[a]] = "absent" THEN {} ELSE rbac[a]]
    /\ accessWorker' = [accessWorker EXCEPT
          !.connected = @ /\ api'[ClusterOf[accessWorker.key]] # "absent"]
    /\ UNCHANGED <<faults, accessPlatformVars, due>>

Neighbour == NeighboursStep /\ Surroundings

\* A tick is a good part of a token's life of 30 days: no pass takes that long.
Tick ==
    /\ accessWorker.pc = "idle"
    /\ secret' = [a \in Accesses |->
          IF secret[a].kind = "token" /\ secret[a].age < RenewAge
          THEN [secret[a] EXCEPT !.age = @ + 1] ELSE secret[a]]
    /\ due' = [a \in Accesses |-> IF due[a] \in 1..RenewAge THEN due[a] - 1 ELSE due[a]]
    /\ UNCHANGED <<faults, neighbourVars, access, rbac, accessWorker>>

\* The process starts again: its memory is gone, and the watches begin with every
\* AccessRequest and Secret that exists.  One more fault, for the bound.
AccessRestart ==
    /\ Fault("crash")
    /\ Forget
    /\ accessWorker' = IdleAccessWorker
    /\ due' = [a \in Accesses |->
          IF (access[a].exists /\ access[a].op # "ignore") \/ secret[a].kind # "absent"
          THEN 0 ELSE Never]
    /\ UNCHANGED <<accessPlatformVars, rbac>>

AccessNext == AccessUser \/ Neighbour \/ AccessControllerNext \/ Tick \/ AccessRestart

AccessSpec == AccessInit /\ [][AccessNext]_accessVars

-----------------------------------------------------------------------------
(***************************************************************************)
(* Fairness, as in ClusterProvider: the worker takes its next step, queues *)
(* are served first come, first served, and other passes release the lock. *)
(* The cache lists its Secrets again every ten hours.                      *)
(***************************************************************************)
AccessFairness ==
    /\ WF_accessVars(AccessStep)
    /\ SF_accessVars(AccessGet)
    /\ WF_accessVars(Publish /\ Surroundings)
    /\ \A a \in Accesses :
        /\ SF_accessVars(AccessDequeue(a))
        /\ WF_accessVars(Resync(a))

AccessLiveSpec == AccessSpec /\ AccessFairness

-----------------------------------------------------------------------------
(***************************************************************************)
(* Safety.                                                                 *)
(***************************************************************************)
\* Every variable has its type: what the other statements take for granted.
AccessTypeOK ==
    /\ FaultsType
    /\ NeighboursType
    /\ AccessPlatformType
    /\ AccessControllerType

\* While there is a service account, a role or a binding for an AccessRequest on
\* its GKE cluster, the AccessRequest exists and carries the provider's finalizer
\* (handleCreateOrUpdate, handleDelete, cleanupResources failing half way).
AccessGuarded == \A a \in Accesses : rbac[a] # {} => access[a].exists /\ access[a].own

\* The last word on a is that its current specification is granted.
Settles(a) ==
    /\ access[a].exists /\ ~access[a].deleting
    /\ Granted(access[a])

\* A granted AccessRequest has no object on the GKE cluster that its present
\* specification does not ask for (cleanupResources, "stale RBAC resources from
\* previous versions of this request").
NothingStale == \A a \in Accesses : Settles(a) => rbac[a] \subseteq Wanted(access[a].spec)

\* a is reconciled now, or as soon as the worker is free.
Attended(a) == due[a] = 0 \/ accessWorker.key = a \/ access[a].op = "ignore"

\* The token of a granted AccessRequest is in its Secret and will be renewed in
\* time: a pass is due no later than the token (RequeueAfter, across restarts,
\* failed passes and deleted Secrets).
RenewalInTime ==
    \A a \in Accesses :
        Settles(a) /\ access[a].spec.kind = "token" =>
            \/ Attended(a)
            \/ secret[a].kind = "token" /\ secret[a].age + due[a] <= RenewAge

\* No AccessRequest is forgotten: one that is not granted, or is to be deleted, is
\* reconciled now or as soon as the worker is free, whatever failed, and whenever
\* in a pass it changed (the predicates of the watch, requeues on every error).
NoAccessForgotten ==
    \A a \in Accesses :
        access[a].exists /\ (access[a].deleting \/ access[a].phase # "Granted") => Attended(a)

-----------------------------------------------------------------------------
\* A kubeconfig is handed out only when all it stands for is on the GKE cluster, if
\* that is still there: errors in the loops end the handler before the Secret.
HandedOutComplete ==
    [][\A a \in Accesses :
        secret'[a].kind # "absent" /\ (secret[a].kind # secret'[a].kind \/ secret'[a].age < secret[a].age)
            => \/ Wanted(accessWorker.spec) \subseteq rbac[a]
               \/ ~accessWorker.connected]_accessVars

\* When an AccessRequest is granted, all it asks for is on the GKE cluster, if the
\* pass still has that, and while it is granted no step takes any of it away; only
\* with the GKE cluster it goes (README.md, "Request cluster access").
GrantedPermissions ==
    [][\A a \in Accesses :
        Settles(a)' =>
            LET wanted == Wanted(access'[a].spec) IN
            IF Settles(a)
            THEN wanted \cap rbac[a] \subseteq rbac'[a] \/ api'[ClusterOf[a]] = "absent"
            ELSE wanted \subseteq rbac'[a] \/ ~accessWorker.connected]_accessVars

-----------------------------------------------------------------------------
(***************************************************************************)
(* AccessRequests follow the finalizer protocol, as Clusters do: they      *)
(* guard what is on their GKE clusters, which may also go with the latter. *)
(***************************************************************************)
AccessFinalizers == INSTANCE FinalizerProtocol WITH
    Objects <- Accesses,
    live <- {a \in Accesses : access[a].exists},
    guarded <- {a \in Accesses : access[a].own},
    external <- {a \in Accesses : rbac[a] # {}}

\* AccessRequestFinalizer implements the protocol for accounts, roles and bindings.
AccessFinalizerProtocol == AccessFinalizers!ProtocolSpec

-----------------------------------------------------------------------------
(***************************************************************************)
(* Liveness, under AccessLiveSpec.                                         *)
(***************************************************************************)
\* a's Cluster exists, its profile is loaded and its GKE cluster works.
Resolvable(a) ==
    LET c == ClusterOf[a] IN
    c \in live /\ profiles[ProfileOf[c]] # NoProfile /\ api[c] = "serving"

Usable(a) == access[a].exists /\ ~access[a].deleting /\ access[a].op # "ignore" /\ Resolvable(a)

\* An AccessRequest is granted, in its latest version, and remains so, and its
\* token is fresh again and again, whatever fails, is late or deleted on the way.
AccessServed ==
    \A a \in Accesses :
        <>[]Usable(a) => /\ <>[]Settles(a)
                         /\ []<>(secret[a].kind # "absent" /\ secret[a].age < RenewAge)

\* A deleted AccessRequest goes away, and all its objects with it, provided that
\* they can be reached (handleDelete: requeue on every error).
AccessDeletionCompletes ==
    \A a \in Accesses :
        <>[](Resolvable(a) /\ access[a].op # "ignore") =>
            (access[a].deleting ~> ~access[a].exists /\ rbac[a] = {})

-----------------------------------------------------------------------------
(***************************************************************************)
(* What comments and the README say, and the code does not always keep.    *)
(***************************************************************************)
\* README.md, "Request cluster access": once granted, a Secret with a kubeconfig
\* is in the namespace; handleCreateOrUpdate, "skip if already granted, secret
\* exists and is still valid".  Of OIDC, too.
GrantedHasSecret ==
    \A a \in Accesses : Settles(a) => Attended(a) \/ secret[a].kind # "absent"

\* api/v1alpha1/constants.go: AccessRequestFinalizer is placed on AccessRequests
\* while RBAC is being managed - and not for ever after (handleDelete).
ReleasedWithoutRBAC ==
    \A a \in Accesses :
        ~<>[](access[a].deleting /\ access[a].op # "ignore" /\ rbac[a] = {})
=============================================================================
