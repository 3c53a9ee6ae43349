--------------------------- MODULE ClusterProvider ---------------------------
(***************************************************************************)
(* The provider process on its platform: the ProviderConfig and the        *)
(* Cluster controller around one RuntimeConfiguration, with the            *)
(* AccessRequest controller as another reader of it                        *)
(* (cmd/cluster-provider-gcp/app), the API server with its users, GKE, and *)
(* restarts of the process.                                                *)
(***************************************************************************)
EXTENDS ClusterController

VARIABLE crashes    \* restarts so far, at most MaxCrashes

processVars == <<runtimeVars, configQueue, profileEvents, configWorker,
                 clusterQueue, clusterWorker>>

vars == <<platformVars, gke, faults, processVars, crashes>>

Init ==
    /\ FaultsInit
    /\ PlatformInit
    /\ GKEInit
    /\ RuntimeInit
    /\ ConfigControllerInit
    /\ ClusterControllerInit
    /\ crashes = 0

-----------------------------------------------------------------------------
\* The watches see what users do.
User ==
    /\ UserNext
    /\ configQueue' = configQueue \cup ConfigEvents
    /\ clusterQueue' = clusterQueue \cup ClusterEvents
    /\ UNCHANGED <<gke, runtimeVars, profileEvents, configWorker, clusterWorker, crashes>>

Cloud == GKENext /\ UNCHANGED <<platformVars, processVars, crashes>>

ConfigFrame == UNCHANGED <<gke, clusterQueue, clusterWorker, crashes>>

ConfigReconciler == ConfigControllerNext /\ ConfigFrame

ClusterReconciler == ClusterControllerNext /\ UNCHANGED crashes

\* The AccessRequest controller as the other two meet it: a pass takes the read lock
\* and gives it back.  AccessSystem has what it does in between.
OtherReaders == Readers \ {"Cluster"}

ReaderFrame ==
    UNCHANGED <<platformVars, gke, faults, providerConfigs, profiles, configQueue,
                profileEvents, configWorker, clusterQueue, clusterWorker, crashes>>

ReaderEnters(r) == r \notin rwlock.readers /\ RLock(r) /\ ReaderFrame

ReaderLeaves(r) == r \in rwlock.readers /\ RUnlock(r) /\ ReaderFrame

OtherReconciler == \E r \in OtherReaders : ReaderEnters(r) \/ ReaderLeaves(r)

\* The process ends at any point and starts again: its memory is gone, and each
\* watch begins with every resource that exists.
Restart ==
    /\ crashes < MaxCrashes
    /\ crashes' = crashes + 1
    /\ rwlock' = NewRwlock
    /\ providerConfigs' = {}
    /\ profiles' = NewProfiles
    /\ configWorker' = IdleConfigWorker
    /\ clusterWorker' = IdleClusterWorker
    /\ configQueue' = {n \in Configs : config[n].exists /\ config[n].op # "ignore"}
    /\ clusterQueue' = {c \in Clusters : cluster[c].exists /\ cluster[c].op # "ignore"}
    /\ profileEvents' = {n \in Configs : clusterProfile[n] # "absent"}
    /\ UNCHANGED <<platformVars, gke, faults>>

Next == User \/ Cloud \/ ConfigReconciler \/ ClusterReconciler \/ OtherReconciler \/ Restart

Spec == Init /\ [][Next]_vars

-----------------------------------------------------------------------------
(***************************************************************************)
(* Fairness: what the process and GKE do by themselves.  Users are free to *)
(* do nothing.  A worker takes the next step of its reconciliation (weak), *)
(* and a pass of the AccessRequest controller ends.                        *)
(* Work queues serve first come, first served, so a key is not passed over *)
(* for ever; and when a sync.RWMutex writer leaves, waiting readers enter  *)
(* before the next writer (strong).                                        *)
(***************************************************************************)
Fairness ==
    /\ WF_vars(ConfigStep /\ ConfigFrame)
    /\ WF_vars(ClusterStep /\ UNCHANGED crashes)
    /\ SF_vars(ClusterGet /\ UNCHANGED crashes)
    /\ \A r \in OtherReaders : WF_vars(ReaderLeaves(r))
    /\ \A n \in Configs :
        /\ SF_vars(ConfigDequeue(n) /\ ConfigFrame)
        /\ WF_vars(DeliverProfileEvent(n) /\ UNCHANGED crashes)
    /\ \A c \in Clusters :
        /\ SF_vars(ClusterDequeue(c) /\ UNCHANGED crashes)
        /\ \A l \in Locations :
            WF_vars(GKEProgress(l, c) /\ UNCHANGED <<platformVars, processVars, crashes>>)

LiveSpec == Spec /\ Fairness

-----------------------------------------------------------------------------
(***************************************************************************)
(* Safety.                                                                 *)
(***************************************************************************)
\* Every variable has its type: what the other statements take for granted.
TypeOK ==
    /\ FaultsType
    /\ PlatformType
    /\ GKEType
    /\ RuntimeType
    /\ ConfigControllerType
    /\ ClusterControllerType
    /\ crashes \in Nat

\* The config behind Cluster c keeps its project and region for good.
Settled(c) == ProfileOf[c] \notin Relocatable

\* While a GKE cluster exists, its Cluster resource exists and carries the
\* provider's finalizer (handleCreateOrUpdate and handleDelete of the Cluster
\* controller, across failed calls, restarts and reloaded profiles).
NoOrphan ==
    \A c \in Clusters, l \in Locations :
        Settled(c) /\ Present(l, c) => cluster[c].exists /\ cluster[c].own

\* While a ClusterProfile is advertised, its ProviderConfig exists and carries
\* the provider's finalizer (the two handlers of the ProviderConfig controller).
ProfileGuarded ==
    \A n \in Configs : clusterProfile[n] # "absent" => config[n].exists /\ config[n].own

\* A Cluster is worked on with a profile that is still the loaded one: no
\* ProviderConfig is reconciled under a running Cluster reconciliation (RLock).
SnapshotCurrent ==
    clusterWorker.location # NoProfile =>
        clusterWorker.location = profiles[ProfileOf[clusterWorker.key]]

\* n's reconciliation is due or in progress.
ConfigPending(n) == n \in configQueue \/ configWorker.key = n

\* A loaded profile is that of the ProviderConfig as it is now, or the config
\* is due to be reconciled: a missed event never leaves a stale profile.
ProfileTracksConfig ==
    \A n \in Configs :
        profiles[n] # NoProfile =>
            \/ config[n].own /\ profiles[n] = config[n].location
            \/ config[n].op = "ignore"
            \/ ConfigPending(n)

\* A ClusterProfile that schedulers can see has its profile loaded, or its
\* ProviderConfig is due: otherwise all Clusters of the profile are ignored.
AdvertisedIsServed ==
    \A n \in Configs :
        clusterProfile[n] # "absent" =>
            \/ profiles[n] # NoProfile
            \/ config[n].op = "ignore"
            \/ ConfigPending(n)

\* What the operator asked of ProviderConfig n is done.
Served(n) ==
    /\ ~config[n].deleting /\ config[n].own
    /\ profiles[n] = config[n].location
    /\ clusterProfile[n] # "absent"

\* A ProviderConfig is served, or it is due: no failed call, lost answer, restart or
\* late change leaves one that nobody comes back to (the requeues of Reconcile and
\* the predicates of the watch; what ConfigServed and ConfigDeletionCompletes rest on).
NoConfigForgotten ==
    \A n \in Configs :
        config[n].exists /\ config[n].op # "ignore" => ConfigPending(n) \/ Served(n)

\* c's reconciliation is due or in progress, or a ClusterProfile change is on its way.
ClusterPending(c) ==
    c \in clusterQueue \/ clusterWorker.key = c \/ ProfileOf[c] \in profileEvents

\* A Cluster of a loaded profile is Ready, or it is due: without restarts, foreign
\* finalizers, lost answers, lost events and ProviderConfigs ignored for a while nobody
\* has to touch a Cluster again (every return of both handlers; what ProvisioningCompletes
\* and DeletionCompletes rest on).
NoClusterForgotten ==
    \A c \in Clusters :
        cluster[c].exists /\ cluster[c].op # "ignore" /\ profiles[ProfileOf[c]] # NoProfile =>
            ClusterPending(c) \/ (cluster[c].phase = "Ready" /\ ~cluster[c].deleting)

\* A Cluster that says Ready has its finalizer, its labels and a GKE cluster:
\* the phase outlives the reconciliation that wrote it.
ReadyHasCluster ==
    \A c \in Clusters :
        Settled(c) /\ cluster[c].phase = "Ready" /\ ~cluster[c].deleting =>
            /\ cluster[c].own /\ cluster[c].labelled
            /\ Present(Home[ProfileOf[c]], c)

-----------------------------------------------------------------------------
(***************************************************************************)
(* What a step may never do.                                               *)
(***************************************************************************)
\* The deletion of a GKE cluster starts only for a Cluster that is being
\* deleted and that no other controller holds back (handleDelete).
DeletionHonoursForeign ==
    [][\A c \in Clusters, l \in Locations :
        gke[l][c] # "STOPPING" /\ gke'[l][c] = "STOPPING" =>
            cluster[c].deleting /\ cluster[c].foreign = {}]_vars

\* A GKE cluster is created only for a Cluster with the finalizer, and only where
\* the profile loaded at that moment points to, even if configs are relocated.
CreationGuarded ==
    [][\A c \in Clusters, l \in Locations :
        ~Present(l, c) /\ gke'[l][c] # "ABSENT" =>
            cluster[c].own /\ profiles[ProfileOf[c]] = l]_vars

-----------------------------------------------------------------------------
(***************************************************************************)
(* Both controllers follow the finalizer protocol: Clusters guard their    *)
(* GKE clusters, ProviderConfigs their ClusterProfiles.                    *)
(***************************************************************************)
ClusterFinalizers == INSTANCE FinalizerProtocol WITH
    Objects <- Clusters,
    live <- {c \in Clusters : cluster[c].exists},
    guarded <- {c \in Clusters : cluster[c].own},
    external <- {c \in Clusters : Settled(c) /\ \E l \in Locations : Present(l, c)}

ConfigFinalizers == INSTANCE FinalizerProtocol WITH
    Objects <- Configs,
    live <- {n \in Configs : config[n].exists},
    guarded <- {n \in Configs : config[n].own},
    external <- {n \in Configs : clusterProfile[n] # "absent"}

\* ClusterFinalizer implements the protocol for GKE clusters.
ClusterFinalizerProtocol == ClusterFinalizers!ProtocolSpec

\* ProviderConfigFinalizer implements the protocol for ClusterProfiles.
ConfigFinalizerProtocol == ConfigFinalizers!ProtocolSpec

-----------------------------------------------------------------------------
(***************************************************************************)
(* What the AccessRequest controller relies on (AccessSystem).             *)
(***************************************************************************)
ApiState(status) ==
    IF status = "ABSENT" THEN "absent"
    ELSE IF status \in {"RUNNING", "RECONCILING"} THEN "serving" ELSE "unsure"

AccessNeighbours == INSTANCE Neighbours WITH
    rwlock <- [writer |-> IF rwlock.writer = "free" THEN "free" ELSE "announced",
               readers |-> rwlock.readers \cap {"AccessRequest"}],
    live <- {c \in Clusters : cluster[c].exists},
    api <- [c \in Clusters |-> ApiState(gke[Home[ProfileOf[c]]][c])]

\* Profiles change under the write lock only, and a Cluster leaves after its GKE
\* cluster: what AccessSystem assumes of the two other controllers.
AccessAssumptionsMet == AccessNeighbours!NeighboursSpec

-----------------------------------------------------------------------------
(***************************************************************************)
(* Liveness, under LiveSpec.                                               *)
(***************************************************************************)
\* The ProviderConfig can be served: it is there to stay and not ignored.
Usable(n) == config[n].exists /\ ~config[n].deleting /\ config[n].op # "ignore"

\* A usable config ends up advertised and loaded, however often its
\* reconciliation fails (ProviderConfig controller: requeue on every error).
ConfigServed ==
    \A n \in Configs :
        <>[]Usable(n) => <>[](clusterProfile[n] # "absent" /\ profiles[n] = config[n].location)

\* A deleted ProviderConfig goes away, with its ClusterProfile and its profile.
ConfigDeletionCompletes ==
    \A n \in Configs :
        config[n].deleting ~>
            /\ ~config[n].exists
            /\ clusterProfile[n] = "absent"
            /\ profiles[n] = NoProfile

\* A Cluster of a usable config ends up Ready for good: no finished GKE
\* operation, late ClusterProfile or failed call leaves it unattended.
ProvisioningCompletes ==
    \A c \in Clusters :
        <>[](Usable(ProfileOf[c]) /\ cluster[c].exists /\ ~cluster[c].deleting)
            => <>[](cluster[c].phase = "Ready")

\* A Cluster of a usable config that is deleted, and held back by no other
\* controller any more, goes away and so does its GKE cluster.
DeletionCompletes ==
    \A c \in Clusters :
        <>[](Usable(ProfileOf[c]) /\ cluster[c].foreign = {})
            => (cluster[c].deleting ~> ~cluster[c].exists)

-----------------------------------------------------------------------------
(***************************************************************************)
(* What comments and the README say, and the code does not always keep.    *)
(***************************************************************************)
\* README.md, "Trigger cluster provisioning": once the phase is Ready, the API
\* server's endpoint is available in status.endpoints (ensureClusterLabels and
\* the copy of the object taken after it).
ReadyHasEndpoint == \A c \in Clusters : cluster[c].phase = "Ready" => cluster[c].endpoint

\* api/v1alpha1/constants.go: ClusterFinalizer is placed on Cluster resources
\* while the GKE cluster exists - of relocated configs too (handleDelete).
FinalizerWhileGKEClusterExists ==
    \A c \in Clusters, l \in Locations : Present(l, c) => cluster[c].own

\* handleDelete, "wait for foreign finalizers": they are their owners' to
\* remove, so no step of the Cluster controller does (handleCreateOrUpdate).
ForeignFinalizersKept ==
    [][\A c \in Clusters :
        clusterWorker' # clusterWorker => cluster[c].foreign \subseteq cluster'[c].foreign]_vars
=============================================================================
