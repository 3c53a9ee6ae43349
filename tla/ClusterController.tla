-------------------------- MODULE ClusterController --------------------------
(***************************************************************************)
(* ClusterReconciler (internal/controllers/cluster): one worker that, under *)
(* the read lock, makes GKE hold one cluster for every Cluster resource of *)
(* a loaded profile, and reflects its state in the resource.               *)
(***************************************************************************)
EXTENDS ProviderConfigController, GKE

ASSUME ReaderAssumption == "Cluster" \in Readers

VARIABLES
    clusterQueue,    \* Clusters to reconcile: work queue, timers and backoff
    clusterWorker    \* the reconciliation in progress

ClusterPCs ==
    {"idle", "locking", "unannotate", "finalize", "read", "create", "label",
     "readForDelete", "delete", "release", "status"}

\* deleting, foreign, labelled, endpoint: of the Cluster as last read; location:
\* the copied profile; publish: the endpoint is in the difference between
\* rr.Object and rr.OldObject; ready: all conditions are true; again: the result
\* is an error or has RequeueAfter set.
ClusterControllerType ==
    /\ clusterQueue \subseteq Clusters
    /\ clusterWorker \in
        [pc : ClusterPCs, key : Clusters \cup {Nobody}, deleting : BOOLEAN,
         foreign : SUBSET Foreign, labelled : BOOLEAN, endpoint : BOOLEAN,
         location : Locations \cup {NoProfile},
         publish : BOOLEAN, ready : BOOLEAN, again : BOOLEAN]

IdleClusterWorker ==
    [pc |-> "idle", key |-> Nobody, deleting |-> FALSE, foreign |-> {},
     labelled |-> FALSE, endpoint |-> FALSE, location |-> NoProfile,
     publish |-> FALSE, ready |-> FALSE, again |-> FALSE]

ClusterControllerInit ==
    /\ clusterQueue = {}
    /\ clusterWorker = IdleClusterWorker

\* What the Cluster controller never writes.
configControllerVars == <<config, clusterProfile, providerConfigs, profiles,
                          configQueue, configWorker>>

-----------------------------------------------------------------------------
(***************************************************************************)
(* SetupWithManager: changes of Clusters, and of ClusterProfiles.          *)
(***************************************************************************)
ClusterEvents == {c \in Clusters : PassesFilter(cluster[c], cluster'[c], FALSE)}

\* Mutant: the watch finds none of the profile's Clusters.
DeliverProfileEventToNone(n) ==
    /\ n \in profileEvents
    /\ profileEvents' = profileEvents \ {n}
    /\ UNCHANGED <<faults, configControllerVars, cluster, gke, rwlock, clusterQueue, clusterWorker>>

\* The map function of the ClusterProfile watch; a failed List loses the event.
DeliverProfileEvent(n) ==
    /\ n \in profileEvents
    /\ profileEvents' = profileEvents \ {n}
    /\ \/ /\ clusterQueue' =
                clusterQueue \cup {c \in Clusters : cluster[c].exists /\ ProfileOf[c] = n}
          /\ UNCHANGED faults
       \/ Fault("dropped") /\ UNCHANGED clusterQueue
    /\ UNCHANGED <<configControllerVars, cluster, gke, rwlock, clusterWorker>>

-----------------------------------------------------------------------------
\* Mutant: errors and RequeueAfter are dropped on the way out of Reconcile.
NotAgain(c, again) == {}

Again(c, again) == IF again THEN {c} ELSE {}

\* Reconcile returns without an object: no status, the read lock is released.
Leave(again) ==
    /\ clusterQueue' = clusterQueue \cup ClusterEvents \cup Again(clusterWorker.key, again)
    /\ clusterWorker' = IdleClusterWorker
    /\ RUnlock("Cluster")

\* A handler returns rr: UpdateStatus comes next.
Report(ready, again) ==
    clusterWorker' = [clusterWorker EXCEPT !.pc = "status", !.ready = ready, !.again = again]

\* The worker after it read the Cluster, or had it returned by a patch.
Snapshot(w, obj) ==
    [w EXCEPT !.deleting = obj.deleting, !.foreign = obj.foreign,
              !.labelled = obj.labelled, !.endpoint = obj.endpoint]

\* handleDelete, up to its first call: with a foreign finalizer left it only
\* reports that it waits, and does not ask to be called again.
HandleDelete(obj) == IF obj.foreign # {} THEN "status" ELSE "readForDelete"

\* Mutant: the finalizer is never set.
HandlerWithoutFinalizer(w, obj) ==
    [Snapshot(w, obj) EXCEPT
        !.location = GetProfile(ProfileOf[w.key]),
        !.pc = IF obj.deleting THEN HandleDelete(obj) ELSE "read"]

\* Mutant: other controllers' finalizers are not waited for.
HandlerNotWaiting(w, obj) ==
    [Snapshot(w, obj) EXCEPT
        !.location = GetProfile(ProfileOf[w.key]),
        !.pc = IF obj.deleting THEN "readForDelete" ELSE IF obj.own THEN "read" ELSE "finalize"]

\* handleDelete or handleCreateOrUpdate, up to its first call.
Handler(w, obj) ==
    [Snapshot(w, obj) EXCEPT
        !.location = GetProfile(ProfileOf[w.key]),
        !.pc = IF obj.deleting THEN HandleDelete(obj)
               ELSE IF obj.own THEN "read" ELSE "finalize"]

\* The profile is looked up: a Cluster without one is left alone.
Handle(obj) ==
    IF GetProfile(ProfileOf[clusterWorker.key]) = NoProfile
    THEN Leave(FALSE)
    ELSE /\ clusterWorker' = Handler(clusterWorker, obj)
         /\ clusterQueue' = clusterQueue \cup ClusterEvents
         /\ rwlock' = [rwlock EXCEPT !.readers = @ \cup {"Cluster"}]

-----------------------------------------------------------------------------
\* Reconcile is called, and waits in RLock.
ClusterDequeue(c) ==
    /\ clusterWorker.pc = "idle"
    /\ c \in clusterQueue
    /\ clusterQueue' = clusterQueue \ {c}
    /\ clusterWorker' = [IdleClusterWorker EXCEPT !.pc = "locking", !.key = c]
    /\ UNCHANGED <<configControllerVars, profileEvents, cluster, gke, rwlock, faults>>

\* The read lock is acquired and the Cluster read.
ClusterGet ==
    LET obj == cluster[clusterWorker.key] IN
    /\ clusterWorker.pc = "locking"
    /\ rwlock.writer = "free"
    /\ UNCHANGED <<configControllerVars, profileEvents, cluster, gke>>
    /\ \E outcome \in ReadOutcomes :
        /\ Read(outcome)
        /\ \/ /\ outcome = "ok" /\ obj.exists /\ obj.op = "none"
              /\ Handle(obj)
           \/ /\ outcome = "ok" /\ obj.exists /\ obj.op = "reconcile"
              /\ clusterWorker' = [clusterWorker EXCEPT !.pc = "unannotate"]
              /\ RLock("Cluster")
              /\ UNCHANGED clusterQueue
           \/ /\ outcome # "ok" \/ ~obj.exists \/ obj.op = "ignore"
              /\ Leave(outcome # "ok")

\* The reconcile annotation is removed.
ClusterUnannotate ==
    LET c == clusterWorker.key
        obj == cluster[c] IN
    /\ clusterWorker.pc = "unannotate"
    /\ UNCHANGED <<configControllerVars, profileEvents, gke>>
    /\ \E outcome \in WriteOutcomes :
        /\ Write(outcome)
        /\ IF Applied(outcome) /\ obj.exists
           THEN StoreCluster(c, [obj EXCEPT !.op = "none"])
           ELSE UNCHANGED cluster
        /\ \/ outcome = "ok" /\ obj.exists /\ Handle(obj)
           \/ (outcome # "ok" \/ ~obj.exists) /\ Leave(TRUE)

\* handleCreateOrUpdate: the finalizer, with the list of finalizers last read.
ClusterFinalize ==
    LET c == clusterWorker.key
        obj == [cluster[c] EXCEPT !.own = TRUE, !.foreign = clusterWorker.foreign]
        allowed == MayPatchFinalizers(cluster[c], TRUE, clusterWorker.foreign) IN
    /\ clusterWorker.pc = "finalize"
    /\ UNCHANGED <<configControllerVars, profileEvents, gke, rwlock, clusterQueue>>
    /\ \E outcome \in WriteOutcomes :
        /\ Write(outcome)
        /\ IF Applied(outcome) /\ allowed THEN StoreCluster(c, obj) ELSE UNCHANGED cluster
        /\ \/ /\ outcome = "ok" /\ allowed
              /\ clusterWorker' = [Snapshot(clusterWorker, obj) EXCEPT !.pc = "read"]
           \/ /\ outcome # "ok" \/ ~allowed
              /\ Report(FALSE, TRUE)

\* handleCreateOrUpdate: the GKE cluster is fetched and its status reflected.
ClusterRead ==
    LET status == gke[clusterWorker.location][clusterWorker.key] IN
    /\ clusterWorker.pc = "read"
    /\ UNCHANGED <<configControllerVars, profileEvents, cluster, gke, rwlock, clusterQueue>>
    /\ \E outcome \in ReadOutcomes :
        /\ Read(outcome)
        /\ \/ /\ outcome = "ok" /\ status = "ABSENT"
              /\ clusterWorker' = [clusterWorker EXCEPT !.pc = "create"]
           \/ /\ outcome = "ok" /\ status = "RUNNING"
              /\ clusterWorker' =
                    [clusterWorker EXCEPT !.publish = ~clusterWorker.endpoint,
                                          !.ready = clusterWorker.labelled,
                                          !.pc = IF clusterWorker.labelled THEN "status" ELSE "label"]
           \/ /\ outcome # "ok" \/ status \in {"PROVISIONING", "RECONCILING", "STOPPING", "ERROR"}
              /\ Report(FALSE, TRUE)

\* handleCreateOrUpdate: the GKE cluster is created, and looked at again later.
ClusterCreate ==
    /\ clusterWorker.pc = "create"
    /\ UNCHANGED <<configControllerVars, profileEvents, cluster, rwlock, clusterQueue>>
    /\ \E outcome \in WriteOutcomes :
        /\ Write(outcome)
        /\ IF Applied(outcome)
           THEN SubmitCreate(clusterWorker.location, clusterWorker.key)
           ELSE UNCHANGED gke
    /\ Report(FALSE, TRUE)

\* ensureClusterLabels: the patch of the labels, as far as it is applied.
EnsureLabels(c, obj, outcome) ==
    IF Applied(outcome) /\ obj.exists
    THEN StoreCluster(c, [obj EXCEPT !.labelled = TRUE])
    ELSE UNCHANGED cluster

\* handleCreateOrUpdate: the labels; after a patch OldObject becomes a copy of the
\* object, and the endpoint set in memory passes for what the resource holds.
ClusterLabel ==
    LET c == clusterWorker.key
        obj == cluster[c] IN
    /\ clusterWorker.pc = "label"
    /\ UNCHANGED <<configControllerVars, profileEvents, gke, rwlock, clusterQueue>>
    /\ \E outcome \in WriteOutcomes :
        /\ Write(outcome)
        /\ EnsureLabels(c, obj, outcome)
        /\ \/ /\ outcome = "ok" /\ obj.exists
              /\ clusterWorker' = [clusterWorker EXCEPT !.pc = "status", !.ready = TRUE,
                                        !.publish = FALSE, !.deleting = obj.deleting]
           \/ /\ outcome # "ok" \/ ~obj.exists
              /\ Report(FALSE, TRUE)

-----------------------------------------------------------------------------
\* handleDelete: the GKE cluster is fetched.
ClusterReadForDelete ==
    LET status == gke[clusterWorker.location][clusterWorker.key] IN
    /\ clusterWorker.pc = "readForDelete"
    /\ UNCHANGED <<configControllerVars, profileEvents, cluster, gke, rwlock, clusterQueue>>
    /\ \E outcome \in ReadOutcomes :
        /\ Read(outcome)
        /\ IF outcome # "ok" \/ status = "STOPPING"
           THEN Report(FALSE, TRUE)
           ELSE clusterWorker' =
                    [clusterWorker EXCEPT !.pc = IF status = "ABSENT" THEN "release" ELSE "delete"]

\* Mutant: the finalizer is removed once GKE has accepted the deletion.
ClusterDeleteNotWaiting ==
    /\ clusterWorker.pc = "delete"
    /\ UNCHANGED <<configControllerVars, profileEvents, cluster, rwlock, clusterQueue>>
    /\ \E outcome \in WriteOutcomes :
        /\ Write(outcome)
        /\ IF Applied(outcome)
           THEN SubmitDelete(clusterWorker.location, clusterWorker.key)
           ELSE UNCHANGED gke
        /\ IF outcome = "ok" THEN clusterWorker' = [clusterWorker EXCEPT !.pc = "release"]
                             ELSE Report(FALSE, TRUE)

\* handleDelete: the GKE cluster is deleted, and looked at again later.
ClusterDelete ==
    /\ clusterWorker.pc = "delete"
    /\ UNCHANGED <<configControllerVars, profileEvents, cluster, rwlock, clusterQueue>>
    /\ \E outcome \in WriteOutcomes :
        /\ Write(outcome)
        /\ IF Applied(outcome)
           THEN SubmitDelete(clusterWorker.location, clusterWorker.key)
           ELSE UNCHANGED gke
    /\ Report(FALSE, TRUE)

\* handleDelete: the finalizer is removed, with which the Cluster disappears.
ClusterRelease ==
    LET c == clusterWorker.key
        obj == [cluster[c] EXCEPT !.own = FALSE, !.foreign = clusterWorker.foreign] IN
    /\ clusterWorker.pc = "release"
    /\ UNCHANGED <<configControllerVars, profileEvents, gke>>
    /\ \E outcome \in WriteOutcomes :
        /\ Write(outcome)
        /\ IF Applied(outcome) THEN StoreCluster(c, obj) ELSE UNCHANGED cluster
        /\ \/ outcome = "ok" /\ Leave(FALSE)
           \/ /\ outcome # "ok"
              /\ Report(FALSE, TRUE)
              /\ clusterQueue' = clusterQueue \cup ClusterEvents
              /\ UNCHANGED rwlock

-----------------------------------------------------------------------------
\* Mutant: no phase while there is something left to do.
PhaseLeftOut ==
    IF clusterWorker.deleting THEN "Terminating" ELSE IF clusterWorker.ready THEN "Ready" ELSE ""

\* Mutant: the conditions are not looked at.
PhaseIgnoringConditions == IF clusterWorker.deleting THEN "Terminating" ELSE "Ready"

\* UpdateStatus: the phase, and the endpoint if it is part of the difference.
ClusterPhase ==
    IF clusterWorker.deleting THEN "Terminating"
    ELSE IF clusterWorker.ready THEN "Ready" ELSE "Progressing"

ClusterStatus ==
    LET c == clusterWorker.key
        obj == cluster[c] IN
    /\ clusterWorker.pc = "status"
    /\ UNCHANGED <<configControllerVars, profileEvents, gke>>
    /\ \E outcome \in WriteOutcomes :
        /\ Write(outcome)
        /\ IF Applied(outcome) /\ obj.exists
           THEN StoreCluster(c, [obj EXCEPT !.phase = ClusterPhase,
                                            !.endpoint = @ \/ clusterWorker.publish])
           ELSE UNCHANGED cluster
        /\ Leave(clusterWorker.again \/ outcome # "ok" \/ ~obj.exists)

ClusterStep ==
    \/ ClusterGet
    \/ ClusterUnannotate
    \/ ClusterFinalize
    \/ ClusterRead
    \/ ClusterCreate
    \/ ClusterLabel
    \/ ClusterReadForDelete
    \/ ClusterDelete
    \/ ClusterRelease
    \/ ClusterStatus

ClusterControllerNext ==
    \/ ClusterStep
    \/ \E c \in Clusters : ClusterDequeue(c)
    \/ \E n \in Configs : DeliverProfileEvent(n)
=============================================================================
