---------------------------- MODULE OrphanProofs ----------------------------
(***************************************************************************)
(* No orphaned GKE clusters.                                               *)
(*                                                                         *)
(* NoOrphan is not inductive: that a finalizer can be released rests on    *)
(* what GKE said earlier in the same reconciliation, and that GKE was      *)
(* asked in the right place rests on the way of the location from the      *)
(* ProviderConfig through the profile to the worker.                       *)
(***************************************************************************)
EXTENDS TypeProofs

AtHome(n, location) == location \in {NoProfile, Home[n]}

\* The location of a config that is never relocated is the same wherever it is
\* remembered: in the resource, in the profile, and in both workers.
HomeConfigs == \A n \in Configs \ Relocatable : config[n].location = Home[n]

HomeProfiles ==
    \A n \in Configs \ Relocatable :
        /\ AtHome(n, profiles[n])
        /\ configWorker.key = n =>
            AtHome(n, configWorker.location) /\ AtHome(n, configWorker.profile)

HomeCluster ==
    \A c \in Clusters :
        Settled(c) /\ clusterWorker.key = c => AtHome(ProfileOf[c], clusterWorker.location)

HomeInv == HomeConfigs /\ HomeProfiles /\ HomeCluster

\* Steps of the Cluster worker at which the profile is known.
LocatedPCs == {"finalize", "read", "create", "readForDelete", "delete", "release"}

\* A finalizer is on a Cluster that exists.
GuardedExists == \A c \in Clusters : cluster[c].own => cluster[c].exists

\* A GKE cluster is where its config says, and guarded.
ExternalGuarded ==
    \A c \in Clusters, l \in Locations :
        Settled(c) /\ Present(l, c) => l = Home[ProfileOf[c]] /\ cluster[c].own

\* The Cluster worker creates a GKE cluster only for a guarded Cluster, and
\* releases a Cluster only when GKE has none.
WorkerGuarded ==
    /\ clusterWorker.pc \in LocatedPCs => clusterWorker.location # NoProfile
    /\ clusterWorker.pc \in {"read", "create"} => cluster[clusterWorker.key].own
    /\ clusterWorker.pc = "release" => ~Present(clusterWorker.location, clusterWorker.key)

GuardInv == GuardedExists /\ ExternalGuarded /\ WorkerGuarded

OrphanInv == TypeInv /\ HomeInv /\ GuardInv

\* Storing a ProviderConfig that did not move.
LEMMA StoreConfigAtHome ==
    ASSUME TypeInv, HomeConfigs, NEW n \in Configs, NEW obj \in ConfigObject,
           n \notin Relocatable => obj.location = Home[n], StoreConfig(n, obj)
    PROVE  HomeConfigs'
<1>1. config \in [Configs -> ConfigObject]
  BY DEF TypeInv, TypeOK, PlatformType
<1>2. NoConfig(n).location = Home[n]
  BY DEF NoConfig
<1>3. QED
  BY <1>1, <1>2, StoreConfigEffect DEF HomeConfigs

\* Users keep configs that are not relocatable where they are.
LEMMA UserAtHome == TypeInv /\ HomeInv /\ User => HomeInv'
<1> SUFFICES ASSUME TypeInv, HomeInv, User PROVE HomeInv'
  OBVIOUS
<1>1. config \in [Configs -> ConfigObject] /\ HomeConfigs
  BY DEF TypeInv, TypeOK, PlatformType, HomeInv
<1>2. HomeConfigs'
  <2>1. ASSUME NEW n \in Configs, NEW l \in Locations, CreateConfig(n, l) PROVE HomeConfigs'
    <3>1. [NoConfig(n) EXCEPT !.exists = TRUE, !.location = l] \in ConfigObject
      BY DEF NoConfig, ConfigObject, Operations
    <3>2. [NoConfig(n) EXCEPT !.exists = TRUE, !.location = l].location = l
      BY DEF NoConfig
    <3>3. QED
      BY <1>1, <2>1, <3>1, <3>2, StoreConfigAtHome DEF CreateConfig
  <2>2. ASSUME NEW n \in Configs, NEW l \in Locations, Relocate(n, l) PROVE HomeConfigs'
    <3>1. [config[n] EXCEPT !.location = l] \in ConfigObject
      BY <1>1 DEF ConfigObject
    <3>2. QED
      BY <1>1, <2>2, <3>1, StoreConfigAtHome DEF Relocate
  <2>3. ASSUME NEW n \in Configs, NEW op \in ConfigOps \cup {"none"}, AnnotateConfig(n, op)
        PROVE HomeConfigs'
    <3>1. [config[n] EXCEPT !.op = op] \in ConfigObject
      BY <1>1, OperationsAssumption DEF ConfigObject, Operations
    <3>2. [config[n] EXCEPT !.op = op].location = config[n].location
      BY <1>1 DEF ConfigObject
    <3>3. QED
      BY <1>1, <2>3, <3>1, <3>2, StoreConfigAtHome DEF AnnotateConfig, HomeConfigs
  <2>4. ASSUME NEW n \in Configs, DeleteConfig(n) PROVE HomeConfigs'
    <3>1. [config[n] EXCEPT !.deleting = TRUE] \in ConfigObject
      BY <1>1 DEF ConfigObject
    <3>2. [config[n] EXCEPT !.deleting = TRUE].location = config[n].location
      BY <1>1 DEF ConfigObject
    <3>3. QED
      BY <1>1, <2>4, <3>1, <3>2, StoreConfigAtHome DEF DeleteConfig, HomeConfigs
  <2>5. ASSUME UNCHANGED config PROVE HomeConfigs'
    BY <1>1, <2>5 DEF HomeConfigs
  <2>6. QED
    BY <2>1, <2>2, <2>3, <2>4, <2>5
       DEF User, UserNext, CreateCluster, DeleteCluster, AnnotateCluster, AddForeign, RemoveForeign
<1>3. HomeProfiles' /\ HomeCluster'
  BY DEF User, runtimeVars, HomeInv, HomeProfiles, HomeCluster, Settled, AtHome
<1>4. QED
  BY <1>2, <1>3 DEF HomeInv

\* The ProviderConfig controller loads the location of the resource it read.
LEMMA ConfigReconcilerAtHome == TypeInv /\ HomeInv /\ ConfigReconciler => HomeInv'
<1> SUFFICES ASSUME TypeInv, HomeInv, ConfigReconciler PROVE HomeInv'
  OBVIOUS
<1>1. /\ config \in [Configs -> ConfigObject] /\ HomeConfigs /\ HomeProfiles
      /\ profiles \in [Configs -> Locations \cup {NoProfile}]
      /\ ConfigControllerType
  BY DEF TypeInv, TypeOK, PlatformType, RuntimeType, HomeInv
<1>2. ASSUME configWorker.pc # "idle"
      PROVE  configWorker.key \in Configs /\ config[configWorker.key] \in ConfigObject
  BY <1>1, <1>2 DEF TypeInv, KeysOK
<1>3. ASSUME UNCHANGED config PROVE HomeConfigs'
  BY <1>1, <1>3 DEF HomeConfigs
<1>4. ASSUME configWorker' = IdleConfigWorker,
             \A n \in Configs \ Relocatable : AtHome(n, profiles'[n])
      PROVE  HomeProfiles'
  BY <1>4, AbsenceAssumption DEF HomeProfiles, IdleConfigWorker
<1>5. ASSUME NEW failed, ConcludeWithoutObject(failed) PROVE HomeProfiles'
  BY <1>1, <1>4, <1>5
     DEF ConcludeWithoutObject, UnsetProfile, SetProfile, HomeProfiles, AtHome
<1>6. ASSUME NEW pc, configWorker.pc # "idle", Continue(pc, config[configWorker.key]),
             UNCHANGED profiles
      PROVE  HomeProfiles'
  BY <1>1, <1>2, <1>6
     DEF Continue, HomeProfiles, HomeConfigs, AtHome, ConfigControllerType
<1>7. ASSUME NEW pc, NEW failed, UNCHANGED profiles,
             configWorker' \in {[configWorker EXCEPT !.pc = pc, !.failed = failed],
                                [configWorker EXCEPT !.pc = pc],
                                [configWorker EXCEPT !.pc = pc, !.failed = failed,
                                                     !.profile = configWorker.location]}
      PROVE  HomeProfiles'
  BY <1>1, <1>7 DEF HomeProfiles, AtHome, ConfigControllerType
<1>8. ASSUME NEW n \in Configs, ConfigDequeue(n) PROVE HomeConfigs' /\ HomeProfiles'
  <2>1. configWorker'.location = NoProfile /\ configWorker'.profile = NoProfile
    BY <1>8 DEF ConfigDequeue, IdleConfigWorker
  <2>2. QED
    BY <1>1, <1>3, <1>8, <2>1 DEF ConfigDequeue, platformVars, HomeProfiles, AtHome
<1>9. ASSUME ConfigGet PROVE HomeConfigs' /\ HomeProfiles'
  <2>1. \/ \E failed : ConcludeWithoutObject(failed)
        \/ (\E pc : Continue(pc, config[configWorker.key])) /\ UNCHANGED profiles
    BY <1>9 DEF ConfigGet
  <2>2. configWorker.pc # "idle" /\ UNCHANGED config
    BY <1>9 DEF ConfigGet, platformVars
  <2>3. QED
    BY <1>3, <1>5, <1>6, <2>1, <2>2
<1>10. ASSUME ConfigUnannotate PROVE HomeConfigs' /\ HomeProfiles'
  <2>1. \/ \E failed : ConcludeWithoutObject(failed)
        \/ (\E pc : Continue(pc, config[configWorker.key])) /\ UNCHANGED profiles
    BY <1>10 DEF ConfigUnannotate
  <2>2. configWorker.pc # "idle"
    BY <1>10 DEF ConfigUnannotate
  <2> DEFINE obj == [config[configWorker.key] EXCEPT !.op = "none"]
  <2>3. obj \in ConfigObject /\ obj.location = config[configWorker.key].location
    BY <1>2, <2>2 DEF ConfigObject, Operations
  <2>4. UNCHANGED config \/ StoreConfig(configWorker.key, obj)
    BY <1>10 DEF ConfigUnannotate
  <2>5. HomeConfigs'
    BY <1>1, <1>2, <1>3, <2>2, <2>3, <2>4, StoreConfigAtHome DEF HomeConfigs
  <2>6. QED
    BY <1>5, <1>6, <2>1, <2>2, <2>5
<1>11. ASSUME ConfigFinalize PROVE HomeConfigs' /\ HomeProfiles'
  <2>1. \/ \E pc : Continue(pc, config[configWorker.key])
        \/ Return(configWorker, TRUE)
    BY <1>11 DEF ConfigFinalize
  <2>2. configWorker.pc # "idle" /\ UNCHANGED profiles
    BY <1>11 DEF ConfigFinalize, runtimeVars
  <2> DEFINE obj == [config[configWorker.key] EXCEPT !.own = TRUE]
  <2>3. obj \in ConfigObject /\ obj.location = config[configWorker.key].location
    BY <1>2, <2>2 DEF ConfigObject
  <2>4. UNCHANGED config \/ StoreConfig(configWorker.key, obj)
    BY <1>11 DEF ConfigFinalize
  <2>5. HomeConfigs'
    BY <1>1, <1>2, <1>3, <2>2, <2>3, <2>4, StoreConfigAtHome DEF HomeConfigs
  <2>6. QED
    BY <1>6, <1>7, <2>1, <2>2, <2>5 DEF Return
<1>12. ASSUME ConfigAdvertise \/ ConfigUnadvertise PROVE HomeConfigs' /\ HomeProfiles'
  <2>1. \/ \E failed : Return(configWorker, failed)
        \/ Return([configWorker EXCEPT !.profile = configWorker.location], FALSE)
        \/ configWorker' = [configWorker EXCEPT !.pc = "release"]
    BY <1>12 DEF ConfigAdvertise, ConfigUnadvertise
  <2>2. UNCHANGED <<config, profiles>>
    BY <1>12 DEF ConfigAdvertise, ConfigUnadvertise, runtimeVars
  <2>3. QED
    BY <1>3, <1>7, <2>1, <2>2 DEF Return
<1>13. ASSUME ConfigRelease PROVE HomeConfigs' /\ HomeProfiles'
  <2>1. ConcludeWithoutObject(FALSE) \/ (Return(configWorker, TRUE) /\ UNCHANGED profiles)
    BY <1>13 DEF ConfigRelease, runtimeVars
  <2>2. configWorker.pc # "idle"
    BY <1>13 DEF ConfigRelease
  <2> DEFINE obj == [config[configWorker.key] EXCEPT !.own = FALSE]
  <2>3. obj \in ConfigObject /\ obj.location = config[configWorker.key].location
    BY <1>2, <2>2 DEF ConfigObject
  <2>4. UNCHANGED config \/ StoreConfig(configWorker.key, obj)
    BY <1>13 DEF ConfigRelease
  <2>5. HomeConfigs'
    BY <1>1, <1>2, <1>3, <2>2, <2>3, <2>4, StoreConfigAtHome DEF HomeConfigs
  <2>6. QED
    BY <1>5, <1>7, <2>1, <2>5 DEF Return
<1>14. ASSUME ConfigFinish PROVE HomeConfigs' /\ HomeProfiles'
  <2>1. configWorker' = IdleConfigWorker /\ UNCHANGED config
    BY <1>14 DEF ConfigFinish, platformVars
  <2>2. \A n \in Configs \ Relocatable : AtHome(n, profiles'[n])
    BY <1>1, <1>14 DEF ConfigFinish, SetProfile, HomeProfiles
  <2>3. QED
    BY <1>3, <1>4, <2>1, <2>2
<1>15. HomeConfigs' /\ HomeProfiles'
  BY <1>8, <1>9, <1>10, <1>11, <1>12, <1>13, <1>14
     DEF ConfigReconciler, ConfigControllerNext, ConfigStep
<1>16. HomeCluster'
  BY DEF ConfigReconciler, ConfigFrame, HomeInv, HomeCluster, Settled, AtHome
<1>17. QED
  BY <1>15, <1>16 DEF HomeInv

\* The Cluster controller works with the location of the loaded profile.
LEMMA ClusterReconcilerAtHome == TypeInv /\ HomeInv /\ ClusterReconciler => HomeInv'
<1> SUFFICES ASSUME TypeInv, HomeInv, ClusterReconciler PROVE HomeInv'
  OBVIOUS
<1>1. UNCHANGED <<config, profiles, configWorker>>
  BY DEF ClusterReconciler, ClusterControllerNext, ClusterStep, DeliverProfileEvent,
         ClusterDequeue, ClusterGet, ClusterUnannotate, ClusterFinalize, ClusterRead,
         ClusterCreate, ClusterLabel, EnsureLabels, ClusterReadForDelete,
         ClusterDelete, ClusterRelease,
         ClusterStatus, configControllerVars
<1>2. HomeConfigs' /\ HomeProfiles'
  BY <1>1 DEF HomeInv, HomeConfigs, HomeProfiles, AtHome
<1>3. ClusterControllerType /\ HomeCluster /\ HomeProfiles
  BY DEF TypeInv, TypeOK, HomeInv
<1>4. ASSUME NEW c \in Clusters, clusterWorker.key = c, Settled(c)
      PROVE  AtHome(ProfileOf[c], profiles[ProfileOf[c]])
  BY <1>3, <1>4, TopologyAssumption DEF Settled, HomeProfiles
<1>5. \/ clusterWorker'.location = NoProfile
      \/ clusterWorker'.location = clusterWorker.location /\ clusterWorker'.key = clusterWorker.key
      \/ clusterWorker'.location = profiles[ProfileOf[clusterWorker.key]]
            /\ clusterWorker'.key = clusterWorker.key
  <2>1. ASSUME NEW again, Leave(again) PROVE clusterWorker'.location = NoProfile
    BY <2>1 DEF Leave, IdleClusterWorker
  <2>2. ASSUME NEW obj, Handle(obj) PROVE <1>5
    BY <1>3, <2>1, <2>2
       DEF Handle, Handler, HandleDelete, Snapshot, GetProfile, ClusterControllerType
  <2>3. ASSUME NEW ready, NEW again, Report(ready, again) PROVE <1>5
    BY <1>3, <2>3 DEF Report, ClusterControllerType
  <2>4. ASSUME NEW n \in Configs, DeliverProfileEvent(n) PROVE <1>5
    BY <2>4 DEF DeliverProfileEvent
  <2>5. ASSUME NEW c \in Clusters, ClusterDequeue(c) PROVE <1>5
    BY <2>5 DEF ClusterDequeue, IdleClusterWorker
  <2>6. ASSUME ClusterGet PROVE <1>5
    BY <1>3, <2>1, <2>2, <2>6 DEF ClusterGet, ClusterControllerType
  <2>7. ASSUME ClusterUnannotate \/ ClusterStatus PROVE <1>5
    BY <2>1, <2>2, <2>7 DEF ClusterUnannotate, ClusterStatus
  <2>8. ASSUME ClusterFinalize PROVE <1>5
    BY <1>3, <2>3, <2>8 DEF ClusterFinalize, Snapshot, ClusterControllerType
  <2>9. ASSUME ClusterRead \/ ClusterReadForDelete \/ ClusterLabel PROVE <1>5
    BY <1>3, <2>3, <2>9
       DEF ClusterRead, ClusterReadForDelete, ClusterLabel, EnsureLabels, ClusterControllerType
  <2>10. ASSUME ClusterCreate \/ ClusterDelete PROVE <1>5
    BY <2>3, <2>10 DEF ClusterCreate, ClusterDelete
  <2>11. ASSUME ClusterRelease PROVE <1>5
    BY <2>1, <2>3, <2>11 DEF ClusterRelease
  <2>12. QED
    BY <2>4, <2>5, <2>6, <2>7, <2>8, <2>9, <2>10, <2>11
       DEF ClusterReconciler, ClusterControllerNext, ClusterStep
<1>6. HomeCluster'
  BY <1>3, <1>4, <1>5 DEF HomeCluster, AtHome, Settled
<1>7. QED
  BY <1>2, <1>6 DEF HomeInv

\* HomeInv is inductive.
LEMMA HomeInvInductive == TypeInv /\ HomeInv /\ [Next]_vars => HomeInv'
<1> SUFFICES ASSUME TypeInv, HomeInv, [Next]_vars PROVE HomeInv'
  OBVIOUS
<1>1. CASE Cloud \/ UNCHANGED vars
  BY <1>1 DEF Cloud, vars, platformVars, processVars, runtimeVars, HomeInv, HomeConfigs,
              HomeProfiles, HomeCluster, AtHome, Settled
<1>2. CASE Restart
  <2>1. HomeConfigs'
    BY <1>2 DEF Restart, platformVars, HomeInv, HomeConfigs
  <2>2. HomeProfiles' /\ HomeCluster'
    BY <1>2 DEF Restart, NewProfiles, IdleConfigWorker, IdleClusterWorker, HomeProfiles,
                HomeCluster, AtHome
  <2>3. QED
    BY <2>1, <2>2 DEF HomeInv
<1>3. CASE OtherReconciler
  BY <1>3, OtherReconcilerEffect DEF ReaderFrame, platformVars, HomeInv, HomeConfigs, HomeProfiles,
                                     HomeCluster, AtHome, Settled
<1>4. QED
  BY <1>1, <1>2, <1>3, UserAtHome, ConfigReconcilerAtHome, ClusterReconcilerAtHome DEF Next

\* The initial state: no resource, no GKE cluster, both workers idle.
LEMMA InitGuarded == Init => HomeInv /\ GuardInv
<1> SUFFICES ASSUME Init PROVE HomeInv /\ GuardInv
  OBVIOUS
<1> USE DEF Init
<1>1. HomeConfigs
  BY DEF PlatformInit, NoConfig, HomeConfigs
<1>2. HomeProfiles /\ HomeCluster
  BY DEF RuntimeInit, NewProfiles, ConfigControllerInit, ClusterControllerInit,
         IdleConfigWorker, IdleClusterWorker, HomeProfiles, HomeCluster, AtHome
<1>3. GuardedExists /\ ExternalGuarded
  BY DEF PlatformInit, NoCluster, GKEInit, Present, GuardedExists, ExternalGuarded
<1>4. WorkerGuarded
  BY DEF ClusterControllerInit, IdleClusterWorker, WorkerGuarded, LocatedPCs
<1>5. QED
  BY <1>1, <1>2, <1>3, <1>4 DEF HomeInv, GuardInv

\* No step takes the finalizer off Cluster c.
Kept(c) == cluster[c].own => cluster'[c].own

\* Storing a Cluster with the finalizer it has, or one more, keeps all of them.
LEMMA StoreClusterKeeps ==
    ASSUME TypeInv, GuardedExists, NEW c \in Clusters, NEW obj \in ClusterObject,
           cluster[c].own => obj.own, obj.own => obj.exists, StoreCluster(c, obj)
    PROVE  GuardedExists' /\ \A d \in Clusters : Kept(d)
<1>1. cluster \in [Clusters -> ClusterObject]
  BY DEF TypeInv, TypeOK, PlatformType
<1>2. NoCluster.own = FALSE
  BY DEF NoCluster
<1>3. QED
  BY <1>1, <1>2, StoreClusterEffect DEF GuardedExists, Kept

\* Setting a status changes one GKE cluster.
LEMMA SetStatusEffect ==
    ASSUME GKEType, NEW l, NEW c, NEW status, SetStatus(l, c, status)
    PROVE  \A k \in Locations, d \in Clusters :
               gke'[k][d] = IF k = l /\ d = c THEN status ELSE gke[k][d]
  BY DEF GKEType, SetStatus

\* Users take the provider's finalizer off no Cluster.
LEMMA UserKeeps ==
    ASSUME TypeInv, GuardedExists, User
    PROVE  GuardedExists' /\ \A d \in Clusters : Kept(d)
<1> DEFINE Goal == GuardedExists' /\ \A d \in Clusters : Kept(d)
<1>1. cluster \in [Clusters -> ClusterObject]
  BY DEF TypeInv, TypeOK, PlatformType
<1>2. ASSUME NEW c \in Clusters, NEW obj \in ClusterObject,
             obj.own = cluster[c].own, obj.exists = cluster[c].exists \/ ~obj.own,
             StoreCluster(c, obj)
      PROVE  Goal
  BY <1>1, <1>2, StoreClusterKeeps DEF GuardedExists, ClusterObject
<1>3. ASSUME UNCHANGED cluster PROVE Goal
  BY <1>3 DEF GuardedExists, Kept
<1>4. ASSUME NEW c \in Clusters, CreateCluster(c) PROVE Goal
  <2>1. ~cluster[c].own
    BY <1>1, <1>4 DEF CreateCluster, GuardedExists, ClusterObject
  <2>2. [NoCluster EXCEPT !.exists = TRUE] \in ClusterObject
    BY DEF NoCluster, ClusterObject, Operations
  <2>3. [NoCluster EXCEPT !.exists = TRUE].own = FALSE
    BY DEF NoCluster
  <2>4. QED
    BY <1>1, <1>4, <2>1, <2>2, <2>3, StoreClusterKeeps DEF CreateCluster
<1>5. ASSUME NEW c \in Clusters, DeleteCluster(c) PROVE Goal
  <2> DEFINE obj == [cluster[c] EXCEPT !.deleting = TRUE]
  <2>1. obj \in ClusterObject /\ obj.own = cluster[c].own /\ obj.exists = cluster[c].exists
    BY <1>1 DEF ClusterObject
  <2>2. QED
    BY <1>2, <1>5, <2>1 DEF DeleteCluster
<1>6. ASSUME NEW c \in Clusters, NEW op \in ClusterOps \cup {"none"}, AnnotateCluster(c, op)
      PROVE  Goal
  <2> DEFINE obj == [cluster[c] EXCEPT !.op = op]
  <2>1. obj \in ClusterObject /\ obj.own = cluster[c].own /\ obj.exists = cluster[c].exists
    BY <1>1, OperationsAssumption DEF ClusterObject, Operations
  <2>2. QED
    BY <1>2, <1>6, <2>1 DEF AnnotateCluster
<1>7. ASSUME NEW c \in Clusters, NEW f \in Foreign, AddForeign(c, f) PROVE Goal
  <2> DEFINE obj == [cluster[c] EXCEPT !.foreign = @ \cup {f}]
  <2>1. obj \in ClusterObject /\ obj.own = cluster[c].own /\ obj.exists = cluster[c].exists
    BY <1>1 DEF ClusterObject
  <2>2. QED
    BY <1>2, <1>7, <2>1 DEF AddForeign
<1>8. ASSUME NEW c \in Clusters, NEW f \in Foreign, RemoveForeign(c, f) PROVE Goal
  <2> DEFINE obj == [cluster[c] EXCEPT !.foreign = @ \ {f}]
  <2>1. obj \in ClusterObject /\ obj.own = cluster[c].own /\ obj.exists = cluster[c].exists
    BY <1>1 DEF ClusterObject
  <2>2. QED
    BY <1>2, <1>8, <2>1 DEF RemoveForeign
<1>9. QED
  BY <1>3, <1>4, <1>5, <1>6, <1>7, <1>8
     DEF User, UserNext, CreateConfig, Relocate, AnnotateConfig, DeleteConfig

\* GKE brings no cluster into being by itself.
LEMMA CloudCreatesNothing ==
    ASSUME TypeInv, Cloud
    PROVE  \A l \in Locations, c \in Clusters : Present(l, c)' => Present(l, c)
<1>1. PICK l \in Locations, c \in Clusters :
        \/ GKEProgress(l, c)
        \/ Repaired(l, c)
        \/ Maintenance(l, c)
        \/ Failure(l, c)
  BY DEF Cloud, GKENext
<1>2. Present(l, c) /\ \E status : SetStatus(l, c, status)
  BY <1>1 DEF GKEProgress, Provisioned, Stopped, Repaired, Maintenance, Failure, Become, Present
<1>3. GKEType
  BY DEF TypeInv, TypeOK
<1>4. QED
  BY <1>2, <1>3, SetStatusEffect DEF Present

-----------------------------------------------------------------------------
\* Handing a request over to a handler, or leaving it, keeps the worker's part.
LEMMA HandleGuarded ==
    ASSUME TypeInv, NEW obj, obj = cluster[clusterWorker.key],
           clusterWorker.pc # "idle", Kept(clusterWorker.key),
           Handle(obj) \/ \E again \in BOOLEAN : Leave(again)
    PROVE  WorkerGuarded'
<1>1. ClusterControllerType
  BY DEF TypeInv, TypeOK
<1>2. ASSUME NEW again, Leave(again) PROVE WorkerGuarded'
  BY <1>2 DEF Leave, IdleClusterWorker, WorkerGuarded, LocatedPCs
<1>3. ASSUME Handle(obj), ~Leave(FALSE) PROVE WorkerGuarded'
  <2>1. clusterWorker' = Handler(clusterWorker, obj)
    BY <1>3 DEF Handle
  <2>2. GetProfile(ProfileOf[clusterWorker.key]) # NoProfile
    BY <1>3 DEF Handle
  <2>3. /\ clusterWorker'.location # NoProfile
        /\ clusterWorker'.key = clusterWorker.key
        /\ clusterWorker'.pc \in {"status", "readForDelete", "read", "finalize"}
        /\ clusterWorker'.pc = "read" => obj.own
    BY <1>1, <2>1, <2>2 DEF Handler, HandleDelete, Snapshot, ClusterControllerType
  <2>4. QED
    BY <2>3 DEF WorkerGuarded, Kept
<1>4. QED
  BY <1>2, <1>3

\* The steps of the Cluster controller that change no GKE cluster and take no
\* finalizer away.
LEMMA ClusterReconcilerKeeps ==
    ASSUME OrphanInv,
           \/ ClusterUnannotate
           \/ ClusterFinalize
           \/ ClusterLabel
           \/ ClusterStatus
    PROVE  GuardedExists' /\ \A d \in Clusters : Kept(d)
<1> DEFINE c == clusterWorker.key
           obj == cluster[c]
<1>1. TypeInv /\ GuardedExists /\ ClusterControllerType
  BY DEF OrphanInv, GuardInv, TypeInv, TypeOK
<1>2. c \in Clusters /\ obj \in ClusterObject
  BY <1>1 DEF TypeInv, TypeOK, KeysOK, PlatformType, ClusterUnannotate, ClusterFinalize,
              ClusterLabel, EnsureLabels, ClusterStatus
<1>3. \/ UNCHANGED cluster
      \/ StoreCluster(c, [obj EXCEPT !.op = "none"])
      \/ /\ StoreCluster(c, [obj EXCEPT !.own = TRUE, !.foreign = clusterWorker.foreign])
         /\ obj.exists
      \/ StoreCluster(c, [obj EXCEPT !.labelled = TRUE])
      \/ StoreCluster(c, [obj EXCEPT !.phase = ClusterPhase,
                                     !.endpoint = @ \/ clusterWorker.publish])
  BY DEF ClusterUnannotate, ClusterFinalize, ClusterLabel, EnsureLabels, ClusterStatus,
         MayPatchFinalizers
<1>4. ASSUME NEW new \in ClusterObject, obj.own => new.own, new.exists = obj.exists,
             obj.exists \/ new.own = obj.own, StoreCluster(c, new)
      PROVE  GuardedExists' /\ \A d \in Clusters : Kept(d)
  BY <1>1, <1>2, <1>4, StoreClusterKeeps DEF GuardedExists
<1>5. CASE UNCHANGED cluster
  BY <1>1, <1>5 DEF GuardedExists, Kept
<1>6. CASE StoreCluster(c, [obj EXCEPT !.op = "none"])
  BY <1>2, <1>4, <1>6 DEF ClusterObject, Operations
<1>7. CASE /\ StoreCluster(c, [obj EXCEPT !.own = TRUE, !.foreign = clusterWorker.foreign])
           /\ obj.exists
  BY <1>1, <1>2, <1>4, <1>7 DEF ClusterObject, ClusterControllerType
<1>8. CASE StoreCluster(c, [obj EXCEPT !.labelled = TRUE])
  BY <1>2, <1>4, <1>8 DEF ClusterObject
<1>9. CASE StoreCluster(c, [obj EXCEPT !.phase = ClusterPhase,
                                       !.endpoint = @ \/ clusterWorker.publish])
  <2> DEFINE new == [obj EXCEPT !.phase = ClusterPhase, !.endpoint = @ \/ clusterWorker.publish]
  <2>1. ClusterPhase \in {"Progressing", "Ready", "Terminating"}
    BY DEF ClusterPhase
  <2>2. new \in ClusterObject /\ new.own = obj.own /\ new.exists = obj.exists
    BY <1>1, <1>2, <2>1 DEF ClusterObject, ClusterControllerType
  <2>3. QED
    BY <1>4, <1>9, <2>2
<1>10. QED
  BY <1>3, <1>5, <1>6, <1>7, <1>8, <1>9

\* The Cluster controller keeps GuardInv, one step per action.
LEMMA ClusterReconcilerGuarded == OrphanInv /\ ClusterReconciler => GuardInv'
<1> SUFFICES ASSUME OrphanInv, ClusterReconciler PROVE GuardInv'
  OBVIOUS
<1> DEFINE c == clusterWorker.key
<1>1. /\ TypeInv /\ ClusterControllerType /\ GKEType /\ HomeCluster
      /\ cluster \in [Clusters -> ClusterObject]
      /\ GuardedExists /\ ExternalGuarded /\ WorkerGuarded
  BY DEF OrphanInv, TypeInv, TypeOK, PlatformType, HomeInv, GuardInv
<1>2. clusterWorker.pc # "idle" => c \in Clusters /\ cluster[c] \in ClusterObject
  BY <1>1 DEF TypeInv, TypeOK, KeysOK, PlatformType
<1>3. ASSUME UNCHANGED cluster
      PROVE  GuardedExists' /\ \A d \in Clusters : Kept(d)
  BY <1>1, <1>3 DEF GuardedExists, Kept
<1>4. ASSUME \A d \in Clusters : Kept(d), UNCHANGED gke
      PROVE  ExternalGuarded'
  BY <1>1, <1>4 DEF ExternalGuarded, Kept, Settled, Present
<1>5. ASSUME clusterWorker'.pc \in {"idle", "locking", "unannotate", "label", "status"}
      PROVE  WorkerGuarded'
  BY <1>5 DEF WorkerGuarded, LocatedPCs
<1>6. ASSUME NEW ready, NEW again, Report(ready, again) PROVE WorkerGuarded'
  BY <1>1, <1>5, <1>6 DEF Report, ClusterControllerType
<1>7. ASSUME NEW again, Leave(again) PROVE WorkerGuarded'
  BY <1>5, <1>7 DEF Leave, IdleClusterWorker
<1>8. ASSUME NEW n \in Configs, DeliverProfileEvent(n) PROVE GuardInv'
  BY <1>1, <1>3, <1>4, <1>8 DEF DeliverProfileEvent, GuardInv, WorkerGuarded, Present
<1>9. ASSUME NEW d \in Clusters, ClusterDequeue(d) PROVE GuardInv'
  <2>1. clusterWorker'.pc = "locking"
    BY <1>9 DEF ClusterDequeue, IdleClusterWorker
  <2>2. QED
    BY <1>3, <1>4, <1>5, <1>9, <2>1 DEF ClusterDequeue, GuardInv
<1>10. ASSUME ClusterGet PROVE GuardInv'
  <2>1. UNCHANGED <<cluster, gke>> /\ clusterWorker.pc = "locking"
    BY <1>10 DEF ClusterGet
  <2>2. \/ Handle(cluster[c]) \/ \E again \in BOOLEAN : Leave(again)
        \/ clusterWorker' = [clusterWorker EXCEPT !.pc = "unannotate"]
    BY <1>10 DEF ClusterGet
  <2>3. WorkerGuarded'
    BY <1>1, <1>2, <1>3, <1>5, <2>1, <2>2, HandleGuarded DEF ClusterControllerType
  <2>4. QED
    BY <1>3, <1>4, <2>1, <2>3 DEF GuardInv
<1>11. ASSUME ClusterUnannotate PROVE GuardInv'
  <2>1. GuardedExists' /\ \A d \in Clusters : Kept(d)
    BY <1>11, ClusterReconcilerKeeps
  <2>2. UNCHANGED gke /\ clusterWorker.pc # "idle"
    BY <1>11 DEF ClusterUnannotate
  <2>3. Handle(cluster[c]) \/ \E again \in BOOLEAN : Leave(again)
    BY <1>11 DEF ClusterUnannotate
  <2>4. WorkerGuarded'
    BY <1>1, <1>2, <2>1, <2>2, <2>3, HandleGuarded
  <2>5. QED
    BY <1>4, <2>1, <2>2, <2>4 DEF GuardInv
<1>12. ASSUME ClusterFinalize PROVE GuardInv'
  <2>1. GuardedExists' /\ \A d \in Clusters : Kept(d)
    BY <1>12, ClusterReconcilerKeeps
  <2>2. UNCHANGED gke /\ clusterWorker.pc = "finalize"
    BY <1>12 DEF ClusterFinalize
  <2> DEFINE new == [cluster[c] EXCEPT !.own = TRUE, !.foreign = clusterWorker.foreign]
  <2>3. \/ \E ready, again : Report(ready, again)
        \/ /\ StoreCluster(c, new)
           /\ clusterWorker' = [Snapshot(clusterWorker, new) EXCEPT !.pc = "read"]
    BY <1>12 DEF ClusterFinalize, Applied
  <2>4. CASE \E ready, again : Report(ready, again)
    BY <1>4, <1>6, <2>1, <2>2, <2>4 DEF GuardInv
  <2>5. CASE /\ StoreCluster(c, new)
             /\ clusterWorker' = [Snapshot(clusterWorker, new) EXCEPT !.pc = "read"]
    <3>1. new \in ClusterObject /\ new.own
      BY <1>1, <1>2, <2>2 DEF ClusterObject, ClusterControllerType
    <3>2. cluster'[c].own
      <4> HIDE DEF new
      <4> QED
        BY <1>1, <1>2, <2>2, <2>5, <3>1, StoreClusterEffect
    <3>3. /\ clusterWorker'.pc = "read" /\ clusterWorker'.key = c
          /\ clusterWorker'.location = clusterWorker.location
      BY <1>1, <2>5 DEF Snapshot, ClusterControllerType
    <3>4. WorkerGuarded'
      BY <1>1, <2>2, <3>2, <3>3 DEF WorkerGuarded, LocatedPCs
    <3>5. QED
      BY <1>4, <2>1, <2>2, <3>4 DEF GuardInv
  <2>6. QED
    BY <2>3, <2>4, <2>5
<1>13. ASSUME ClusterRead PROVE GuardInv'
  <2>1. UNCHANGED <<cluster, gke>> /\ clusterWorker.pc = "read"
    BY <1>13 DEF ClusterRead
  <2>2. \/ \E ready, again : Report(ready, again)
        \/ clusterWorker' = [clusterWorker EXCEPT !.pc = "create"]
        \/ clusterWorker'.pc \in {"status", "label"}
    BY <1>1, <1>13 DEF ClusterRead, ClusterControllerType
  <2>3. ASSUME clusterWorker' = [clusterWorker EXCEPT !.pc = "create"] PROVE WorkerGuarded'
    BY <1>1, <2>1, <2>3 DEF WorkerGuarded, LocatedPCs, ClusterControllerType
  <2>4. WorkerGuarded'
    BY <1>5, <1>6, <2>2, <2>3
  <2>5. QED
    BY <1>3, <1>4, <2>1, <2>4 DEF GuardInv
<1>14. ASSUME ClusterCreate PROVE GuardInv'
  <2>1. UNCHANGED cluster /\ clusterWorker.pc = "create" /\ Report(FALSE, TRUE)
    BY <1>14 DEF ClusterCreate
  <2>2. UNCHANGED gke \/ SetStatus(clusterWorker.location, c, "PROVISIONING")
    BY <1>14 DEF ClusterCreate, SubmitCreate
  <2>3. cluster[c].own
    BY <1>1, <2>1 DEF WorkerGuarded
  <2>4. Settled(c) => clusterWorker.location = Home[ProfileOf[c]]
    BY <1>1, <1>2, <2>1 DEF WorkerGuarded, LocatedPCs, HomeCluster, AtHome
  <2>5. ExternalGuarded'
    BY <1>1, <1>3, <1>4, <2>1, <2>2, <2>3, <2>4, SetStatusEffect
       DEF ExternalGuarded, Present, Settled
  <2>6. QED
    BY <1>3, <1>6, <2>1, <2>5 DEF GuardInv
<1>15. ASSUME ClusterLabel PROVE GuardInv'
  <2>1. clusterWorker'.pc = "status" /\ UNCHANGED gke
    BY <1>1, <1>15 DEF ClusterLabel, EnsureLabels, Report, ClusterControllerType
  <2>2. QED
    BY <1>4, <1>5, <1>15, <2>1, ClusterReconcilerKeeps DEF GuardInv
<1>16. ASSUME ClusterReadForDelete PROVE GuardInv'
  <2>1. UNCHANGED <<cluster, gke>> /\ clusterWorker.pc = "readForDelete"
    BY <1>16 DEF ClusterReadForDelete
  <2>2. \/ Report(FALSE, TRUE)
        \/ /\ ~Present(clusterWorker.location, c)
           /\ clusterWorker' = [clusterWorker EXCEPT !.pc = "release"]
        \/ clusterWorker' = [clusterWorker EXCEPT !.pc = "delete"]
    BY <1>16 DEF ClusterReadForDelete, Present
  <2>3. WorkerGuarded'
    BY <1>1, <1>6, <2>1, <2>2 DEF WorkerGuarded, LocatedPCs, ClusterControllerType, Present
  <2>4. QED
    BY <1>3, <1>4, <2>1, <2>3 DEF GuardInv
<1>17. ASSUME ClusterDelete PROVE GuardInv'
  <2>1. UNCHANGED cluster /\ Report(FALSE, TRUE)
    BY <1>17 DEF ClusterDelete
  <2>2. \/ UNCHANGED gke
        \/ /\ Present(clusterWorker.location, c)
           /\ SetStatus(clusterWorker.location, c, "STOPPING")
    BY <1>17 DEF ClusterDelete, SubmitDelete
  <2>3. ExternalGuarded'
    BY <1>1, <1>3, <1>4, <2>1, <2>2, SetStatusEffect DEF ExternalGuarded, Present, Settled
  <2>4. QED
    BY <1>3, <1>6, <2>1, <2>3 DEF GuardInv
<1>18. ASSUME ClusterRelease PROVE GuardInv'
  <2>1. clusterWorker.pc = "release" /\ UNCHANGED gke
    BY <1>18 DEF ClusterRelease
  <2> DEFINE new == [cluster[c] EXCEPT !.own = FALSE, !.foreign = clusterWorker.foreign]
  <2>2. new \in ClusterObject /\ ~new.own
    BY <1>1, <1>2, <2>1 DEF ClusterObject, ClusterControllerType
  <2>3. UNCHANGED cluster \/ StoreCluster(c, new)
    BY <1>18 DEF ClusterRelease
  <2>4. /\ \A d \in Clusters \ {c} : cluster'[d] = cluster[d]
        /\ UNCHANGED cluster \/ ~cluster'[c].own
    <3> HIDE DEF new
    <3>1. ~NoCluster.own
      BY DEF NoCluster
    <3>2. QED
      BY <1>1, <1>2, <2>1, <2>2, <2>3, <3>1, StoreClusterEffect
  <2>5. GuardedExists'
    BY <1>1, <2>4 DEF GuardedExists
  <2>6. ASSUME NEW l \in Locations, Settled(c), Present(l, c) PROVE FALSE
    <3>1. clusterWorker.location = Home[ProfileOf[c]]
      BY <1>1, <1>2, <2>1, <2>6 DEF WorkerGuarded, LocatedPCs, HomeCluster, AtHome
    <3>2. l = clusterWorker.location
      BY <1>1, <1>2, <2>1, <2>6, <3>1 DEF ExternalGuarded
    <3>3. QED
      BY <1>1, <2>1, <2>6, <3>2 DEF WorkerGuarded
  <2>7. ExternalGuarded'
    BY <1>1, <2>1, <2>4, <2>6 DEF ExternalGuarded, Settled, Present
  <2>8. WorkerGuarded'
    BY <1>6, <1>7, <1>18 DEF ClusterRelease
  <2>9. QED
    BY <2>5, <2>7, <2>8 DEF GuardInv
<1>19. ASSUME ClusterStatus PROVE GuardInv'
  <2>1. WorkerGuarded' /\ UNCHANGED gke
    BY <1>7, <1>19 DEF ClusterStatus
  <2>2. QED
    BY <1>4, <1>19, <2>1, ClusterReconcilerKeeps DEF GuardInv
<1>20. QED
  BY <1>8, <1>9, <1>10, <1>11, <1>12, <1>13, <1>14, <1>15, <1>16, <1>17, <1>18, <1>19
     DEF ClusterReconciler, ClusterControllerNext, ClusterStep

\* GuardInv is inductive.
LEMMA GuardInvInductive == OrphanInv /\ [Next]_vars => GuardInv'
<1> SUFFICES ASSUME OrphanInv, [Next]_vars PROVE GuardInv'
  OBVIOUS
<1>1. TypeInv /\ GuardedExists /\ ExternalGuarded /\ WorkerGuarded
  BY DEF OrphanInv, GuardInv
<1>2. CASE User
  <2>1. GuardedExists' /\ \A d \in Clusters : Kept(d)
    BY <1>1, <1>2, UserKeeps
  <2>2. UNCHANGED <<gke, clusterWorker>>
    BY <1>2 DEF User
  <2>3. ExternalGuarded'
    BY <1>1, <2>1, <2>2 DEF ExternalGuarded, Kept, Settled, Present
  <2>4. WorkerGuarded'
    BY <1>1, <2>1, <2>2 DEF WorkerGuarded, LocatedPCs, Kept, Present, TypeInv, KeysOK
  <2>5. QED
    BY <2>1, <2>3, <2>4 DEF GuardInv
<1>3. CASE Cloud
  <2>1. \A l \in Locations, c \in Clusters : Present(l, c)' => Present(l, c)
    BY <1>1, <1>3, CloudCreatesNothing
  <2>2. UNCHANGED <<cluster, clusterWorker>>
    BY <1>3 DEF Cloud, platformVars, processVars
  <2>3. GuardedExists' /\ ExternalGuarded'
    BY <1>1, <2>1, <2>2 DEF GuardedExists, ExternalGuarded, Settled
  <2>4. clusterWorker.pc = "release" =>
            clusterWorker.location \in Locations /\ clusterWorker.key \in Clusters
    BY <1>1 DEF WorkerGuarded, LocatedPCs, TypeInv, KeysOK, TypeOK, ClusterControllerType
  <2>5. WorkerGuarded'
    BY <1>1, <2>1, <2>2, <2>4 DEF WorkerGuarded, LocatedPCs
  <2>6. QED
    BY <2>3, <2>5 DEF GuardInv
<1>4. CASE ConfigReconciler \/ OtherReconciler \/ UNCHANGED vars
  <2>1. UNCHANGED <<cluster, gke, clusterWorker>>
    BY <1>4, OtherReconcilerEffect
    DEF ReaderFrame, ConfigReconciler, ConfigControllerNext, ConfigStep, ConfigFrame, ConfigDequeue,
                ConfigGet, ConfigUnannotate, ConfigFinalize, ConfigAdvertise, ConfigUnadvertise,
                ConfigRelease, ConfigFinish, platformVars, processVars, vars
  <2>2. QED
    BY <1>1, <2>1 DEF GuardInv, GuardedExists, ExternalGuarded, WorkerGuarded, Settled, Present
<1>5. CASE Restart
  BY <1>1, <1>5 DEF Restart, platformVars, IdleClusterWorker, GuardInv, GuardedExists,
                    ExternalGuarded, WorkerGuarded, LocatedPCs, Settled, Present
<1>6. QED
  BY <1>2, <1>3, <1>4, <1>5, ClusterReconcilerGuarded DEF Next

\* OrphanInv holds in every reachable state.
LEMMA OrphanInvAlways == Spec => []OrphanInv
<1>1. Init => OrphanInv
  BY InitTyped, InitGuarded DEF OrphanInv
<1>2. OrphanInv /\ [Next]_vars => OrphanInv'
  BY TypeInvInductive, HomeInvInductive, GuardInvInductive DEF OrphanInv
<1>3. QED
  BY <1>1, <1>2, PTL DEF Spec

\* No GKE cluster outlives its Cluster resource or that resource's finalizer:
\* whatever calls fail, are lost or hang, however often the provider restarts and
\* whoever else edits the resources - as long as the config is not relocated.
THEOREM GKEClustersGuarded == Spec => []NoOrphan
<1>1. OrphanInv => NoOrphan
  BY DEF OrphanInv, GuardInv, GuardedExists, ExternalGuarded, NoOrphan
<1>2. QED
  BY <1>1, OrphanInvAlways, PTL
-----------------------------------------------------------------------------
(***************************************************************************)
(* Ready Clusters, and deleted ones.                                       *)
(*                                                                         *)
(* The phase Ready stays in the resource after the pass that wrote it, so  *)
(* ReadyHasCluster rests on GKE letting go only of clusters it was told to *)
(* delete, and on those being deleted for Clusters marked for deletion.    *)
(***************************************************************************)
\* A Cluster marked for deletion is there as long as a finalizer is on it.
Marked ==
    \A c \in Clusters :
        cluster[c].deleting => cluster[c].exists /\ (cluster[c].own \/ cluster[c].foreign # {})

\* GKE deletes the clusters of deleted Clusters only.
StoppingMarked ==
    \A c \in Clusters, l \in Locations :
        Settled(c) /\ gke[l][c] = "STOPPING" => cluster[c].deleting

\* Cluster c has its GKE cluster, or is about to go.
Backed(c) ==
    Settled(c) => cluster[c].deleting \/ Present(Home[ProfileOf[c]], c)

\* handleDelete works on a deleted Cluster that nobody else holds back.
DeleterMarked ==
    clusterWorker.pc \in {"readForDelete", "delete", "release"} =>
        /\ cluster[clusterWorker.key].deleting
        /\ cluster[clusterWorker.key].own
        /\ cluster[clusterWorker.key].foreign = {}

\* Labels that were read stay on the Cluster.
ReaderLabelled ==
    clusterWorker.pc = "read" /\ clusterWorker.labelled => cluster[clusterWorker.key].labelled

\* A pass that found the GKE cluster running ends with the Cluster backed by it.
ReadyPass ==
    /\ clusterWorker.ready =>
        clusterWorker.pc = "status" /\ cluster[clusterWorker.key].labelled
    /\ clusterWorker.pc = "label" \/ clusterWorker.ready =>
        cluster[clusterWorker.key].own /\ Backed(clusterWorker.key)

WorkerLife == DeleterMarked /\ ReaderLabelled /\ ReadyPass

LifeInv == Marked /\ StoppingMarked /\ ReadyHasCluster /\ WorkerLife

\* What stays true of a stored Cluster for as long as its finalizer is kept.
Endures(old, new) ==
    old.own =>
        /\ new.own
        /\ old.deleting => new.deleting /\ new.foreign \subseteq old.foreign
        /\ old.labelled => new.labelled

\* A Cluster does not become Ready, or come back from deletion while it is.
NotReadied(old, new) ==
    new.phase = "Ready" /\ ~new.deleting => old.phase = "Ready" /\ ~old.deleting

ClustersEndure == \A c \in Clusters : Endures(cluster[c], cluster'[c])

NoneReadied == \A c \in Clusters : NotReadied(cluster[c], cluster'[c])

\* GKE lets go only of clusters that it was deleting.
GKELasts ==
    \A l \in Locations, c \in Clusters : Present(l, c) => Present(l, c)' \/ gke[l][c] = "STOPPING"

\* GKE begins to delete clusters of deleted Clusters only.
NoneStopped ==
    \A l \in Locations, c \in Clusters :
        gke'[l][c] = "STOPPING" => gke[l][c] = "STOPPING" \/ cluster'[c].deleting

\* The initial state: no Cluster, no GKE cluster, an idle worker.
LEMMA InitLife == Init => LifeInv
<1> SUFFICES ASSUME Init PROVE LifeInv
  OBVIOUS
<1> USE DEF Init
<1>1. Marked /\ ReadyHasCluster
  BY DEF PlatformInit, NoCluster, Marked, ReadyHasCluster
<1>2. StoppingMarked
  BY DEF GKEInit, StoppingMarked
<1>3. WorkerLife
  BY DEF ClusterControllerInit, IdleClusterWorker, WorkerLife, DeleterMarked, ReaderLabelled,
         ReadyPass
<1>4. QED
  BY <1>1, <1>2, <1>3 DEF LifeInv

\* Storing a Cluster that goes on from what is stored.
LEMMA StoreClusterEndures ==
    ASSUME TypeInv, Marked, NEW c \in Clusters, NEW obj \in ClusterObject,
           Endures(cluster[c], obj), obj.deleting => obj.exists, StoreCluster(c, obj)
    PROVE  /\ Marked' /\ ClustersEndure
           /\ NotReadied(cluster[c], obj) => NoneReadied
<1>1. cluster \in [Clusters -> ClusterObject]
  BY DEF TypeInv, TypeOK, PlatformType
<1>2. ~NoCluster.deleting /\ NoCluster.phase # "Ready"
  BY DEF NoCluster
<1>3. \A d \in Clusters :
        cluster'[d] = IF d # c THEN cluster[d]
                      ELSE IF obj.deleting /\ ~obj.own /\ obj.foreign = {} THEN NoCluster ELSE obj
  BY <1>1 DEF StoreCluster
<1>4. QED
  BY <1>2, <1>3 DEF Marked, ClustersEndure, Endures, NoneReadied, NotReadied

\* Leaving the Clusters alone.
LEMMA UnchangedEndures ==
    ASSUME Marked, UNCHANGED cluster PROVE Marked' /\ ClustersEndure /\ NoneReadied
  BY DEF Marked, ClustersEndure, Endures, NoneReadied, NotReadied

\* Users bring no Cluster to Ready, take no label and no mark of deletion away,
\* and add no finalizer to a deleted Cluster.
LEMMA UserEndures ==
    ASSUME TypeInv, GuardedExists, Marked, User
    PROVE  Marked' /\ ClustersEndure /\ NoneReadied
<1> DEFINE Goal == Marked' /\ ClustersEndure /\ NoneReadied
<1>1. cluster \in [Clusters -> ClusterObject]
  BY DEF TypeInv, TypeOK, PlatformType
<1>2. ASSUME NEW c \in Clusters, NEW obj \in ClusterObject, StoreCluster(c, obj),
             Endures(cluster[c], obj), NotReadied(cluster[c], obj), obj.deleting => obj.exists
      PROVE  Goal
  BY <1>2, StoreClusterEndures
<1>3. ASSUME UNCHANGED cluster PROVE Goal
  BY <1>3, UnchangedEndures
<1>4. ASSUME NEW c \in Clusters, CreateCluster(c) PROVE Goal
  <2> DEFINE obj == [NoCluster EXCEPT !.exists = TRUE]
  <2>1. obj \in ClusterObject
    BY DEF NoCluster, ClusterObject, Operations
  <2>2. ~obj.deleting /\ obj.phase # "Ready"
    BY DEF NoCluster
  <2>3. ~cluster[c].own
    BY <1>1, <1>4 DEF CreateCluster, GuardedExists, ClusterObject
  <2>4. QED
    BY <1>2, <1>4, <2>1, <2>2, <2>3 DEF CreateCluster, Endures, NotReadied
<1>5. ASSUME NEW c \in Clusters, DeleteCluster(c) PROVE Goal
  <2> DEFINE obj == [cluster[c] EXCEPT !.deleting = TRUE]
  <2>1. obj \in ClusterObject /\ cluster[c] \in ClusterObject
    BY <1>1 DEF ClusterObject
  <2>2. /\ obj.own = cluster[c].own /\ obj.foreign = cluster[c].foreign /\ obj.deleting
        /\ obj.labelled = cluster[c].labelled /\ obj.exists = cluster[c].exists
    BY <1>1 DEF ClusterObject
  <2>3. cluster[c].exists /\ ~cluster[c].deleting
    BY <1>5 DEF DeleteCluster
  <2>4. QED
    BY <1>2, <1>5, <2>1, <2>2, <2>3 DEF DeleteCluster, Endures, NotReadied
<1>6. ASSUME NEW c \in Clusters, NEW op \in ClusterOps \cup {"none"}, AnnotateCluster(c, op)
      PROVE  Goal
  <2> DEFINE obj == [cluster[c] EXCEPT !.op = op]
  <2>1. obj \in ClusterObject
    BY <1>1, OperationsAssumption DEF ClusterObject, Operations
  <2>2. /\ obj.own = cluster[c].own /\ obj.foreign = cluster[c].foreign
        /\ obj.deleting = cluster[c].deleting /\ obj.phase = cluster[c].phase
        /\ obj.labelled = cluster[c].labelled /\ obj.exists = cluster[c].exists
    BY <1>1 DEF ClusterObject
  <2>3. QED
    BY <1>2, <1>6, <2>1, <2>2 DEF AnnotateCluster, Endures, NotReadied, Marked
<1>7. ASSUME NEW c \in Clusters, NEW f \in Foreign, AddForeign(c, f) PROVE Goal
  <2> DEFINE obj == [cluster[c] EXCEPT !.foreign = @ \cup {f}]
  <2>1. obj \in ClusterObject
    BY <1>1 DEF ClusterObject
  <2>2. /\ obj.own = cluster[c].own /\ obj.labelled = cluster[c].labelled
        /\ obj.deleting = cluster[c].deleting /\ obj.phase = cluster[c].phase
    BY <1>1 DEF ClusterObject
  <2>3. ~cluster[c].deleting
    BY <1>7 DEF AddForeign
  <2>4. QED
    BY <1>2, <1>7, <2>1, <2>2, <2>3 DEF AddForeign, Endures, NotReadied
<1>8. ASSUME NEW c \in Clusters, NEW f \in Foreign, RemoveForeign(c, f) PROVE Goal
  <2> DEFINE obj == [cluster[c] EXCEPT !.foreign = @ \ {f}]
  <2>1. obj \in ClusterObject
    BY <1>1 DEF ClusterObject
  <2>2. /\ obj.own = cluster[c].own /\ obj.foreign \subseteq cluster[c].foreign
        /\ obj.deleting = cluster[c].deleting /\ obj.phase = cluster[c].phase
        /\ obj.labelled = cluster[c].labelled /\ obj.exists = cluster[c].exists
    BY <1>1 DEF ClusterObject
  <2>3. QED
    BY <1>2, <1>8, <2>1, <2>2 DEF RemoveForeign, Endures, NotReadied, Marked
<1>9. QED
  BY <1>3, <1>4, <1>5, <1>6, <1>7, <1>8
     DEF User, UserNext, CreateConfig, Relocate, AnnotateConfig, DeleteConfig

\* GKE by itself lets a cluster go only when it was deleting it, and deletes none.
LEMMA CloudLasts == ASSUME TypeInv, Cloud PROVE GKELasts /\ NoneStopped
<1>1. GKEType
  BY DEF TypeInv, TypeOK
<1>2. PICK l \in Locations, c \in Clusters :
        \/ GKEProgress(l, c)
        \/ Repaired(l, c)
        \/ Maintenance(l, c)
        \/ Failure(l, c)
  BY DEF Cloud, GKENext
<1>3. \/ \E status \in {"RUNNING", "RECONCILING", "ERROR"} : SetStatus(l, c, status)
      \/ SetStatus(l, c, "ABSENT") /\ gke[l][c] = "STOPPING"
  BY <1>2 DEF GKEProgress, Provisioned, Stopped, Repaired, Maintenance, Failure, Become
<1>4. QED
  BY <1>1, <1>3, SetStatusEffect DEF GKELasts, NoneStopped, Present

\* GKE begins no deletion by itself.
LEMMA CloudSpares ==
    ASSUME GKEType, Cloud, NEW l \in Locations, NEW c \in Clusters, gke'[l][c] = "STOPPING"
    PROVE  gke[l][c] = "STOPPING"
<1>1. PICK k \in Locations, d \in Clusters :
        \E status \in {"RUNNING", "RECONCILING", "ERROR", "ABSENT"} : SetStatus(k, d, status)
  BY DEF Cloud, GKENext, GKEProgress, Provisioned, Stopped, Repaired, Maintenance, Failure, Become
<1>2. QED
  BY <1>1, SetStatusEffect

-----------------------------------------------------------------------------
\* A guarded Cluster that has its GKE cluster keeps it, or is deleted.
LEMMA BackedLasts ==
    ASSUME OrphanInv, LifeInv, ClustersEndure, GKELasts,
           NEW c \in Clusters, cluster[c].own, Backed(c)
    PROVE  Backed(c)' /\ cluster'[c].own
<1>1. Home[ProfileOf[c]] \in Locations
  BY TopologyAssumption
<1>2. QED
  BY <1>1 DEF LifeInv, StoppingMarked, ClustersEndure, Endures, GKELasts, Backed, Settled

\* What the resources and GKE keep of LifeInv when nothing is taken away.
LEMMA ResourcesLast ==
    ASSUME OrphanInv, LifeInv, ClustersEndure, GKELasts, NoneStopped
    PROVE  StoppingMarked' /\ (NoneReadied => ReadyHasCluster')
<1>1. StoppingMarked'
  <2> SUFFICES ASSUME NEW c \in Clusters, NEW l \in Locations, Settled(c), gke'[l][c] = "STOPPING",
                      gke[l][c] = "STOPPING"
               PROVE  cluster'[c].deleting
    BY DEF StoppingMarked, NoneStopped, Settled
  <2>1. cluster[c].deleting /\ cluster[c].own
    BY DEF LifeInv, StoppingMarked, OrphanInv, GuardInv, ExternalGuarded, Present
  <2>2. QED
    BY <2>1 DEF ClustersEndure, Endures
<1>2. ASSUME NoneReadied PROVE ReadyHasCluster'
  <2> SUFFICES ASSUME NEW c \in Clusters, Settled(c), cluster'[c].phase = "Ready",
                      ~cluster'[c].deleting
               PROVE  /\ cluster'[c].own /\ cluster'[c].labelled
                      /\ Present(Home[ProfileOf[c]], c)'
    BY DEF ReadyHasCluster, Settled
  <2>1. /\ cluster[c].own /\ cluster[c].labelled
        /\ Present(Home[ProfileOf[c]], c)
    BY <1>2 DEF NoneReadied, NotReadied, LifeInv, ReadyHasCluster
  <2>2. Backed(c)'
    BY <2>1, BackedLasts DEF Backed
  <2>3. QED
    BY <2>1, <2>2 DEF ClustersEndure, Endures, Backed, Settled
<1>3. QED
  BY <1>1, <1>2

\* A worker that did not move keeps its part while nothing is taken away.
LEMMA WorkerLasts ==
    ASSUME OrphanInv, LifeInv, ClustersEndure, GKELasts, UNCHANGED clusterWorker
    PROVE  WorkerLife'
<1> DEFINE w == clusterWorker
<1>1. TypeInv /\ ClusterControllerType /\ WorkerGuarded /\ WorkerLife
  BY DEF OrphanInv, GuardInv, TypeInv, TypeOK, LifeInv
<1>2. CASE w.pc = "idle"
  BY <1>1, <1>2 DEF WorkerLife, DeleterMarked, ReaderLabelled, ReadyPass
<1>3. CASE w.pc # "idle"
  <2>1. w.key \in Clusters
    BY <1>1, <1>3 DEF TypeInv, KeysOK
  <2>2. Endures(cluster[w.key], cluster'[w.key])
    BY <2>1 DEF ClustersEndure
  <2>3. DeleterMarked' /\ ReaderLabelled'
    BY <1>1, <2>2 DEF WorkerLife, DeleterMarked, ReaderLabelled, Endures, WorkerGuarded
  <2>4. w.pc = "label" \/ w.ready => cluster'[w.key].own /\ Backed(w.key)'
    <3> SUFFICES ASSUME NEW c \in Clusters, c = w.key, w.pc = "label" \/ w.ready
                 PROVE  cluster'[c].own /\ Backed(c)'
      BY <2>1
    <3>1. cluster[c].own /\ Backed(c)
      BY <1>1 DEF WorkerLife, ReadyPass
    <3>2. QED
      BY <3>1, BackedLasts
  <2>5. ReadyPass'
    BY <1>1, <2>2, <2>4 DEF WorkerLife, ReadyPass, Endures
  <2>6. QED
    BY <2>3, <2>5 DEF WorkerLife
<1>4. QED
  BY <1>2, <1>3

\* A worker at one of these steps, not about to write Ready, promises nothing.
LEMMA WorkerQuiet ==
    ASSUME clusterWorker'.pc \in {"idle", "locking", "unannotate", "finalize", "create", "status"},
           clusterWorker'.ready = FALSE
    PROVE  WorkerLife'
  BY DEF WorkerLife, DeleterMarked, ReaderLabelled, ReadyPass

\* Handing a request over to a handler: what it is told of the Cluster stays true.
LEMMA HandleLife ==
    ASSUME OrphanInv, LifeInv, NEW obj, obj = cluster[clusterWorker.key],
           clusterWorker.pc \in {"locking", "unannotate"}, ClustersEndure,
           Handle(obj) \/ \E again \in BOOLEAN : Leave(again)
    PROVE  WorkerLife'
<1> DEFINE w == clusterWorker
<1>1. TypeInv /\ ClusterControllerType /\ Marked /\ WorkerLife
  BY DEF OrphanInv, TypeInv, TypeOK, LifeInv
<1>2. w.key \in Clusters /\ obj \in ClusterObject
  BY <1>1 DEF TypeInv, TypeOK, KeysOK, PlatformType
<1>3. Endures(obj, cluster'[w.key])
  BY <1>2 DEF ClustersEndure
<1>4. w.ready = FALSE
  BY <1>1 DEF WorkerLife, ReadyPass, ClusterControllerType
<1>5. ASSUME NEW again, Leave(again) PROVE WorkerLife'
  BY <1>5, WorkerQuiet DEF Leave, IdleClusterWorker
<1>6. ASSUME Handle(obj), ~Leave(FALSE) PROVE WorkerLife'
  <2>1. w' = Handler(w, obj)
    BY <1>6 DEF Handle
  <2>2. /\ w'.key = w.key /\ w'.ready = FALSE /\ w'.labelled = obj.labelled
        /\ w'.pc = IF obj.deleting THEN HandleDelete(obj)
                   ELSE IF obj.own THEN "read" ELSE "finalize"
    BY <1>1, <1>4, <2>1 DEF Handler, Snapshot, ClusterControllerType
  <2>3. \/ w'.pc \in {"status", "finalize"}
        \/ w'.pc = "read" /\ obj.own
        \/ w'.pc = "readForDelete" /\ obj.deleting /\ obj.foreign = {}
    BY <2>2 DEF HandleDelete
  <2>4. CASE w'.pc \in {"status", "finalize"}
    BY <2>2, <2>4, WorkerQuiet
  <2>5. CASE w'.pc = "read" /\ obj.own
    BY <1>3, <2>2, <2>5 DEF Endures, WorkerLife, DeleterMarked, ReaderLabelled, ReadyPass
  <2>6. CASE w'.pc = "readForDelete" /\ obj.deleting /\ obj.foreign = {}
    <3>1. obj.own
      BY <1>1, <1>2, <2>6 DEF Marked
    <3>2. QED
      BY <1>3, <2>2, <2>6, <3>1 DEF Endures, WorkerLife, DeleterMarked, ReaderLabelled, ReadyPass
  <2>7. QED
    BY <2>3, <2>4, <2>5, <2>6
<1>7. QED
  BY <1>5, <1>6

\* The patches of the Cluster controller, but for the two that end a pass, take
\* nothing away and bring no Cluster to Ready.
LEMMA ClusterReconcilerEndures ==
    ASSUME OrphanInv, Marked, ClusterUnannotate \/ ClusterFinalize \/ ClusterLabel
    PROVE  Marked' /\ ClustersEndure /\ NoneReadied
<1> DEFINE c == clusterWorker.key
           old == cluster[c]
<1>1. TypeInv /\ ClusterControllerType
  BY DEF OrphanInv, TypeInv, TypeOK
<1>2. c \in Clusters /\ old \in ClusterObject
  BY <1>1 DEF TypeInv, TypeOK, KeysOK, PlatformType, ClusterUnannotate, ClusterFinalize,
              ClusterLabel
<1>3. \/ UNCHANGED cluster
      \/ StoreCluster(c, [old EXCEPT !.op = "none"])
      \/ /\ StoreCluster(c, [old EXCEPT !.own = TRUE, !.foreign = clusterWorker.foreign])
         /\ MayPatchFinalizers(old, TRUE, clusterWorker.foreign)
      \/ StoreCluster(c, [old EXCEPT !.labelled = TRUE])
  BY DEF ClusterUnannotate, ClusterFinalize, ClusterLabel, EnsureLabels
<1>4. ASSUME NEW new \in ClusterObject, Endures(old, new), new.deleting = old.deleting,
             new.phase = old.phase, new.exists = old.exists, StoreCluster(c, new)
      PROVE  Marked' /\ ClustersEndure /\ NoneReadied
  BY <1>1, <1>2, <1>4, StoreClusterEndures DEF NotReadied, Marked
<1>5. CASE UNCHANGED cluster
  BY <1>5, UnchangedEndures
<1>6. CASE StoreCluster(c, [old EXCEPT !.op = "none"])
  BY <1>2, <1>4, <1>6 DEF ClusterObject, Operations, Endures
<1>7. CASE /\ StoreCluster(c, [old EXCEPT !.own = TRUE, !.foreign = clusterWorker.foreign])
           /\ MayPatchFinalizers(old, TRUE, clusterWorker.foreign)
  <2> DEFINE new == [old EXCEPT !.own = TRUE, !.foreign = clusterWorker.foreign]
  <2>1. /\ new \in ClusterObject /\ new.own /\ new.foreign = clusterWorker.foreign
        /\ new.deleting = old.deleting /\ new.labelled = old.labelled
        /\ new.phase = old.phase /\ new.exists = old.exists
    BY <1>1, <1>2 DEF ClusterObject, ClusterControllerType
  <2>2. Endures(old, new)
    BY <1>7, <2>1 DEF Endures, MayPatchFinalizers
  <2>3. QED
    BY <1>4, <1>7, <2>1, <2>2
<1>8. CASE StoreCluster(c, [old EXCEPT !.labelled = TRUE])
  BY <1>2, <1>4, <1>8 DEF ClusterObject, Endures
<1>9. QED
  BY <1>3, <1>5, <1>6, <1>7, <1>8

\* UpdateStatus writes the phase Ready for a Cluster that has its GKE cluster.
LEMMA ClusterStatusLife == OrphanInv /\ LifeInv /\ ClusterStatus => LifeInv'
<1> SUFFICES ASSUME OrphanInv, LifeInv, ClusterStatus PROVE LifeInv'
  OBVIOUS
<1> DEFINE w == clusterWorker
           old == cluster[w.key]
           new == [old EXCEPT !.phase = ClusterPhase, !.endpoint = @ \/ w.publish]
<1>1. /\ TypeInv /\ ClusterControllerType /\ Marked /\ ReadyHasCluster /\ ReadyPass
      /\ UNCHANGED gke
  BY DEF OrphanInv, TypeInv, TypeOK, LifeInv, WorkerLife, ClusterStatus
<1>2. w.key \in Clusters /\ old \in ClusterObject
  BY <1>1 DEF TypeInv, TypeOK, KeysOK, PlatformType, ClusterStatus
<1>3. ClusterPhase \in {"Progressing", "Ready", "Terminating"} /\ (ClusterPhase = "Ready" => w.ready)
  BY DEF ClusterPhase
<1>4. /\ new \in ClusterObject /\ new.phase = ClusterPhase
      /\ new.own = old.own /\ new.deleting = old.deleting /\ new.foreign = old.foreign
      /\ new.labelled = old.labelled /\ new.exists = old.exists
  BY <1>1, <1>2, <1>3 DEF ClusterObject, ClusterControllerType
<1>5. UNCHANGED cluster \/ StoreCluster(w.key, new)
  BY DEF ClusterStatus
<1>6. Marked' /\ ClustersEndure
  <2>1. Endures(old, new) /\ (new.deleting => new.exists)
    BY <1>1, <1>2, <1>4 DEF Endures, Marked
  <2> HIDE DEF new
  <2>2. QED
    BY <1>1, <1>2, <1>4, <1>5, <2>1, StoreClusterEndures, UnchangedEndures
<1>7. GKELasts /\ NoneStopped
  BY <1>1 DEF GKELasts, NoneStopped, Present
<1>8. WorkerLife'
  BY WorkerQuiet DEF ClusterStatus, Leave, IdleClusterWorker
<1>9. StoppingMarked' /\ (NoneReadied => ReadyHasCluster')
  BY <1>6, <1>7, ResourcesLast
<1>10. CASE NotReadied(old, new) \/ UNCHANGED cluster
  <2> HIDE DEF new
  <2>1. NoneReadied
    BY <1>1, <1>2, <1>4, <1>5, <1>6, <1>10, StoreClusterEndures, UnchangedEndures
       DEF Endures, Marked
  <2>2. QED
    BY <1>6, <1>8, <1>9, <2>1 DEF LifeInv
<1>11. CASE ~NotReadied(old, new) /\ StoreCluster(w.key, new)
  <2>1. w.ready /\ ~old.deleting /\ ~new.deleting /\ new.phase = "Ready"
    BY <1>3, <1>4, <1>11 DEF NotReadied
  <2>2. /\ old.own /\ old.labelled
        /\ Settled(w.key) => Present(Home[ProfileOf[w.key]], w.key)
    BY <1>1, <2>1 DEF ReadyPass, Backed
  <2>3. /\ cluster'[w.key] = new
        /\ \A d \in Clusters \ {w.key} : cluster'[d] = cluster[d]
    <3> HIDE DEF new
    <3>1. QED
      BY <1>1, <1>2, <1>4, <1>11, <2>1, StoreClusterEffect DEF TypeInv, TypeOK, PlatformType
  <2>4. ReadyHasCluster'
    <3> SUFFICES ASSUME NEW c \in Clusters, Settled(c), cluster'[c].phase = "Ready",
                        ~cluster'[c].deleting
                 PROVE  /\ cluster'[c].own /\ cluster'[c].labelled
                        /\ Present(Home[ProfileOf[c]], c)'
      BY DEF ReadyHasCluster, Settled
    <3>1. CASE c = w.key
      BY <1>1, <1>4, <2>2, <2>3, <3>1 DEF Present
    <3>2. CASE c # w.key
      BY <1>1, <2>3, <3>2 DEF ReadyHasCluster, Present
    <3>3. QED
      BY <3>1, <3>2
  <2>5. QED
    BY <1>6, <1>8, <1>9, <2>4 DEF LifeInv
<1>12. QED
  BY <1>5, <1>10, <1>11

\* handleDelete releases a Cluster that GKE has no cluster for.
LEMMA ClusterReleaseLife == OrphanInv /\ LifeInv /\ GuardInv' /\ ClusterRelease => LifeInv'
<1> SUFFICES ASSUME OrphanInv, LifeInv, GuardInv', ClusterRelease PROVE LifeInv'
  OBVIOUS
<1> DEFINE w == clusterWorker
           new == [cluster[w.key] EXCEPT !.own = FALSE, !.foreign = w.foreign]
<1>1. /\ TypeInv /\ ClusterControllerType /\ Marked /\ StoppingMarked /\ ReadyHasCluster
      /\ DeleterMarked /\ UNCHANGED gke /\ w.pc = "release"
  BY DEF OrphanInv, TypeInv, TypeOK, LifeInv, WorkerLife, ClusterRelease
<1>2. w.key \in Clusters /\ cluster[w.key] \in ClusterObject
  BY <1>1 DEF TypeInv, TypeOK, KeysOK, PlatformType
<1>3. new \in ClusterObject /\ ~new.own /\ new.deleting /\ new.exists
  BY <1>1, <1>2 DEF ClusterObject, ClusterControllerType, DeleterMarked, Marked
<1>4. UNCHANGED cluster \/ StoreCluster(w.key, new)
  BY DEF ClusterRelease
<1>5. WorkerLife'
  <2>1. CASE Leave(FALSE)
    BY <2>1, WorkerQuiet DEF Leave, IdleClusterWorker
  <2>2. CASE Report(FALSE, TRUE)
    BY <1>1, <2>2, WorkerQuiet DEF Report, ClusterControllerType
  <2>3. QED
    BY <2>1, <2>2 DEF ClusterRelease
<1>6. CASE UNCHANGED cluster
  BY <1>1, <1>5, <1>6
     DEF LifeInv, Marked, StoppingMarked, ReadyHasCluster, Settled, Present
<1>7. CASE StoreCluster(w.key, new)
  <2>1. /\ cluster'[w.key] = new \/ cluster'[w.key] = NoCluster
        /\ cluster'[w.key] = new => new.foreign # {}
        /\ \A d \in Clusters \ {w.key} : cluster'[d] = cluster[d]
    <3> HIDE DEF new
    <3>1. ~NoCluster.deleting
      BY DEF NoCluster
    <3>2. QED
      BY <1>1, <1>2, <1>3, <1>7, <3>1, StoreClusterEffect DEF TypeInv, TypeOK, PlatformType
  <2>2. /\ ~cluster'[w.key].own
        /\ cluster'[w.key].phase # "Ready" \/ cluster'[w.key].deleting
        /\ cluster'[w.key].deleting => cluster'[w.key].exists /\ cluster'[w.key].foreign # {}
    <3>1. ~NoCluster.deleting /\ NoCluster.phase # "Ready" /\ ~NoCluster.own
      BY DEF NoCluster
    <3> HIDE DEF new
    <3>2. QED
      BY <1>3, <2>1, <3>1
  <2>3. Marked' /\ ReadyHasCluster'
    BY <1>1, <2>1, <2>2 DEF Marked, ReadyHasCluster, Settled, Present
  <2>4. StoppingMarked'
    <3> SUFFICES ASSUME NEW c \in Clusters, NEW l \in Locations, Settled(c),
                        gke'[l][c] = "STOPPING"
                 PROVE  cluster'[c].deleting
      BY DEF StoppingMarked, Settled
    <3>1. c # w.key
      BY <2>2 DEF GuardInv, ExternalGuarded, Settled, Present
    <3>2. QED
      BY <1>1, <2>1, <3>1 DEF StoppingMarked
  <2>5. QED
    BY <1>5, <2>3, <2>4 DEF LifeInv
<1>8. QED
  BY <1>4, <1>6, <1>7

\* The Cluster controller keeps LifeInv, one step per action.
LEMMA ClusterReconcilerLife == OrphanInv /\ GuardInv' /\ LifeInv /\ ClusterReconciler => LifeInv'
<1> SUFFICES ASSUME OrphanInv, GuardInv', LifeInv, ClusterReconciler PROVE LifeInv'
  OBVIOUS
<1> DEFINE w == clusterWorker
<1>1. /\ TypeInv /\ ClusterControllerType /\ GKEType /\ WorkerGuarded
      /\ Marked /\ DeleterMarked /\ ReaderLabelled /\ ReadyPass
  BY DEF OrphanInv, TypeInv, TypeOK, GuardInv, LifeInv, WorkerLife
<1>2. w.pc # "idle" => w.key \in Clusters
  BY <1>1 DEF TypeInv, KeysOK
<1>3. ASSUME UNCHANGED gke PROVE GKELasts /\ NoneStopped
  BY <1>3 DEF GKELasts, NoneStopped, Present
<1>4. ASSUME ClustersEndure, Marked', NoneReadied, GKELasts, NoneStopped, WorkerLife' PROVE LifeInv'
  BY <1>4, ResourcesLast DEF LifeInv
<1>5. ASSUME UNCHANGED <<cluster, gke>>, WorkerLife' PROVE LifeInv'
  BY <1>1, <1>3, <1>4, <1>5, UnchangedEndures
<1>6. ASSUME NEW again \in BOOLEAN, Report(FALSE, again) PROVE WorkerLife'
  BY <1>1, <1>6, WorkerQuiet DEF Report, ClusterControllerType
<1>7. ASSUME NEW n \in Configs, DeliverProfileEvent(n) PROVE LifeInv'
  <2>1. UNCHANGED <<cluster, gke, clusterWorker>>
    BY <1>7 DEF DeliverProfileEvent
  <2>2. WorkerLife'
    BY <1>1, <1>3, <2>1, UnchangedEndures, WorkerLasts
  <2>3. QED
    BY <1>5, <2>1, <2>2
<1>8. ASSUME NEW d \in Clusters, ClusterDequeue(d) PROVE LifeInv'
  <2>1. /\ UNCHANGED <<cluster, gke>>
        /\ clusterWorker'.pc = "locking" /\ clusterWorker'.ready = FALSE
    BY <1>8 DEF ClusterDequeue, IdleClusterWorker
  <2>2. QED
    BY <1>5, <2>1, WorkerQuiet
<1>9. ASSUME ClusterGet PROVE LifeInv'
  <2>1. UNCHANGED <<cluster, gke>> /\ w.pc = "locking"
    BY <1>9 DEF ClusterGet
  <2>2. \/ Handle(cluster[w.key]) \/ \E again \in BOOLEAN : Leave(again)
        \/ clusterWorker' = [clusterWorker EXCEPT !.pc = "unannotate"]
    BY <1>9 DEF ClusterGet
  <2>3. ASSUME clusterWorker' = [clusterWorker EXCEPT !.pc = "unannotate"] PROVE WorkerLife'
    <3>1. clusterWorker'.pc = "unannotate" /\ clusterWorker'.ready = FALSE
      BY <1>1, <2>1, <2>3 DEF ReadyPass, ClusterControllerType
    <3>2. QED
      BY <3>1, WorkerQuiet
  <2>4. WorkerLife'
    BY <1>1, <2>1, <2>2, <2>3, UnchangedEndures, HandleLife
  <2>5. QED
    BY <1>5, <2>1, <2>4
<1>10. ASSUME ClusterUnannotate PROVE LifeInv'
  <2>1. UNCHANGED gke /\ w.pc = "unannotate"
    BY <1>10 DEF ClusterUnannotate
  <2>2. Handle(cluster[w.key]) \/ \E again \in BOOLEAN : Leave(again)
    BY <1>10 DEF ClusterUnannotate
  <2>3. Marked' /\ ClustersEndure /\ NoneReadied
    BY <1>1, <1>10, ClusterReconcilerEndures
  <2>4. WorkerLife'
    BY <2>1, <2>2, <2>3, HandleLife
  <2>5. QED
    BY <1>3, <1>4, <2>1, <2>3, <2>4
<1>11. ASSUME ClusterFinalize PROVE LifeInv'
  <2>1. UNCHANGED gke /\ w.pc = "finalize"
    BY <1>11 DEF ClusterFinalize
  <2>2. Marked' /\ ClustersEndure /\ NoneReadied
    BY <1>1, <1>11, ClusterReconcilerEndures
  <2> DEFINE new == [cluster[w.key] EXCEPT !.own = TRUE, !.foreign = w.foreign]
  <2>3. \/ Report(FALSE, TRUE)
        \/ /\ StoreCluster(w.key, new)
           /\ clusterWorker' = [Snapshot(clusterWorker, new) EXCEPT !.pc = "read"]
    BY <1>11 DEF ClusterFinalize, Applied
  <2>4. ASSUME StoreCluster(w.key, new),
               clusterWorker' = [Snapshot(clusterWorker, new) EXCEPT !.pc = "read"]
        PROVE  WorkerLife'
    <3>1. cluster \in [Clusters -> ClusterObject] /\ new \in ClusterObject /\ new.own
      <4>1. cluster \in [Clusters -> ClusterObject]
        BY <1>1 DEF TypeInv, TypeOK, PlatformType
      <4>2. cluster[w.key] \in ClusterObject /\ w.foreign \in SUBSET Foreign
        BY <1>1, <1>2, <2>1, <4>1 DEF ClusterControllerType
      <4>3. QED
        BY <4>1, <4>2 DEF ClusterObject
    <3>2. cluster'[w.key] = new
      <4> HIDE DEF new
      <4> QED
        BY <1>2, <2>1, <2>4, <3>1, StoreClusterEffect
    <3>3. /\ clusterWorker'.pc = "read" /\ clusterWorker'.key = w.key
          /\ clusterWorker'.ready = FALSE /\ clusterWorker'.labelled = new.labelled
      BY <1>1, <2>1, <2>4 DEF Snapshot, ClusterControllerType, ReadyPass
    <3> HIDE DEF new
    <3>4. QED
      BY <3>2, <3>3 DEF WorkerLife, DeleterMarked, ReaderLabelled, ReadyPass
  <2>5. WorkerLife'
    BY <1>6, <2>3, <2>4
  <2>6. QED
    BY <1>3, <1>4, <2>1, <2>2, <2>5
<1>12. ASSUME ClusterRead PROVE LifeInv'
  <2>1. UNCHANGED <<cluster, gke>> /\ w.pc = "read"
    BY <1>12 DEF ClusterRead
  <2>2. \/ clusterWorker' = [clusterWorker EXCEPT !.pc = "create"]
        \/ /\ gke[w.location][w.key] = "RUNNING"
           /\ clusterWorker' =
                [clusterWorker EXCEPT !.publish = ~w.endpoint, !.ready = w.labelled,
                                      !.pc = IF w.labelled THEN "status" ELSE "label"]
        \/ Report(FALSE, TRUE)
    BY <1>12 DEF ClusterRead
  <2>3. ASSUME clusterWorker' = [clusterWorker EXCEPT !.pc = "create"] PROVE WorkerLife'
    <3>1. clusterWorker'.pc = "create" /\ clusterWorker'.ready = FALSE
      BY <1>1, <2>1, <2>3 DEF ReadyPass, ClusterControllerType
    <3>2. QED
      BY <3>1, WorkerQuiet
  <2>4. ASSUME gke[w.location][w.key] = "RUNNING",
               clusterWorker' =
                [clusterWorker EXCEPT !.publish = ~w.endpoint, !.ready = w.labelled,
                                      !.pc = IF w.labelled THEN "status" ELSE "label"]
        PROVE  WorkerLife'
    <3>1. /\ clusterWorker'.key = w.key /\ clusterWorker'.ready = w.labelled
          /\ clusterWorker'.pc = IF w.labelled THEN "status" ELSE "label"
      BY <1>1, <2>4 DEF ClusterControllerType
    <3>2. cluster[w.key].own /\ (w.labelled => cluster[w.key].labelled)
      BY <1>1, <2>1 DEF WorkerGuarded, ReaderLabelled
    <3>3. Settled(w.key) => w.location = Home[ProfileOf[w.key]]
      BY <1>1, <1>2, <2>1 DEF WorkerGuarded, LocatedPCs, OrphanInv, HomeInv, HomeCluster, AtHome
    <3>4. Settled(w.key) => gke'[Home[ProfileOf[w.key]]][w.key] = "RUNNING"
      BY <2>1, <2>4, <3>3
    <3>5. QED
      BY <2>1, <3>1, <3>2, <3>4
         DEF WorkerLife, DeleterMarked, ReaderLabelled, ReadyPass, Backed, Present, Settled
  <2>5. WorkerLife'
    BY <1>6, <2>2, <2>3, <2>4
  <2>6. QED
    BY <1>5, <2>1, <2>5
<1>13. ASSUME ClusterCreate PROVE LifeInv'
  <2>1. UNCHANGED cluster /\ WorkerLife'
    BY <1>6, <1>13 DEF ClusterCreate
  <2>2. UNCHANGED gke \/ SetStatus(w.location, w.key, "PROVISIONING")
    BY <1>13 DEF ClusterCreate, SubmitCreate
  <2>3. GKELasts /\ NoneStopped
    BY <1>1, <1>3, <2>2, SetStatusEffect DEF GKELasts, NoneStopped, Present
  <2>4. QED
    BY <1>1, <1>4, <2>1, <2>3, UnchangedEndures
<1>14. ASSUME ClusterLabel PROVE LifeInv'
  <2>1. UNCHANGED gke /\ w.pc = "label"
    BY <1>14 DEF ClusterLabel
  <2>2. Marked' /\ ClustersEndure /\ NoneReadied
    BY <1>1, <1>14, ClusterReconcilerEndures
  <2> DEFINE new == [cluster[w.key] EXCEPT !.labelled = TRUE]
  <2>3. \/ Report(FALSE, TRUE)
        \/ /\ StoreCluster(w.key, new)
           /\ clusterWorker' = [clusterWorker EXCEPT !.pc = "status", !.ready = TRUE,
                                    !.publish = FALSE, !.deleting = cluster[w.key].deleting]
    BY <1>14 DEF ClusterLabel, EnsureLabels, Applied
  <2>4. ASSUME StoreCluster(w.key, new),
               clusterWorker' = [clusterWorker EXCEPT !.pc = "status", !.ready = TRUE,
                                    !.publish = FALSE, !.deleting = cluster[w.key].deleting]
        PROVE  WorkerLife'
    <3>1. /\ clusterWorker'.pc = "status" /\ clusterWorker'.ready = TRUE
          /\ clusterWorker'.key = w.key
      BY <1>1, <2>4 DEF ClusterControllerType
    <3>2. cluster[w.key].own /\ Backed(w.key)
      BY <1>1, <2>1 DEF ReadyPass
    <3>3. Backed(w.key)' /\ cluster'[w.key].own
      <4> SUFFICES ASSUME NEW c \in Clusters, c = w.key PROVE Backed(c)' /\ cluster'[c].own
        BY <1>2, <2>1, <3>1 DEF Backed, Settled, Present
      <4>1. QED
        BY <1>3, <2>1, <2>2, <3>2, BackedLasts
    <3>4. cluster'[w.key].labelled
      <4>1. cluster \in [Clusters -> ClusterObject]
        BY <1>1 DEF TypeInv, TypeOK, PlatformType
      <4>2. cluster[w.key] \in ClusterObject /\ w.key \in Clusters
        BY <1>2, <2>1, <4>1
      <4>3. new \in ClusterObject /\ new.own /\ new.labelled
        BY <3>2, <4>2 DEF ClusterObject
      <4> HIDE DEF new
      <4>4. QED
        BY <2>4, <4>1, <4>2, <4>3, StoreClusterEffect
    <3>5. QED
      BY <3>1, <3>3, <3>4
         DEF WorkerLife, DeleterMarked, ReaderLabelled, ReadyPass, Backed, Settled, Present
  <2>5. WorkerLife'
    BY <1>6, <2>3, <2>4
  <2>6. QED
    BY <1>3, <1>4, <2>1, <2>2, <2>5
<1>15. ASSUME ClusterReadForDelete PROVE LifeInv'
  <2>1. UNCHANGED <<cluster, gke>> /\ w.pc = "readForDelete"
    BY <1>15 DEF ClusterReadForDelete
  <2>2. \/ Report(FALSE, TRUE)
        \/ \E pc \in {"release", "delete"} : clusterWorker' = [clusterWorker EXCEPT !.pc = pc]
    BY <1>15 DEF ClusterReadForDelete
  <2>3. ASSUME NEW pc \in {"release", "delete"}, clusterWorker' = [clusterWorker EXCEPT !.pc = pc]
        PROVE  WorkerLife'
    <3>1. clusterWorker'.pc = pc /\ clusterWorker'.key = w.key /\ clusterWorker'.ready = FALSE
      BY <1>1, <2>1, <2>3 DEF ReadyPass, ClusterControllerType
    <3>2. QED
      BY <1>1, <2>1, <3>1 DEF WorkerLife, DeleterMarked, ReaderLabelled, ReadyPass
  <2>4. QED
    BY <1>5, <1>6, <2>1, <2>2, <2>3
<1>16. ASSUME ClusterDelete PROVE LifeInv'
  <2>1. UNCHANGED cluster /\ WorkerLife' /\ w.pc = "delete"
    BY <1>6, <1>16 DEF ClusterDelete
  <2>2. \/ UNCHANGED gke
        \/ Present(w.location, w.key) /\ SetStatus(w.location, w.key, "STOPPING")
    BY <1>16 DEF ClusterDelete, SubmitDelete
  <2>3. cluster[w.key].deleting
    BY <1>1, <2>1 DEF DeleterMarked
  <2>4. GKELasts /\ NoneStopped
    BY <1>1, <1>3, <2>1, <2>2, <2>3, SetStatusEffect DEF GKELasts, NoneStopped, Present
  <2>5. QED
    BY <1>1, <1>4, <2>1, <2>4, UnchangedEndures
<1>17. QED
  BY <1>7, <1>8, <1>9, <1>10, <1>11, <1>12, <1>13, <1>14, <1>15, <1>16, ClusterReleaseLife,
     ClusterStatusLife
     DEF ClusterReconciler, ClusterControllerNext, ClusterStep

\* LifeInv is inductive.
LEMMA LifeInvInductive == OrphanInv /\ GuardInv' /\ LifeInv /\ [Next]_vars => LifeInv'
<1> SUFFICES ASSUME OrphanInv, GuardInv', LifeInv, [Next]_vars PROVE LifeInv'
  OBVIOUS
<1>1. TypeInv /\ GuardedExists /\ Marked
  BY DEF OrphanInv, GuardInv, LifeInv
<1>2. ASSUME UNCHANGED gke PROVE GKELasts /\ NoneStopped
  BY <1>2 DEF GKELasts, NoneStopped, Present
<1>3. ASSUME ClustersEndure, Marked', NoneReadied, GKELasts, NoneStopped,
             UNCHANGED clusterWorker \/ WorkerLife'
      PROVE  LifeInv'
  BY <1>3, ResourcesLast, WorkerLasts DEF LifeInv
<1>4. CASE User
  <2>1. UNCHANGED <<gke, clusterWorker>>
    BY <1>4 DEF User
  <2>2. QED
    BY <1>1, <1>2, <1>3, <1>4, <2>1, UserEndures
<1>5. CASE Cloud
  <2>1. UNCHANGED <<cluster, clusterWorker>>
    BY <1>5 DEF Cloud, platformVars, processVars
  <2>2. QED
    BY <1>1, <1>3, <1>5, <2>1, UnchangedEndures, CloudLasts
<1>6. CASE ConfigReconciler \/ OtherReconciler \/ UNCHANGED vars
  <2>1. UNCHANGED <<cluster, gke, clusterWorker>>
    BY <1>6, OtherReconcilerEffect
    DEF ReaderFrame, ConfigReconciler, ConfigControllerNext, ConfigStep, ConfigFrame, ConfigDequeue,
                ConfigGet, ConfigUnannotate, ConfigFinalize, ConfigAdvertise, ConfigUnadvertise,
                ConfigRelease, ConfigFinish, platformVars, processVars, vars
  <2>2. QED
    BY <1>1, <1>2, <1>3, <2>1, UnchangedEndures
<1>7. CASE Restart
  <2>1. UNCHANGED <<cluster, gke>> /\ clusterWorker' = IdleClusterWorker
    BY <1>7 DEF Restart, platformVars
  <2>2. WorkerLife'
    BY <2>1, WorkerQuiet DEF IdleClusterWorker
  <2>3. QED
    BY <1>1, <1>2, <1>3, <2>1, <2>2, UnchangedEndures
<1>8. QED
  BY <1>4, <1>5, <1>6, <1>7, ClusterReconcilerLife DEF Next

\* OrphanInv and LifeInv hold in every reachable state.
LEMMA LifeInvAlways == Spec => [](OrphanInv /\ LifeInv)
<1>1. Init => OrphanInv /\ LifeInv
  BY InitTyped, InitGuarded, InitLife DEF OrphanInv
<1>2. (OrphanInv /\ LifeInv) /\ [Next]_vars => (OrphanInv /\ LifeInv)'
  BY TypeInvInductive, HomeInvInductive, GuardInvInductive, LifeInvInductive DEF OrphanInv
<1>3. QED
  BY <1>1, <1>2, PTL DEF Spec

\* A Cluster that says Ready has its finalizer, its labels and its GKE cluster,
\* long after the pass that wrote the phase, unless its config is relocated.
THEOREM ReadyClustersBacked == Spec => []ReadyHasCluster
<1>1. OrphanInv /\ LifeInv => ReadyHasCluster
  BY DEF LifeInv
<1>2. QED
  BY <1>1, LifeInvAlways, PTL

\* Only handleDelete makes GKE delete a cluster.
LEMMA OnlyDeleteStops ==
    ASSUME OrphanInv, [Next]_vars, NEW c \in Clusters, NEW l \in Locations,
           gke[l][c] # "STOPPING", gke'[l][c] = "STOPPING"
    PROVE  clusterWorker.pc = "delete" /\ clusterWorker.key = c
<1>1. TypeInv /\ GKEType
  BY DEF OrphanInv, TypeInv, TypeOK
<1>2. gke' # gke
  OBVIOUS
<1>3. ~Cloud
  BY <1>1, CloudSpares
<1>4. ClusterCreate \/ ClusterDelete
  BY <1>2, <1>3, OtherReconcilerEffect
     DEF Next, ReaderFrame, User, Restart, vars, ConfigReconciler, ConfigFrame, ClusterReconciler,
         ClusterControllerNext, ClusterStep, DeliverProfileEvent, ClusterDequeue, ClusterGet,
         ClusterUnannotate, ClusterFinalize, ClusterRead, ClusterLabel, ClusterReadForDelete,
         ClusterRelease, ClusterStatus
<1>5. CASE ClusterCreate
  <2>1. SetStatus(clusterWorker.location, clusterWorker.key, "PROVISIONING")
    BY <1>2, <1>5 DEF ClusterCreate, SubmitCreate
  <2>2. QED
    BY <1>1, <2>1, SetStatusEffect
<1>6. CASE ClusterDelete
  <2>1. SetStatus(clusterWorker.location, clusterWorker.key, "STOPPING")
    BY <1>2, <1>6 DEF ClusterDelete, SubmitDelete
  <2>2. QED
    BY <1>1, <1>6, <2>1, SetStatusEffect DEF ClusterDelete
<1>7. QED
  BY <1>4, <1>5, <1>6

\* The deletion of a GKE cluster starts only for a Cluster that is being deleted
\* and that no other controller holds back, though its finalizers were read two
\* calls earlier: none can be added to it meanwhile.
THEOREM ForeignFinalizersHonoured == Spec => DeletionHonoursForeign
<1>1. OrphanInv /\ LifeInv /\ [Next]_vars =>
        \A c \in Clusters, l \in Locations :
            gke[l][c] # "STOPPING" /\ gke'[l][c] = "STOPPING" =>
                cluster[c].deleting /\ cluster[c].foreign = {}
  BY OnlyDeleteStops DEF LifeInv, WorkerLife, DeleterMarked
<1>2. OrphanInv /\ LifeInv /\ [Next]_vars =>
        [\A c \in Clusters, l \in Locations :
            gke[l][c] # "STOPPING" /\ gke'[l][c] = "STOPPING" =>
                cluster[c].deleting /\ cluster[c].foreign = {}]_vars
  BY <1>1
<1>3. QED
  BY <1>2, LifeInvAlways, PTL DEF Spec, DeletionHonoursForeign
=============================================================================
