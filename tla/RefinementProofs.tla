-------------------------- MODULE RefinementProofs --------------------------
(***************************************************************************)
(* Both controllers implement FinalizerProtocol: every step of the         *)
(* provider, its users and GKE is a step of the protocol or a stutter.     *)
(***************************************************************************)
EXTENDS OrphanProofs, AdvertisementProofs

-----------------------------------------------------------------------------
(***************************************************************************)
(* Clusters and their GKE clusters.                                        *)
(***************************************************************************)
LiveClusters == {c \in Clusters : cluster[c].exists}
GuardedClusters == {c \in Clusters : cluster[c].own}
ExternalClusters == {c \in Clusters : Settled(c) /\ \E l \in Locations : Present(l, c)}

ClusterProtocolStep ==
    [ClusterFinalizers!ProtocolNext]_<<LiveClusters, GuardedClusters, ExternalClusters>>

\* Storing a Cluster that keeps its finalizer, or gains one, is a protocol step.
LEMMA StoreClusterStep ==
    ASSUME OrphanInv, NEW c \in Clusters, NEW obj \in ClusterObject, StoreCluster(c, obj),
           obj.own # cluster[c].own => obj.own /\ cluster[c].exists,
           obj.exists # cluster[c].exists => obj.exists /\ ~obj.deleting /\ ~obj.own,
           UNCHANGED gke
    PROVE  ClusterProtocolStep
<1>1. cluster \in [Clusters -> ClusterObject] /\ GuardedExists
  BY DEF OrphanInv, TypeInv, TypeOK, PlatformType, GuardInv
<1>2. /\ \A d \in Clusters \ {c} : cluster'[d] = cluster[d]
      /\ cluster'[c] = IF obj.deleting /\ ~obj.own /\ obj.foreign = {} THEN NoCluster ELSE obj
  BY <1>1, StoreClusterEffect
<1>3. UNCHANGED ExternalClusters
  BY DEF ExternalClusters, Settled, Present
<1>4. ~NoCluster.own /\ ~NoCluster.exists
  BY DEF NoCluster
<1>5. CASE obj.own # cluster[c].own
  <2>1. /\ GuardedClusters' = GuardedClusters \cup {c} /\ UNCHANGED LiveClusters
        /\ c \in LiveClusters
    BY <1>1, <1>2, <1>4, <1>5 DEF GuardedClusters, LiveClusters, ClusterObject
  <2>2. QED
    BY <1>3, <2>1 DEF ClusterProtocolStep, ClusterFinalizers!ProtocolNext,
       ClusterFinalizers!Guard, LiveClusters, GuardedClusters, ExternalClusters
<1>6. CASE obj.own = cluster[c].own
  <2>1. UNCHANGED GuardedClusters
    BY <1>1, <1>2, <1>4, <1>6 DEF GuardedClusters, ClusterObject
  <2>2. \/ UNCHANGED LiveClusters
        \/ LiveClusters' = LiveClusters \cup {c} /\ c \notin LiveClusters
        \/ LiveClusters' = LiveClusters \ {c} /\ c \in LiveClusters \ GuardedClusters
    BY <1>1, <1>2, <1>4, <1>6 DEF GuardedClusters, LiveClusters, ClusterObject
  <2>3. QED
    BY <1>3, <2>1, <2>2 DEF ClusterProtocolStep, ClusterFinalizers!ProtocolNext,
       ClusterFinalizers!Appear, ClusterFinalizers!Disappear,
       LiveClusters, GuardedClusters, ExternalClusters
<1>7. QED
  BY <1>5, <1>6

\* A step that leaves Clusters and GKE alone is a stutter of the protocol.
LEMMA ClusterStutter == ASSUME UNCHANGED <<cluster, gke>> PROVE ClusterProtocolStep
  BY DEF ClusterProtocolStep, LiveClusters, GuardedClusters, ExternalClusters, Settled, Present

\* So is a status that neither brings a GKE cluster into being nor ends it;
\* otherwise the protocol acquires it, for a guarded Cluster, or disposes of it.
LEMMA SetStatusStep ==
    ASSUME OrphanInv, NEW l, NEW c \in Clusters, NEW status, SetStatus(l, c, status),
           Settled(c) /\ status # "ABSENT" /\ l \in Locations => Present(l, c) \/ cluster[c].own,
           UNCHANGED cluster
    PROVE  ClusterProtocolStep
<1>1. \A k \in Locations, d \in Clusters :
          gke'[k][d] = IF k = l /\ d = c THEN status ELSE gke[k][d]
  BY SetStatusEffect DEF OrphanInv, TypeInv, TypeOK
<1>2. UNCHANGED <<LiveClusters, GuardedClusters>>
  BY DEF LiveClusters, GuardedClusters
<1>3. \/ UNCHANGED ExternalClusters
      \/ ExternalClusters' = ExternalClusters \ {c}
      \/ ExternalClusters' = ExternalClusters \cup {c} /\ c \in GuardedClusters
  <2>1. \A d \in Clusters \ {c} : (d \in ExternalClusters)' <=> d \in ExternalClusters
    BY <1>1 DEF ExternalClusters, Present, Settled
  <2>2. (c \in ExternalClusters)' => c \in ExternalClusters \/ c \in GuardedClusters
    BY <1>1 DEF ExternalClusters, GuardedClusters, Present, Settled
  <2>3. ExternalClusters \subseteq Clusters /\ ExternalClusters' \subseteq Clusters
    BY DEF ExternalClusters
  <2>4. QED
    BY <2>1, <2>2, <2>3
<1>4. QED
  BY <1>2, <1>3 DEF ClusterProtocolStep, ClusterFinalizers!ProtocolNext,
     ClusterFinalizers!Acquire, ClusterFinalizers!Dispose,
     LiveClusters, GuardedClusters, ExternalClusters

\* What users do is a protocol step.
LEMMA UserClusterStep == ASSUME OrphanInv, User PROVE ClusterProtocolStep
<1>1. cluster \in [Clusters -> ClusterObject] /\ GuardedExists /\ UNCHANGED gke
  BY DEF OrphanInv, TypeInv, TypeOK, PlatformType, GuardInv, User
<1>2. ASSUME NEW c \in Clusters, NEW obj \in ClusterObject, obj.own = cluster[c].own,
             obj.exists = cluster[c].exists, StoreCluster(c, obj)
      PROVE  ClusterProtocolStep
  BY <1>1, <1>2, StoreClusterStep
<1>3. CASE UNCHANGED cluster
  BY <1>1, <1>3, ClusterStutter
<1>4. ASSUME NEW c \in Clusters, CreateCluster(c) PROVE ClusterProtocolStep
  <2> DEFINE obj == [NoCluster EXCEPT !.exists = TRUE]
  <2>1. obj \in ClusterObject /\ ~obj.own /\ obj.exists /\ ~obj.deleting
    BY DEF NoCluster, ClusterObject, Operations
  <2>2. ~cluster[c].own /\ cluster[c].own \in BOOLEAN /\ StoreCluster(c, obj)
    BY <1>1, <1>4 DEF CreateCluster, GuardedExists, ClusterObject
  <2>3. obj.own = cluster[c].own
    BY <2>2 DEF NoCluster
  <2> HIDE DEF obj
  <2>4. QED
    BY <1>1, <2>1, <2>2, <2>3, StoreClusterStep
<1>5. ASSUME NEW c \in Clusters, DeleteCluster(c) PROVE ClusterProtocolStep
  <2> DEFINE obj == [cluster[c] EXCEPT !.deleting = TRUE]
  <2>1. obj \in ClusterObject /\ obj.own = cluster[c].own /\ obj.exists = cluster[c].exists
    BY <1>1 DEF ClusterObject
  <2>2. QED
    BY <1>2, <1>5, <2>1 DEF DeleteCluster
<1>6. ASSUME NEW c \in Clusters, NEW op \in ClusterOps \cup {"none"}, AnnotateCluster(c, op)
      PROVE  ClusterProtocolStep
  <2> DEFINE obj == [cluster[c] EXCEPT !.op = op]
  <2>1. obj \in ClusterObject /\ obj.own = cluster[c].own /\ obj.exists = cluster[c].exists
    BY <1>1, OperationsAssumption DEF ClusterObject, Operations
  <2>2. QED
    BY <1>2, <1>6, <2>1 DEF AnnotateCluster
<1>7. ASSUME NEW c \in Clusters, NEW f \in Foreign, AddForeign(c, f) PROVE ClusterProtocolStep
  <2> DEFINE obj == [cluster[c] EXCEPT !.foreign = @ \cup {f}]
  <2>1. obj \in ClusterObject /\ obj.own = cluster[c].own /\ obj.exists = cluster[c].exists
    BY <1>1 DEF ClusterObject
  <2>2. QED
    BY <1>2, <1>7, <2>1 DEF AddForeign
<1>8. ASSUME NEW c \in Clusters, NEW f \in Foreign, RemoveForeign(c, f) PROVE ClusterProtocolStep
  <2> DEFINE obj == [cluster[c] EXCEPT !.foreign = @ \ {f}]
  <2>1. obj \in ClusterObject /\ obj.own = cluster[c].own /\ obj.exists = cluster[c].exists
    BY <1>1 DEF ClusterObject
  <2>2. QED
    BY <1>2, <1>8, <2>1 DEF RemoveForeign
<1>9. QED
  BY <1>3, <1>4, <1>5, <1>6, <1>7, <1>8
     DEF User, UserNext, CreateConfig, Relocate, AnnotateConfig, DeleteConfig

\* What GKE does is a protocol step.
LEMMA CloudClusterStep == ASSUME OrphanInv, Cloud PROVE ClusterProtocolStep
<1>1. PICK l \in Locations, c \in Clusters :
        \/ GKEProgress(l, c)
        \/ Repaired(l, c)
        \/ Maintenance(l, c)
        \/ Failure(l, c)
  BY DEF Cloud, GKENext
<1>2. Present(l, c) /\ \E status : SetStatus(l, c, status)
  BY <1>1 DEF GKEProgress, Provisioned, Stopped, Repaired, Maintenance, Failure, Become, Present
<1>3. UNCHANGED cluster
  BY DEF Cloud, platformVars
<1>4. QED
  BY <1>2, <1>3, SetStatusStep

\* Every step of the Cluster controller is a protocol step.
LEMMA ClusterReconcilerStep == ASSUME OrphanInv, ClusterReconciler PROVE ClusterProtocolStep
<1> DEFINE c == clusterWorker.key
           obj == cluster[c]
<1>1. /\ ClusterControllerType /\ cluster \in [Clusters -> ClusterObject]
      /\ HomeCluster /\ GuardedExists /\ ExternalGuarded /\ WorkerGuarded
  BY DEF OrphanInv, TypeInv, TypeOK, PlatformType, HomeInv, GuardInv
<1>2. clusterWorker.pc # "idle" => c \in Clusters /\ obj \in ClusterObject
  BY <1>1 DEF OrphanInv, TypeInv, KeysOK
<1>3. ASSUME clusterWorker.pc # "idle", NEW new \in ClusterObject, StoreCluster(c, new),
             new.own = obj.own, new.exists = obj.exists, UNCHANGED gke
      PROVE  ClusterProtocolStep
  BY <1>2, <1>3, StoreClusterStep
<1>4. CASE \/ \E n \in Configs : DeliverProfileEvent(n)
           \/ \E d \in Clusters : ClusterDequeue(d)
           \/ ClusterGet \/ ClusterRead \/ ClusterReadForDelete
  BY <1>4, ClusterStutter
     DEF DeliverProfileEvent, ClusterDequeue, ClusterGet, ClusterRead, ClusterReadForDelete
<1>5. CASE ClusterUnannotate
  <2> DEFINE new == [obj EXCEPT !.op = "none"]
  <2>1. /\ clusterWorker.pc # "idle" /\ UNCHANGED gke
        /\ UNCHANGED cluster \/ StoreCluster(c, new)
    BY <1>5 DEF ClusterUnannotate
  <2>2. new \in ClusterObject /\ new.own = obj.own /\ new.exists = obj.exists
    BY <1>2, <2>1 DEF ClusterObject, Operations
  <2> HIDE DEF new
  <2>3. QED
    BY <1>3, <2>1, <2>2, ClusterStutter
<1>6. CASE ClusterFinalize
  <2> DEFINE new == [obj EXCEPT !.own = TRUE, !.foreign = clusterWorker.foreign]
  <2>1. /\ clusterWorker.pc # "idle" /\ UNCHANGED gke
        /\ UNCHANGED cluster \/ (StoreCluster(c, new) /\ obj.exists)
    BY <1>6 DEF ClusterFinalize, MayPatchFinalizers
  <2>2. new \in ClusterObject /\ new.own /\ new.exists = obj.exists
    BY <1>1, <1>2, <2>1 DEF ClusterObject, ClusterControllerType
  <2> HIDE DEF new
  <2>3. QED
    BY <1>2, <2>1, <2>2, StoreClusterStep, ClusterStutter
<1>7. CASE ClusterLabel
  <2> DEFINE new == [obj EXCEPT !.labelled = TRUE]
  <2>1. /\ clusterWorker.pc # "idle" /\ UNCHANGED gke
        /\ UNCHANGED cluster \/ StoreCluster(c, new)
    BY <1>7 DEF ClusterLabel, EnsureLabels
  <2>2. new \in ClusterObject /\ new.own = obj.own /\ new.exists = obj.exists
    BY <1>2, <2>1 DEF ClusterObject
  <2> HIDE DEF new
  <2>3. QED
    BY <1>3, <2>1, <2>2, ClusterStutter
<1>8. CASE ClusterStatus
  <2> DEFINE new == [obj EXCEPT !.phase = ClusterPhase, !.endpoint = @ \/ clusterWorker.publish]
  <2>1. /\ clusterWorker.pc # "idle" /\ UNCHANGED gke
        /\ UNCHANGED cluster \/ StoreCluster(c, new)
    BY <1>8 DEF ClusterStatus
  <2>2. ClusterPhase \in {"Progressing", "Ready", "Terminating"}
    BY DEF ClusterPhase
  <2>3. new \in ClusterObject /\ new.own = obj.own /\ new.exists = obj.exists
    BY <1>1, <1>2, <2>1, <2>2 DEF ClusterObject, ClusterControllerType
  <2> HIDE DEF new
  <2>4. QED
    BY <1>3, <2>1, <2>3, ClusterStutter
<1>9. CASE ClusterCreate
  <2>1. /\ clusterWorker.pc = "create" /\ UNCHANGED cluster
        /\ UNCHANGED gke \/ SetStatus(clusterWorker.location, c, "PROVISIONING")
    BY <1>9 DEF ClusterCreate, SubmitCreate
  <2>2. c \in Clusters /\ obj.own
    BY <1>1, <1>2, <2>1 DEF WorkerGuarded
  <2>3. QED
    BY <2>1, <2>2, SetStatusStep, ClusterStutter
<1>10. CASE ClusterDelete
  <2>1. /\ clusterWorker.pc # "idle" /\ UNCHANGED cluster
        /\ \/ UNCHANGED gke
           \/ /\ Present(clusterWorker.location, c)
              /\ SetStatus(clusterWorker.location, c, "STOPPING")
    BY <1>10 DEF ClusterDelete, SubmitDelete
  <2>2. QED
    BY <1>2, <2>1, SetStatusStep, ClusterStutter
<1>11. CASE ClusterRelease
  <2> DEFINE new == [obj EXCEPT !.own = FALSE, !.foreign = clusterWorker.foreign]
  <2>1. /\ clusterWorker.pc = "release" /\ UNCHANGED gke
        /\ UNCHANGED cluster \/ StoreCluster(c, new)
    BY <1>11 DEF ClusterRelease
  <2>2. c \in Clusters /\ new \in ClusterObject /\ ~new.own /\ new.exists = obj.exists
    BY <1>1, <1>2, <2>1 DEF ClusterObject, ClusterControllerType
  <2>3. c \notin ExternalClusters
    <3>1. ASSUME Settled(c) PROVE clusterWorker.location = Home[ProfileOf[c]]
      BY <1>1, <2>1, <2>2, <3>1 DEF WorkerGuarded, LocatedPCs, HomeCluster, AtHome
    <3>2. QED
      BY <1>1, <2>1, <2>2, <3>1 DEF ExternalGuarded, WorkerGuarded, ExternalClusters
  <2> HIDE DEF new
  <2>4. CASE StoreCluster(c, new) /\ obj.own
    <3>1. /\ \A d \in Clusters \ {c} : cluster'[d] = cluster[d]
          /\ cluster'[c] = IF new.deleting /\ ~new.own /\ new.foreign = {} THEN NoCluster ELSE new
      BY <1>1, <2>2, <2>4, StoreClusterEffect
    <3>2. ~NoCluster.own /\ ~NoCluster.exists
      BY DEF NoCluster
    <3>3. /\ GuardedClusters' = GuardedClusters \ {c}
          /\ LiveClusters' \in {LiveClusters, LiveClusters \ {c}}
          /\ c \in GuardedClusters \ ExternalClusters
      BY <2>2, <2>3, <2>4, <3>1, <3>2 DEF GuardedClusters, LiveClusters
    <3>4. UNCHANGED ExternalClusters
      BY <2>1 DEF ExternalClusters, Settled, Present
    <3>5. QED
      BY <2>2, <3>3, <3>4 DEF ClusterProtocolStep, ClusterFinalizers!ProtocolNext,
         ClusterFinalizers!Release, LiveClusters, GuardedClusters, ExternalClusters
  <2>5. CASE StoreCluster(c, new) /\ ~obj.own
    <3>1. new.own = obj.own
      BY <1>2, <2>1, <2>2, <2>5 DEF ClusterObject
    <3>2. QED
      BY <1>3, <2>1, <2>2, <2>5, <3>1
  <2>6. QED
    BY <2>1, <2>4, <2>5, ClusterStutter
<1>12. QED
  BY <1>4, <1>5, <1>6, <1>7, <1>8, <1>9, <1>10, <1>11
     DEF ClusterReconciler, ClusterControllerNext, ClusterStep

\* The provider implements the protocol for Clusters: in no run does a step
\* create a GKE cluster for an unguarded Cluster, or let go of a Cluster whose
\* GKE cluster is still there.
THEOREM ClusterControllerRefines == Spec => ClusterFinalizerProtocol
<1>1. Init => ClusterFinalizers!ProtocolInit
  BY DEF Init, PlatformInit, NoCluster, GKEInit, Present, ClusterFinalizers!ProtocolInit
<1>2. OrphanInv /\ [Next]_vars => ClusterProtocolStep
  <2> SUFFICES ASSUME OrphanInv, [Next]_vars PROVE ClusterProtocolStep
    OBVIOUS
  <2>1. CASE ConfigReconciler \/ OtherReconciler \/ Restart \/ UNCHANGED vars
    BY <2>1, ClusterStutter, OtherReconcilerEffect
       DEF ReaderFrame, Restart, ConfigReconciler, ConfigControllerNext, ConfigStep, ConfigFrame,
           ConfigDequeue, ConfigGet, ConfigUnannotate, ConfigFinalize, ConfigAdvertise,
           ConfigUnadvertise, ConfigRelease, ConfigFinish, platformVars, vars
  <2>2. QED
    BY <2>1, UserClusterStep, CloudClusterStep, ClusterReconcilerStep DEF Next
<1>3. ClusterProtocolStep <=> [ClusterFinalizers!ProtocolNext]_(ClusterFinalizers!protocolVars)
  BY DEF ClusterProtocolStep, ClusterFinalizers!protocolVars,
         LiveClusters, GuardedClusters, ExternalClusters
<1>4. QED
  BY <1>1, <1>2, <1>3, OrphanInvAlways, PTL
     DEF Spec, ClusterFinalizerProtocol, ClusterFinalizers!ProtocolSpec

-----------------------------------------------------------------------------
(***************************************************************************)
(* ProviderConfigs and their ClusterProfiles.                              *)
(***************************************************************************)
LiveConfigs == {n \in Configs : config[n].exists}
GuardedConfigs == {n \in Configs : config[n].own}
Advertised == {n \in Configs : clusterProfile[n] # "absent"}

ConfigProtocolStep ==
    [ConfigFinalizers!ProtocolNext]_<<LiveConfigs, GuardedConfigs, Advertised>>

\* Storing a ProviderConfig with the finalizer it has is a protocol step.
LEMMA StoreConfigStep ==
    ASSUME AdvertInv, NEW n \in Configs, NEW obj \in ConfigObject, StoreConfig(n, obj),
           obj.own = config[n].own,
           obj.exists # config[n].exists => obj.exists /\ ~obj.deleting,
           UNCHANGED clusterProfile
    PROVE  ConfigProtocolStep
<1>1. config \in [Configs -> ConfigObject] /\ OwnConfigExists
  BY DEF AdvertInv, TypeInv, TypeOK, PlatformType
<1>2. /\ \A m \in Configs \ {n} : config'[m] = config[m]
      /\ config'[n] = IF obj.deleting /\ ~obj.own THEN NoConfig(n) ELSE obj
  BY <1>1, StoreConfigEffect
<1>3. ~NoConfig(n).own /\ ~NoConfig(n).exists
  BY DEF NoConfig
<1>4. UNCHANGED <<GuardedConfigs, Advertised>>
  BY <1>1, <1>2, <1>3 DEF GuardedConfigs, Advertised, ConfigObject
<1>5. \/ UNCHANGED LiveConfigs
      \/ LiveConfigs' = LiveConfigs \cup {n} /\ n \notin LiveConfigs
      \/ LiveConfigs' = LiveConfigs \ {n} /\ n \in LiveConfigs \ GuardedConfigs
  BY <1>1, <1>2, <1>3 DEF GuardedConfigs, LiveConfigs, ConfigObject
<1>6. QED
  BY <1>4, <1>5 DEF ConfigProtocolStep, ConfigFinalizers!ProtocolNext, ConfigFinalizers!Appear,
     ConfigFinalizers!Disappear, LiveConfigs, GuardedConfigs, Advertised

\* A step that leaves ProviderConfigs and ClusterProfiles alone is a stutter.
LEMMA ConfigStutter == ASSUME UNCHANGED <<config, clusterProfile>> PROVE ConfigProtocolStep
  BY DEF ConfigProtocolStep, LiveConfigs, GuardedConfigs, Advertised

\* What users do is a protocol step.
LEMMA UserConfigStep == ASSUME AdvertInv, User PROVE ConfigProtocolStep
<1>1. config \in [Configs -> ConfigObject] /\ OwnConfigExists /\ UNCHANGED clusterProfile
  BY DEF AdvertInv, TypeInv, TypeOK, PlatformType, User, UserNext
<1>2. ASSUME NEW n \in Configs, NEW obj \in ConfigObject, obj.own = config[n].own,
             obj.exists = config[n].exists, StoreConfig(n, obj)
      PROVE  ConfigProtocolStep
  BY <1>1, <1>2, StoreConfigStep
<1>3. CASE UNCHANGED config
  BY <1>1, <1>3, ConfigStutter
<1>4. ASSUME NEW n \in Configs, NEW l \in Locations, CreateConfig(n, l) PROVE ConfigProtocolStep
  <2> DEFINE obj == [NoConfig(n) EXCEPT !.exists = TRUE, !.location = l]
  <2>1. obj \in ConfigObject /\ obj.own = FALSE /\ obj.exists /\ ~obj.deleting
    BY DEF NoConfig, ConfigObject, Operations
  <2>2. ~config[n].own /\ config[n].own \in BOOLEAN /\ StoreConfig(n, obj)
    BY <1>1, <1>4 DEF CreateConfig, OwnConfigExists, ConfigObject
  <2> HIDE DEF obj
  <2>3. obj.own = config[n].own
    BY <2>1, <2>2
  <2>4. QED
    BY <1>1, <2>1, <2>2, <2>3, StoreConfigStep
<1>5. ASSUME NEW n \in Configs, NEW l \in Locations, Relocate(n, l) PROVE ConfigProtocolStep
  <2> DEFINE obj == [config[n] EXCEPT !.location = l]
  <2>1. obj \in ConfigObject /\ obj.own = config[n].own /\ obj.exists = config[n].exists
    BY <1>1 DEF ConfigObject
  <2>2. QED
    BY <1>2, <1>5, <2>1 DEF Relocate
<1>6. ASSUME NEW n \in Configs, NEW op \in ConfigOps \cup {"none"}, AnnotateConfig(n, op)
      PROVE  ConfigProtocolStep
  <2> DEFINE obj == [config[n] EXCEPT !.op = op]
  <2>1. obj \in ConfigObject /\ obj.own = config[n].own /\ obj.exists = config[n].exists
    BY <1>1, OperationsAssumption DEF ConfigObject, Operations
  <2>2. QED
    BY <1>2, <1>6, <2>1 DEF AnnotateConfig
<1>7. ASSUME NEW n \in Configs, DeleteConfig(n) PROVE ConfigProtocolStep
  <2> DEFINE obj == [config[n] EXCEPT !.deleting = TRUE]
  <2>1. obj \in ConfigObject /\ obj.own = config[n].own /\ obj.exists = config[n].exists
    BY <1>1 DEF ConfigObject
  <2>2. QED
    BY <1>2, <1>7, <2>1 DEF DeleteConfig
<1>8. QED
  BY <1>3, <1>4, <1>5, <1>6, <1>7
     DEF User, UserNext, CreateCluster, DeleteCluster, AnnotateCluster, AddForeign, RemoveForeign

\* Every step of the ProviderConfig controller is a protocol step.
LEMMA ConfigReconcilerStep == ASSUME AdvertInv, ConfigReconciler PROVE ConfigProtocolStep
<1> DEFINE n == configWorker.key
           obj == config[n]
<1>1. /\ ConfigControllerType /\ config \in [Configs -> ConfigObject]
      /\ clusterProfile \in [Configs -> ProfileStates]
      /\ OwnConfigExists /\ AdvertisedGuarded /\ AdvertiserGuarded
  BY DEF AdvertInv, TypeInv, TypeOK, PlatformType
<1>2. configWorker.pc # "idle" => n \in Configs /\ obj \in ConfigObject
  BY <1>1 DEF AdvertInv, TypeInv, KeysOK
<1>3. CASE (\E m \in Configs : ConfigDequeue(m)) \/ ConfigGet \/ ConfigFinish
  BY <1>3, ConfigStutter DEF ConfigDequeue, ConfigGet, ConfigFinish, platformVars
<1>4. CASE ConfigUnannotate
  <2> DEFINE new == [obj EXCEPT !.op = "none"]
  <2>1. /\ configWorker.pc # "idle" /\ UNCHANGED clusterProfile
        /\ UNCHANGED config \/ StoreConfig(n, new)
    BY <1>4 DEF ConfigUnannotate
  <2>2. new \in ConfigObject /\ new.own = obj.own /\ new.exists = obj.exists
    BY <1>2, <2>1 DEF ConfigObject, Operations
  <2> HIDE DEF new
  <2>3. QED
    BY <1>2, <2>1, <2>2, StoreConfigStep, ConfigStutter
<1>5. CASE ConfigFinalize
  <2> DEFINE new == [obj EXCEPT !.own = TRUE]
  <2>1. /\ configWorker.pc # "idle" /\ UNCHANGED clusterProfile
        /\ UNCHANGED config \/ (StoreConfig(n, new) /\ obj.exists)
    BY <1>5 DEF ConfigFinalize
  <2>2. n \in Configs /\ new \in ConfigObject /\ new.own /\ new.exists = obj.exists
    BY <1>2, <2>1 DEF ConfigObject
  <2> HIDE DEF new
  <2>3. CASE StoreConfig(n, new) /\ obj.exists
    <3>1. (\A m \in Configs \ {n} : config'[m] = config[m]) /\ config'[n] = new
      BY <1>1, <2>2, <2>3, StoreConfigEffect
    <3>2. /\ GuardedConfigs' = GuardedConfigs \cup {n} /\ n \in LiveConfigs
          /\ UNCHANGED <<LiveConfigs, Advertised>>
      BY <2>1, <2>2, <2>3, <3>1 DEF GuardedConfigs, LiveConfigs, Advertised
    <3>3. QED
      BY <2>2, <3>2 DEF ConfigProtocolStep, ConfigFinalizers!ProtocolNext,
         ConfigFinalizers!Guard, LiveConfigs, GuardedConfigs, Advertised
  <2>4. QED
    BY <2>1, <2>3, ConfigStutter
<1>6. CASE ConfigAdvertise \/ ConfigUnadvertise
  <2>1. /\ UNCHANGED config /\ n \in Configs
        /\ \/ clusterProfile' = clusterProfile
           \/ clusterProfile' = [clusterProfile EXCEPT ![n] = "absent"]
           \/ (\E state : clusterProfile' = [clusterProfile EXCEPT ![n] = state]) /\ obj.own
    BY <1>1, <1>2, <1>6 DEF ConfigAdvertise, ConfigUnadvertise, AdvertiserGuarded
  <2>2. UNCHANGED <<LiveConfigs, GuardedConfigs>>
    BY <2>1 DEF LiveConfigs, GuardedConfigs
  <2>3. \/ UNCHANGED Advertised
        \/ Advertised' = Advertised \ {n}
        \/ Advertised' = Advertised \cup {n} /\ n \in GuardedConfigs
    BY <1>1, <2>1 DEF Advertised, GuardedConfigs
  <2>4. CASE UNCHANGED Advertised
    BY <2>2, <2>4 DEF ConfigProtocolStep
  <2>5. CASE Advertised' = Advertised \ {n}
    <3>1. {n} \in SUBSET Configs
      BY <2>1
    <3>2. \E gone \in SUBSET Configs : Advertised' = Advertised \ gone
      BY <2>5, <3>1
    <3>3. QED
      BY <2>2, <3>2 DEF ConfigProtocolStep, ConfigFinalizers!ProtocolNext,
         ConfigFinalizers!Dispose, LiveConfigs, GuardedConfigs, Advertised
  <2>6. CASE Advertised' = Advertised \cup {n} /\ n \in GuardedConfigs
    BY <2>1, <2>2, <2>6 DEF ConfigProtocolStep, ConfigFinalizers!ProtocolNext,
       ConfigFinalizers!Acquire, LiveConfigs, GuardedConfigs, Advertised
  <2>7. QED
    BY <2>3, <2>4, <2>5, <2>6
<1>7. CASE ConfigRelease
  <2> DEFINE new == [obj EXCEPT !.own = FALSE]
  <2>1. /\ n \in Configs /\ UNCHANGED clusterProfile /\ clusterProfile[n] = "absent"
        /\ UNCHANGED config \/ StoreConfig(n, new)
    BY <1>1, <1>2, <1>7 DEF ConfigRelease, AdvertiserGuarded
  <2>2. new \in ConfigObject /\ new.own = FALSE /\ new.exists = obj.exists
    BY <1>2, <1>7 DEF ConfigRelease, ConfigObject
  <2> HIDE DEF new
  <2>3. CASE StoreConfig(n, new) /\ obj.own
    <3>1. /\ \A m \in Configs \ {n} : config'[m] = config[m]
          /\ config'[n] = IF new.deleting /\ ~new.own THEN NoConfig(n) ELSE new
      BY <1>1, <2>1, <2>2, <2>3, StoreConfigEffect
    <3>2. ~NoConfig(n).own /\ ~NoConfig(n).exists
      BY DEF NoConfig
    <3>3. /\ GuardedConfigs' = GuardedConfigs \ {n} /\ n \in GuardedConfigs \ Advertised
          /\ LiveConfigs' \in {LiveConfigs, LiveConfigs \ {n}} /\ UNCHANGED Advertised
      BY <2>1, <2>2, <2>3, <3>1, <3>2 DEF GuardedConfigs, LiveConfigs, Advertised
    <3>4. QED
      BY <2>1, <3>3 DEF ConfigProtocolStep, ConfigFinalizers!ProtocolNext,
         ConfigFinalizers!Release, LiveConfigs, GuardedConfigs, Advertised
  <2>4. CASE StoreConfig(n, new) /\ ~obj.own
    <3>1. new.own = obj.own
      BY <1>2, <1>7, <2>2, <2>4 DEF ConfigRelease, ConfigObject
    <3>2. QED
      BY <2>1, <2>2, <2>4, <3>1, StoreConfigStep
  <2>5. QED
    BY <2>1, <2>3, <2>4, ConfigStutter
<1>8. QED
  BY <1>3, <1>4, <1>5, <1>6, <1>7 DEF ConfigReconciler, ConfigControllerNext, ConfigStep

\* The provider implements the protocol for ProviderConfigs: in no run does a
\* step advertise an unguarded config, or let go of one that is advertised.
THEOREM ConfigControllerRefines == Spec => ConfigFinalizerProtocol
<1>1. Init => ConfigFinalizers!ProtocolInit
  <2> SUFFICES ASSUME Init PROVE ConfigFinalizers!ProtocolInit
    OBVIOUS
  <2>1. ASSUME NEW n \in Configs
        PROVE  ~config[n].exists /\ ~config[n].own /\ clusterProfile[n] = "absent"
    <3>1. config[n] = NoConfig(n) /\ clusterProfile[n] = "absent"
      BY DEF Init, PlatformInit
    <3>2. ~NoConfig(n).exists /\ ~NoConfig(n).own
      BY DEF NoConfig
    <3>3. QED
      BY <3>1, <3>2
  <2>2. QED
    BY <2>1 DEF ConfigFinalizers!ProtocolInit
<1>2. AdvertInv /\ [Next]_vars => ConfigProtocolStep
  <2> SUFFICES ASSUME AdvertInv, [Next]_vars PROVE ConfigProtocolStep
    OBVIOUS
  <2>1. CASE Cloud \/ ClusterReconciler \/ OtherReconciler \/ Restart \/ UNCHANGED vars
    BY <2>1, ConfigStutter, OtherReconcilerEffect
       DEF ReaderFrame, Cloud, Restart, ClusterReconciler, ClusterControllerNext, ClusterStep,
           DeliverProfileEvent, ClusterDequeue, ClusterGet, ClusterUnannotate, ClusterFinalize,
           ClusterRead, ClusterCreate, ClusterLabel, EnsureLabels,
           ClusterReadForDelete, ClusterDelete,
           ClusterRelease, ClusterStatus, configControllerVars, platformVars, vars
  <2>2. QED
    BY <2>1, UserConfigStep, ConfigReconcilerStep DEF Next
<1>3. ConfigProtocolStep <=> [ConfigFinalizers!ProtocolNext]_(ConfigFinalizers!protocolVars)
  BY DEF ConfigProtocolStep, ConfigFinalizers!protocolVars,
         LiveConfigs, GuardedConfigs, Advertised
<1>4. QED
  BY <1>1, <1>2, <1>3, AdvertInvAlways, PTL
     DEF Spec, ConfigFinalizerProtocol, ConfigFinalizers!ProtocolSpec
=============================================================================
