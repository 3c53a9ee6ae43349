----------------------------- MODULE TypeProofs -----------------------------
(***************************************************************************)
(* Type correctness of ClusterProvider, for every value of its constants:  *)
(* any number of configs, Clusters, locations, failures and restarts.      *)
(***************************************************************************)
EXTENDS ClusterProvider, TLAPS

\* A worker that is not idle has a request.
KeysOK ==
    /\ configWorker.pc # "idle" => configWorker.key \in Configs
    /\ clusterWorker.pc # "idle" => clusterWorker.key \in Clusters

TypeInv == TypeOK /\ KeysOK

\* Storing a well-formed Cluster (the API server) changes that Cluster only, to
\* itself or to no Cluster.
LEMMA StoreClusterEffect ==
    ASSUME cluster \in [Clusters -> ClusterObject],
           NEW c \in Clusters, NEW obj \in ClusterObject, StoreCluster(c, obj)
    PROVE  /\ cluster' \in [Clusters -> ClusterObject]
           /\ cluster'[c] = IF obj.deleting /\ ~obj.own /\ obj.foreign = {}
                            THEN NoCluster ELSE obj
           /\ \A d \in Clusters \ {c} : cluster'[d] = cluster[d]
<1>1. NoCluster \in ClusterObject
  BY DEF NoCluster, ClusterObject, Operations
<1>2. QED
  BY <1>1 DEF StoreCluster

\* The same for a ProviderConfig.
LEMMA StoreConfigEffect ==
    ASSUME config \in [Configs -> ConfigObject],
           NEW n \in Configs, NEW obj \in ConfigObject, StoreConfig(n, obj)
    PROVE  /\ config' \in [Configs -> ConfigObject]
           /\ config'[n] = IF obj.deleting /\ ~obj.own THEN NoConfig(n) ELSE obj
           /\ \A m \in Configs \ {n} : config'[m] = config[m]
<1>1. NoConfig(n) \in ConfigObject
  BY TopologyAssumption DEF NoConfig, ConfigObject, Operations
<1>2. QED
  BY <1>1 DEF StoreConfig

\* A GKE cluster always has one of the statuses, wherever it is set.
LEMMA SetStatusTyped ==
    ASSUME GKEType, NEW l, NEW c, NEW status \in Statuses, SetStatus(l, c, status)
    PROVE  GKEType'
<1>1. ASSUME NEW k \in Locations PROVE gke'[k] \in [Clusters -> Statuses]
  <2>1. gke[k] \in [Clusters -> Statuses]
    BY DEF GKEType
  <2>2. CASE k = l
    <3>1. gke'[k] = [gke[k] EXCEPT ![c] = status]
      BY <2>2 DEF SetStatus, GKEType
    <3>2. QED
      BY <2>1, <3>1
  <2>3. CASE k # l
    <3>1. gke'[k] = gke[k]
      BY <2>3 DEF SetStatus, GKEType
    <3>2. QED
      BY <2>1, <3>1
  <2>4. QED
    BY <2>2, <2>3
<1>2. gke' = [k \in Locations |-> gke'[k]]
  BY DEF SetStatus, GKEType
<1>3. QED
  BY <1>1, <1>2 DEF GKEType

\* Counting a failure keeps the counter a number.
LEMMA FaultsTyped ==
    ASSUME FaultsType, \/ UNCHANGED faults
                       \/ \E mode \in AllFaultModes : Fault(mode)
                       \/ \E outcome \in WriteOutcomes : Write(outcome)
                       \/ \E outcome \in ReadOutcomes : Read(outcome)
    PROVE  FaultsType'
  BY DEF FaultsType, Fault, Write, Read

\* Events are about resources that can exist.
LEMMA EventsTyped == ConfigEvents \subseteq Configs /\ ClusterEvents \subseteq Clusters
  BY DEF ConfigEvents, ClusterEvents

\* The initial state has the types.
LEMMA InitTyped == Init => TypeInv
<1>1. ASSUME Init PROVE TypeOK
  <2>1. \A n \in Configs : NoConfig(n) \in ConfigObject
    BY TopologyAssumption DEF NoConfig, ConfigObject, Operations
  <2>2. NoCluster \in ClusterObject
    BY DEF NoCluster, ClusterObject, Operations
  <2>3. PlatformType
    BY <1>1, <2>1, <2>2 DEF Init, PlatformInit, PlatformType, ProfileStates
  <2>4. GKEType /\ FaultsType
    BY <1>1 DEF Init, GKEInit, GKEType, Statuses, FaultsInit, FaultsType
  <2>5. RuntimeType
    BY <1>1 DEF Init, RuntimeInit, RuntimeType, NewRwlock, NewProfiles
  <2>6. ConfigControllerType /\ ClusterControllerType
    BY <1>1 DEF Init, ConfigControllerInit, ConfigControllerType, IdleConfigWorker, ConfigPCs,
                ClusterControllerInit, ClusterControllerType, IdleClusterWorker, ClusterPCs
  <2>7. QED
    BY <1>1, <2>3, <2>4, <2>5, <2>6 DEF TypeOK, Init
<1>2. Init => KeysOK
  BY DEF Init, ConfigControllerInit, ClusterControllerInit, IdleConfigWorker,
         IdleClusterWorker, KeysOK
<1>3. QED
  BY <1>1, <1>2 DEF TypeInv

\* What users do keeps the types.
LEMMA UserTyped == TypeInv /\ User => TypeInv'
<1> SUFFICES ASSUME TypeInv, User PROVE TypeInv'
  OBVIOUS
<1> USE DEF TypeInv, TypeOK, PlatformType
<1>1. UserNext
  BY DEF User
<1>2. config' \in [Configs -> ConfigObject] /\ cluster' \in [Clusters -> ClusterObject]
  <2>1. ASSUME NEW n \in Configs, NEW l \in Locations, CreateConfig(n, l) PROVE <1>2!1 /\ <1>2!2
    <3>1. [NoConfig(n) EXCEPT !.exists = TRUE, !.location = l] \in ConfigObject
      BY DEF NoConfig, ConfigObject, Operations
    <3>2. QED
      BY <2>1, <3>1, StoreConfigEffect DEF CreateConfig
  <2>2. ASSUME NEW n \in Configs, NEW l \in Locations, Relocate(n, l) PROVE <1>2!1 /\ <1>2!2
    <3>1. [config[n] EXCEPT !.location = l] \in ConfigObject
      BY DEF ConfigObject
    <3>2. QED
      BY <2>2, <3>1, StoreConfigEffect DEF Relocate
  <2>3. ASSUME NEW n \in Configs, NEW op \in ConfigOps \cup {"none"}, AnnotateConfig(n, op)
        PROVE <1>2!1 /\ <1>2!2
    <3>1. [config[n] EXCEPT !.op = op] \in ConfigObject
      BY OperationsAssumption DEF ConfigObject, Operations
    <3>2. QED
      BY <2>3, <3>1, StoreConfigEffect DEF AnnotateConfig
  <2>4. ASSUME NEW n \in Configs, DeleteConfig(n) PROVE <1>2!1 /\ <1>2!2
    <3>1. [config[n] EXCEPT !.deleting = TRUE] \in ConfigObject
      BY DEF ConfigObject
    <3>2. QED
      BY <2>4, <3>1, StoreConfigEffect DEF DeleteConfig
  <2>5. ASSUME NEW c \in Clusters, CreateCluster(c) PROVE <1>2!1 /\ <1>2!2
    <3>1. [NoCluster EXCEPT !.exists = TRUE] \in ClusterObject
      BY DEF NoCluster, ClusterObject, Operations
    <3>2. QED
      BY <2>5, <3>1, StoreClusterEffect DEF CreateCluster
  <2>6. ASSUME NEW c \in Clusters, DeleteCluster(c) PROVE <1>2!1 /\ <1>2!2
    <3>1. [cluster[c] EXCEPT !.deleting = TRUE] \in ClusterObject
      BY DEF ClusterObject
    <3>2. QED
      BY <2>6, <3>1, StoreClusterEffect DEF DeleteCluster
  <2>7. ASSUME NEW c \in Clusters, NEW op \in ClusterOps \cup {"none"}, AnnotateCluster(c, op)
        PROVE <1>2!1 /\ <1>2!2
    <3>1. [cluster[c] EXCEPT !.op = op] \in ClusterObject
      BY OperationsAssumption DEF ClusterObject, Operations
    <3>2. QED
      BY <2>7, <3>1, StoreClusterEffect DEF AnnotateCluster
  <2>8. ASSUME NEW c \in Clusters, NEW f \in Foreign, AddForeign(c, f) PROVE <1>2!1 /\ <1>2!2
    <3>1. [cluster[c] EXCEPT !.foreign = @ \cup {f}] \in ClusterObject
      BY DEF ClusterObject
    <3>2. QED
      BY <2>8, <3>1, StoreClusterEffect DEF AddForeign
  <2>9. ASSUME NEW c \in Clusters, NEW f \in Foreign, RemoveForeign(c, f) PROVE <1>2!1 /\ <1>2!2
    <3>1. [cluster[c] EXCEPT !.foreign = @ \ {f}] \in ClusterObject
      BY DEF ClusterObject
    <3>2. QED
      BY <2>9, <3>1, StoreClusterEffect DEF RemoveForeign
  <2>10. QED
    BY <1>1, <2>1, <2>2, <2>3, <2>4, <2>5, <2>6, <2>7, <2>8, <2>9 DEF UserNext
<1>3. PlatformType' /\ FaultsType'
  BY <1>1, <1>2 DEF UserNext, FaultsType
<1>4. ConfigControllerType'
  BY EventsTyped DEF User, ConfigControllerType
<1>5. ClusterControllerType'
  BY EventsTyped DEF User, ClusterControllerType
<1>6. KeysOK'
  BY DEF User, KeysOK
<1>7. RuntimeType' /\ GKEType' /\ (crashes \in Nat)'
  BY DEF User, runtimeVars, RuntimeType, GKEType
<1>8. QED
  BY <1>3, <1>4, <1>5, <1>6, <1>7

\* What GKE does keeps the types.
LEMMA CloudTyped == TypeInv /\ Cloud => TypeInv'
<1> SUFFICES ASSUME TypeInv, Cloud PROVE TypeInv'
  OBVIOUS
<1> USE DEF TypeInv, TypeOK
<1>1. PICK l \in Locations, c \in Clusters :
        \/ GKEProgress(l, c)
        \/ Repaired(l, c)
        \/ Maintenance(l, c)
        \/ Failure(l, c)
  BY DEF Cloud, GKENext
<1>2. \E status \in Statuses : SetStatus(l, c, status)
  BY <1>1 DEF GKEProgress, Provisioned, Stopped, Repaired, Maintenance, Failure, Become, Statuses
<1>3. GKEType'
  BY <1>2, SetStatusTyped
<1>4. FaultsType'
  BY <1>1 DEF GKEProgress, Provisioned, Stopped, Repaired, Maintenance, Failure, Fault, FaultsType
<1>5. PlatformType' /\ RuntimeType' /\ (crashes \in Nat)'
  BY DEF Cloud, platformVars, processVars, runtimeVars, PlatformType, RuntimeType
<1>6. ConfigControllerType'
  BY DEF Cloud, processVars, ConfigControllerType
<1>7. ClusterControllerType'
  BY DEF Cloud, processVars, ClusterControllerType
<1>8. KeysOK'
  BY DEF Cloud, processVars, KeysOK
<1>9. QED
  BY <1>3, <1>4, <1>5, <1>6, <1>7, <1>8

\* A pass of the AccessRequest controller begins or ends: only the readers change.
LEMMA OtherReconcilerEffect ==
    ASSUME OtherReconciler
    PROVE  /\ ReaderFrame
           /\ \E r \in OtherReaders : ReaderEnters(r) \/ ReaderLeaves(r)
  BY DEF OtherReconciler, ReaderEnters, ReaderLeaves

\* Another reader keeps the types.
LEMMA OtherReconcilerTyped == TypeInv /\ OtherReconciler => TypeInv'
<1> SUFFICES ASSUME TypeInv, OtherReconciler PROVE TypeInv'
  OBVIOUS
<1>1. ReaderFrame
  BY OtherReconcilerEffect
<1>2. FaultsType' /\ PlatformType' /\ GKEType' /\ (crashes \in Nat)'
  BY <1>1 DEF ReaderFrame, platformVars, TypeInv, TypeOK, FaultsType, PlatformType, GKEType
<1>3. ConfigControllerType' /\ ClusterControllerType' /\ KeysOK'
  BY <1>1 DEF ReaderFrame, TypeInv, TypeOK, ConfigControllerType, ClusterControllerType, KeysOK
<1>4. RuntimeType'
  BY <1>1, OtherReconcilerEffect
     DEF ReaderFrame, OtherReaders, ReaderEnters, ReaderLeaves, RLock, RUnlock, TypeInv, TypeOK,
         RuntimeType
<1>5. QED
  BY <1>2, <1>3, <1>4 DEF TypeInv, TypeOK

\* A restart keeps the types.
LEMMA RestartTyped == TypeInv /\ Restart => TypeInv'
<1> SUFFICES ASSUME TypeInv, Restart PROVE TypeInv'
  OBVIOUS
<1> USE DEF TypeInv, TypeOK, Restart
<1>1. PlatformType' /\ GKEType' /\ FaultsType' /\ (crashes \in Nat)'
  BY DEF platformVars, PlatformType, GKEType, FaultsType
<1>2. RuntimeType'
  BY DEF RuntimeType, NewRwlock, NewProfiles
<1>3. ConfigControllerType'
  BY DEF ConfigControllerType, IdleConfigWorker, ConfigPCs
<1>4. ClusterControllerType'
  BY DEF ClusterControllerType, IdleClusterWorker, ClusterPCs
<1>5. KeysOK'
  BY DEF KeysOK, IdleConfigWorker, IdleClusterWorker
<1>6. QED
  BY <1>1, <1>2, <1>3, <1>4, <1>5

\* The type of a ProviderConfig reconciliation, which always has a request.
ConfigWorkers ==
    [pc : ConfigPCs, key : Configs, location : Locations \cup {NoProfile},
     profile : Locations \cup {NoProfile}, failed : BOOLEAN]

\* The ProviderConfig controller's part of TypeInv.
ConfigPart ==
    /\ FaultsType /\ PlatformType /\ RuntimeType /\ ConfigControllerType
    /\ configWorker.pc # "idle" => configWorker.key \in Configs

\* The end of a reconciliation without an object keeps the types.
LEMMA ConcludeTyped ==
    ASSUME RuntimeType, ConfigControllerType, configWorker.key \in Configs,
           NEW failed \in BOOLEAN, ConcludeWithoutObject(failed), UNCHANGED profileEvents
    PROVE  /\ RuntimeType' /\ ConfigControllerType'
           /\ configWorker'.pc = "idle"
<1>1. RuntimeType'
  <2>1. rwlock' \in [writer : {"free", "announced", "held"}, readers : SUBSET Readers]
    BY DEF ConcludeWithoutObject, RuntimeType, Unlock
  <2>2. providerConfigs' \subseteq Configs
    BY DEF ConcludeWithoutObject, RuntimeType, UnsetProviderConfig
  <2>3. profiles' \in [Configs -> Locations \cup {NoProfile}]
    BY DEF ConcludeWithoutObject, RuntimeType, UnsetProfile, SetProfile
  <2>4. QED
    BY <2>1, <2>2, <2>3 DEF RuntimeType
<1>2. configWorker' = IdleConfigWorker
  BY DEF ConcludeWithoutObject
<1>3. configQueue' \subseteq Configs
  BY EventsTyped DEF ConcludeWithoutObject, ConfigControllerType, Requeue
<1>4. ConfigControllerType'
  BY <1>2, <1>3 DEF ConfigControllerType, IdleConfigWorker, ConfigPCs
<1>5. QED
  BY <1>1, <1>2, <1>4 DEF IdleConfigWorker

\* Going on with an object read, or with a result, keeps the worker's type.
LEMMA ContinueTyped ==
    ASSUME ConfigControllerType, configWorker.key \in Configs,
           NEW pc \in ConfigPCs, NEW obj \in ConfigObject, Continue(pc, obj)
    PROVE  configWorker' \in ConfigWorkers
  BY DEF ConfigControllerType, Continue, ConfigObject, ConfigWorkers

\* Returning a result keeps the worker's type.
LEMMA ReturnTyped ==
    ASSUME NEW w \in ConfigWorkers, NEW failed \in BOOLEAN, Return(w, failed)
    PROVE  configWorker' \in ConfigWorkers
  BY DEF Return, ConfigPCs, ConfigWorkers

\* Every step of the ProviderConfig controller keeps the types.
LEMMA ConfigReconcilerTyped == TypeInv /\ ConfigReconciler => TypeInv'
<1> SUFFICES ASSUME TypeInv, ConfigReconciler PROVE TypeInv'
  OBVIOUS
<1>1. ConfigPart
  BY DEF TypeInv, TypeOK, KeysOK, ConfigPart
<1>2. ASSUME configWorker.pc # "idle"
      PROVE  configWorker.key \in Configs /\ configWorker \in ConfigWorkers
  BY <1>1, <1>2 DEF ConfigPart, ConfigControllerType, ConfigWorkers
<1>3. ASSUME NEW n \in Configs PROVE config[n] \in ConfigObject
  BY <1>1 DEF ConfigPart, PlatformType
<1>4. ASSUME configWorker' \in ConfigWorkers, configQueue' \subseteq Configs,
             profileEvents' \subseteq Configs
      PROVE  ConfigControllerType' /\ configWorker'.key \in Configs
  BY <1>4 DEF ConfigControllerType, ConfigWorkers
<1> USE DEF ConfigPart
<1>5. ASSUME NEW n \in Configs, ConfigDequeue(n) PROVE ConfigPart'
  <2>1. configWorker' = [IdleConfigWorker EXCEPT !.pc = "locking", !.key = n]
    BY <1>5 DEF ConfigDequeue
  <2>2. configWorker' \in ConfigWorkers
    BY <2>1 DEF IdleConfigWorker, ConfigPCs, ConfigWorkers
  <2>3. configQueue' \subseteq Configs /\ profileEvents' \subseteq Configs
    BY <1>1, <1>5 DEF ConfigDequeue, ConfigControllerType
  <2>4. RuntimeType'
    BY <1>1, <1>5 DEF ConfigDequeue, RuntimeType, AnnounceWriter
  <2>5. PlatformType' /\ FaultsType'
    BY <1>1, <1>5 DEF ConfigDequeue, platformVars, PlatformType, FaultsType
  <2>6. QED
    BY <1>4, <2>2, <2>3, <2>4, <2>5
<1>6. ASSUME ConfigGet PROVE ConfigPart'
  <2>1. configWorker.key \in Configs
    BY <1>2, <1>6 DEF ConfigGet
  <2>2. PlatformType' /\ FaultsType' /\ UNCHANGED profileEvents
    BY <1>1, <1>6, FaultsTyped DEF ConfigGet, platformVars, PlatformType
  <2>3. \/ \E failed \in BOOLEAN : ConcludeWithoutObject(failed)
        \/ /\ \E pc \in ConfigPCs : Continue(pc, config[configWorker.key])
           /\ Lock /\ UNCHANGED <<configQueue, providerConfigs, profiles>>
    BY <1>6 DEF ConfigGet, ConfigHandler, ConfigPCs
  <2>4. CASE \E failed \in BOOLEAN : ConcludeWithoutObject(failed)
    BY <1>1, <2>1, <2>2, <2>4, ConcludeTyped
  <2>5. CASE /\ \E pc \in ConfigPCs : Continue(pc, config[configWorker.key])
             /\ Lock /\ UNCHANGED <<configQueue, providerConfigs, profiles>>
    <3>1. configWorker' \in ConfigWorkers
      BY <1>1, <1>3, <2>1, <2>5, ContinueTyped
    <3>2. RuntimeType'
      BY <1>1, <2>5 DEF Lock, RuntimeType
    <3>3. QED
      BY <1>1, <1>4, <2>2, <2>5, <3>1, <3>2 DEF ConfigControllerType
  <2>6. QED
    BY <2>3, <2>4, <2>5
<1>7. ASSUME ConfigUnannotate PROVE ConfigPart'
  <2>1. configWorker.key \in Configs
    BY <1>2, <1>7 DEF ConfigUnannotate
  <2>2. FaultsType' /\ UNCHANGED profileEvents
    BY <1>1, <1>7, FaultsTyped DEF ConfigUnannotate
  <2>3. PlatformType'
    <3>1. [config[configWorker.key] EXCEPT !.op = "none"] \in ConfigObject
      BY <1>3, <2>1 DEF ConfigObject, Operations
    <3>2. config' \in [Configs -> ConfigObject]
      BY <1>1, <1>7, <2>1, <3>1, StoreConfigEffect DEF ConfigUnannotate, PlatformType
    <3>3. QED
      BY <1>1, <1>7, <3>2 DEF ConfigUnannotate, PlatformType
  <2>4. \/ ConcludeWithoutObject(TRUE)
        \/ /\ \E pc \in ConfigPCs : Continue(pc, config[configWorker.key])
           /\ configQueue' = configQueue \cup ConfigEvents
           /\ UNCHANGED <<rwlock, providerConfigs, profiles>>
    BY <1>7 DEF ConfigUnannotate, ConfigHandler, ConfigPCs
  <2>5. CASE ConcludeWithoutObject(TRUE)
    BY <1>1, <2>1, <2>2, <2>3, <2>5, ConcludeTyped
  <2>6. CASE /\ \E pc \in ConfigPCs : Continue(pc, config[configWorker.key])
             /\ configQueue' = configQueue \cup ConfigEvents
             /\ UNCHANGED <<rwlock, providerConfigs, profiles>>
    <3>1. configWorker' \in ConfigWorkers
      BY <1>1, <1>3, <2>1, <2>6, ContinueTyped
    <3>2. RuntimeType'
      BY <1>1, <2>6 DEF RuntimeType
    <3>3. QED
      BY <1>1, <1>4, <2>2, <2>3, <2>6, <3>1, <3>2, EventsTyped DEF ConfigControllerType
  <2>7. QED
    BY <2>4, <2>5, <2>6
<1>8. ASSUME ConfigFinalize PROVE ConfigPart'
  <2>1. configWorker.key \in Configs /\ configWorker \in ConfigWorkers
    BY <1>2, <1>8 DEF ConfigFinalize
  <2>2. FaultsType' /\ RuntimeType' /\ UNCHANGED <<profileEvents, configQueue>>
    BY <1>1, <1>8, FaultsTyped DEF ConfigFinalize, runtimeVars, RuntimeType
  <2>3. PlatformType'
    <3>1. [config[configWorker.key] EXCEPT !.own = TRUE] \in ConfigObject
      BY <1>3, <2>1 DEF ConfigObject
    <3>2. config' \in [Configs -> ConfigObject]
      BY <1>1, <1>8, <2>1, <3>1, StoreConfigEffect DEF ConfigFinalize, PlatformType
    <3>3. QED
      BY <1>1, <1>8, <3>2 DEF ConfigFinalize, PlatformType
  <2>4. Continue("advertise", config[configWorker.key]) \/ Return(configWorker, TRUE)
    BY <1>8 DEF ConfigFinalize
  <2>5. configWorker' \in ConfigWorkers
    BY <1>1, <1>3, <2>1, <2>4, ContinueTyped, ReturnTyped DEF ConfigPCs
  <2>6. QED
    BY <1>1, <1>4, <2>2, <2>3, <2>5 DEF ConfigControllerType
<1>9. ASSUME ConfigAdvertise \/ ConfigUnadvertise PROVE ConfigPart'
  <2>1. configWorker.key \in Configs /\ configWorker \in ConfigWorkers
    BY <1>2, <1>9 DEF ConfigAdvertise, ConfigUnadvertise
  <2>2. RuntimeType' /\ UNCHANGED <<config, cluster, configQueue>>
    BY <1>1, <1>9 DEF ConfigAdvertise, ConfigUnadvertise, runtimeVars, RuntimeType
  <2>3. FaultsType'
    <3>1. (\E outcome \in WriteOutcomes : Write(outcome)) \/ Fault("refused")
      BY <1>9 DEF ConfigAdvertise, ConfigUnadvertise, CredentialsUnusable, VersionsUnknown
    <3>2. QED
      BY <1>1, <3>1, FaultsTyped DEF AllFaultModes
  <2>4. clusterProfile' \in [Configs -> ProfileStates] /\ profileEvents' \subseteq Configs
    BY <1>1, <1>9, <2>1
       DEF ConfigAdvertise, ConfigUnadvertise, PlatformType, ProfileStates, ConfigControllerType
  <2>5. \/ \E failed \in BOOLEAN : Return(configWorker, failed)
        \/ Return([configWorker EXCEPT !.profile = configWorker.location], FALSE)
        \/ configWorker' = [configWorker EXCEPT !.pc = "release"]
    BY <1>9 DEF ConfigAdvertise, ConfigUnadvertise
  <2>6. /\ [configWorker EXCEPT !.profile = configWorker.location] \in ConfigWorkers
        /\ [configWorker EXCEPT !.pc = "release"] \in ConfigWorkers
    BY <2>1 DEF ConfigWorkers, ConfigPCs
  <2>7. configWorker' \in ConfigWorkers
    BY <2>1, <2>5, <2>6, ReturnTyped
  <2>8. QED
    BY <1>1, <1>4, <2>2, <2>3, <2>4, <2>7 DEF ConfigControllerType, PlatformType
<1>10. ASSUME ConfigRelease PROVE ConfigPart'
  <2>1. configWorker.key \in Configs /\ configWorker \in ConfigWorkers
    BY <1>2, <1>10 DEF ConfigRelease
  <2>2. FaultsType' /\ UNCHANGED profileEvents
    BY <1>1, <1>10, FaultsTyped DEF ConfigRelease
  <2>3. PlatformType'
    <3>1. [config[configWorker.key] EXCEPT !.own = FALSE] \in ConfigObject
      BY <1>3, <2>1 DEF ConfigObject
    <3>2. config' \in [Configs -> ConfigObject]
      BY <1>1, <1>10, <2>1, <3>1, StoreConfigEffect DEF ConfigRelease, PlatformType
    <3>3. QED
      BY <1>1, <1>10, <3>2 DEF ConfigRelease, PlatformType
  <2>4. \/ ConcludeWithoutObject(FALSE)
        \/ /\ Return(configWorker, TRUE)
           /\ configQueue' = configQueue \cup ConfigEvents
           /\ UNCHANGED runtimeVars
    BY <1>10 DEF ConfigRelease
  <2>5. CASE ConcludeWithoutObject(FALSE)
    BY <1>1, <2>1, <2>2, <2>3, <2>5, ConcludeTyped
  <2>6. CASE /\ Return(configWorker, TRUE)
             /\ configQueue' = configQueue \cup ConfigEvents
             /\ UNCHANGED runtimeVars
    <3>1. configWorker' \in ConfigWorkers
      BY <2>1, <2>6, ReturnTyped
    <3>2. RuntimeType'
      BY <1>1, <2>6 DEF runtimeVars, RuntimeType
    <3>3. QED
      BY <1>1, <1>4, <2>2, <2>3, <2>6, <3>1, <3>2, EventsTyped DEF ConfigControllerType
  <2>7. QED
    BY <2>4, <2>5, <2>6
<1>11. ASSUME ConfigFinish PROVE ConfigPart'
  <2>1. configWorker.key \in Configs /\ configWorker \in ConfigWorkers
    BY <1>2, <1>11 DEF ConfigFinish
  <2>2. PlatformType' /\ FaultsType'
    BY <1>1, <1>11, FaultsTyped DEF ConfigFinish, platformVars, PlatformType
  <2>3. configQueue' \subseteq Configs /\ profileEvents' \subseteq Configs
    BY <1>1, <1>11, <2>1 DEF ConfigFinish, ConfigControllerType, Requeue
  <2>4. configWorker' = IdleConfigWorker
    BY <1>11 DEF ConfigFinish
  <2>5. ConfigControllerType'
    BY <2>3, <2>4 DEF ConfigControllerType, IdleConfigWorker, ConfigPCs
  <2>6. rwlock' \in [writer : {"free", "announced", "held"}, readers : SUBSET Readers]
    BY <1>1, <1>11 DEF ConfigFinish, Unlock, RuntimeType
  <2>7. providerConfigs' \subseteq Configs
    BY <1>1, <1>11, <2>1 DEF ConfigFinish, SetProviderConfig, RuntimeType
  <2>8. profiles' \in [Configs -> Locations \cup {NoProfile}]
    BY <1>1, <1>11, <2>1 DEF ConfigFinish, SetProfile, RuntimeType, ConfigWorkers
  <2>9. QED
    BY <2>2, <2>4, <2>5, <2>6, <2>7, <2>8 DEF RuntimeType, IdleConfigWorker
<1>12. ConfigPart'
  BY <1>5, <1>6, <1>7, <1>8, <1>9, <1>10, <1>11
     DEF ConfigReconciler, ConfigControllerNext, ConfigStep
<1>13. GKEType' /\ ClusterControllerType' /\ (crashes \in Nat)' /\ UNCHANGED clusterWorker
  BY DEF ConfigReconciler, ConfigFrame, TypeInv, TypeOK, GKEType, ClusterControllerType
<1>14. QED
  BY <1>12, <1>13 DEF TypeInv, TypeOK, KeysOK

\* The type of a Cluster reconciliation, which always has a request.
ClusterWorkers ==
    [pc : ClusterPCs, key : Clusters, deleting : BOOLEAN, foreign : SUBSET Foreign,
     labelled : BOOLEAN, endpoint : BOOLEAN, location : Locations \cup {NoProfile},
     publish : BOOLEAN, ready : BOOLEAN, again : BOOLEAN]

\* What a step of the Cluster controller can change of TypeInv: its worker ...
ClusterWorkerPart ==
    /\ ClusterControllerType
    /\ clusterWorker.pc # "idle" => clusterWorker.key \in Clusters

\* ... and the state it shares.
ClusterSharedPart ==
    /\ FaultsType /\ GKEType /\ RuntimeType
    /\ cluster \in [Clusters -> ClusterObject]
    /\ profileEvents \subseteq Configs

\* A well-typed Cluster worker and queue are the controller's whole type.
LEMMA ClusterWorkerTyped ==
    ASSUME clusterWorker' \in ClusterWorkers, clusterQueue' \subseteq Clusters
    PROVE  ClusterWorkerPart'
  BY DEF ClusterWorkerPart, ClusterControllerType, ClusterWorkers

\* The end of a reconciliation keeps the types.
LEMMA LeaveTyped ==
    ASSUME RuntimeType, ClusterControllerType, clusterWorker.key \in Clusters,
           NEW again \in BOOLEAN, Leave(again), UNCHANGED <<providerConfigs, profiles>>
    PROVE  RuntimeType' /\ ClusterWorkerPart'
<1>1. RuntimeType'
  BY DEF Leave, RUnlock, RuntimeType
<1>2. clusterWorker' = IdleClusterWorker
  BY DEF Leave
<1>3. clusterQueue' \subseteq Clusters
  BY EventsTyped DEF Leave, ClusterControllerType, Again
<1>4. QED
  BY <1>1, <1>2, <1>3
     DEF ClusterWorkerPart, ClusterControllerType, IdleClusterWorker, ClusterPCs

\* So does handing a result to UpdateStatus ...
LEMMA ReportTyped ==
    ASSUME clusterWorker \in ClusterWorkers,
           NEW ready \in BOOLEAN, NEW again \in BOOLEAN, Report(ready, again)
    PROVE  clusterWorker' \in ClusterWorkers
  BY DEF Report, ClusterWorkers, ClusterPCs

\* ... and handing an object to a handler.
LEMMA HandlerTyped ==
    ASSUME RuntimeType, clusterWorker \in ClusterWorkers, NEW obj \in ClusterObject
    PROVE  Handler(clusterWorker, obj) \in ClusterWorkers
<1>1. Snapshot(clusterWorker, obj) \in ClusterWorkers
  BY DEF Snapshot, ClusterWorkers, ClusterObject
<1>2. GetProfile(ProfileOf[clusterWorker.key]) \in Locations \cup {NoProfile}
  BY TopologyAssumption DEF GetProfile, RuntimeType, ClusterWorkers
<1>3. (IF obj.deleting THEN (IF obj.foreign # {} THEN "status" ELSE "readForDelete")
       ELSE (IF obj.own THEN "read" ELSE "finalize")) \in ClusterPCs
  BY DEF ClusterPCs
<1>4. QED
  BY <1>1, <1>2, <1>3 DEF Handler, HandleDelete, ClusterWorkers

\* Looking up the profile, and calling a handler or leaving, keeps the types.
LEMMA HandleTyped ==
    ASSUME RuntimeType, ClusterControllerType, clusterWorker \in ClusterWorkers,
           NEW obj \in ClusterObject, Handle(obj), UNCHANGED <<providerConfigs, profiles>>,
           "Cluster" \in Readers
    PROVE  RuntimeType' /\ ClusterWorkerPart'
<1>1. CASE GetProfile(ProfileOf[clusterWorker.key]) = NoProfile
  BY <1>1, LeaveTyped DEF Handle, ClusterWorkers
<1>2. CASE GetProfile(ProfileOf[clusterWorker.key]) # NoProfile
  <2>1. clusterWorker' = Handler(clusterWorker, obj)
    BY <1>2 DEF Handle
  <2>2. clusterQueue' \subseteq Clusters
    BY <1>2, EventsTyped DEF Handle, ClusterControllerType
  <2>3. RuntimeType'
    BY <1>2 DEF Handle, RuntimeType
  <2>4. QED
    BY <2>1, <2>2, <2>3, HandlerTyped, ClusterWorkerTyped
<1>3. QED
  BY <1>1, <1>2

\* Every step of the Cluster controller keeps the types.
LEMMA ClusterReconcilerTyped == TypeInv /\ ClusterReconciler => TypeInv'
<1> SUFFICES ASSUME TypeInv, ClusterReconciler PROVE TypeInv'
  OBVIOUS
<1>1. ClusterSharedPart /\ ClusterWorkerPart
  BY DEF TypeInv, TypeOK, KeysOK, ClusterSharedPart, ClusterWorkerPart, PlatformType,
         ConfigControllerType
<1>2. ASSUME clusterWorker.pc # "idle"
      PROVE  /\ clusterWorker.key \in Clusters /\ clusterWorker \in ClusterWorkers
             /\ cluster[clusterWorker.key] \in ClusterObject
  BY <1>1, <1>2 DEF ClusterSharedPart, ClusterWorkerPart, ClusterControllerType, ClusterWorkers
<1>3. UNCHANGED configControllerVars
  BY DEF ClusterReconciler, ClusterControllerNext, ClusterStep, DeliverProfileEvent,
         ClusterDequeue, ClusterGet, ClusterUnannotate, ClusterFinalize, ClusterRead,
         ClusterCreate, ClusterLabel, EnsureLabels, ClusterReadForDelete,
         ClusterDelete, ClusterRelease,
         ClusterStatus
<1>4. ASSUME UNCHANGED rwlock PROVE RuntimeType'
  BY <1>1, <1>3, <1>4 DEF ClusterSharedPart, RuntimeType, configControllerVars
<1>5. ASSUME UNCHANGED clusterQueue, clusterWorker' \in ClusterWorkers PROVE ClusterWorkerPart'
  BY <1>1, <1>5, ClusterWorkerTyped DEF ClusterWorkerPart, ClusterControllerType
<1> USE DEF ClusterSharedPart
<1>6. ASSUME NEW n \in Configs, DeliverProfileEvent(n) PROVE ClusterSharedPart' /\ ClusterWorkerPart'
  <2>1. FaultsType'
    BY <1>1, <1>6, FaultsTyped DEF DeliverProfileEvent, AllFaultModes
  <2>2. clusterQueue' \subseteq Clusters
    BY <1>1, <1>6 DEF DeliverProfileEvent, ClusterWorkerPart, ClusterControllerType
  <2>3. ClusterWorkerPart'
    BY <1>1, <1>6, <2>2 DEF DeliverProfileEvent, ClusterWorkerPart, ClusterControllerType
  <2>4. QED
    BY <1>1, <1>4, <1>6, <2>1, <2>3 DEF DeliverProfileEvent, GKEType
<1>7. ASSUME NEW c \in Clusters, ClusterDequeue(c) PROVE ClusterSharedPart' /\ ClusterWorkerPart'
  <2>1. clusterWorker' \in ClusterWorkers
    BY <1>7 DEF ClusterDequeue, IdleClusterWorker, ClusterWorkers, ClusterPCs
  <2>2. clusterQueue' \subseteq Clusters
    BY <1>1, <1>7 DEF ClusterDequeue, ClusterWorkerPart, ClusterControllerType
  <2>3. QED
    BY <1>1, <1>4, <1>7, <2>1, <2>2, ClusterWorkerTyped DEF ClusterDequeue, GKEType, FaultsType
<1>8. ASSUME ClusterGet PROVE ClusterSharedPart' /\ ClusterWorkerPart'
  <2>1. clusterWorker \in ClusterWorkers /\ cluster[clusterWorker.key] \in ClusterObject
    BY <1>2, <1>8 DEF ClusterGet
  <2>2. FaultsType' /\ UNCHANGED <<profileEvents, cluster, gke>>
    BY <1>1, <1>8, FaultsTyped DEF ClusterGet
  <2>3. \/ Handle(cluster[clusterWorker.key])
        \/ \E again \in BOOLEAN : Leave(again)
        \/ /\ clusterWorker' = [clusterWorker EXCEPT !.pc = "unannotate"]
           /\ RLock("Cluster")
           /\ UNCHANGED clusterQueue
    BY <1>8 DEF ClusterGet
  <2>4. RuntimeType' /\ ClusterWorkerPart'
    <3>1. CASE Handle(cluster[clusterWorker.key])
      BY <1>1, <1>3, <2>1, <3>1, HandleTyped, TopologyAssumption, ReaderAssumption
         DEF configControllerVars, ClusterWorkerPart
    <3>2. CASE \E again \in BOOLEAN : Leave(again)
      BY <1>1, <1>3, <2>1, <3>2, LeaveTyped
         DEF configControllerVars, ClusterWorkerPart, ClusterWorkers
    <3>3. CASE /\ clusterWorker' = [clusterWorker EXCEPT !.pc = "unannotate"]
               /\ RLock("Cluster")
               /\ UNCHANGED clusterQueue
      <4>1. clusterWorker' \in ClusterWorkers
        BY <2>1, <3>3 DEF ClusterWorkers, ClusterPCs
      <4>2. RuntimeType'
        BY <1>1, <1>3, <3>3, TopologyAssumption, ReaderAssumption DEF RLock, RuntimeType, configControllerVars
      <4>3. QED
        BY <1>5, <3>3, <4>1, <4>2
    <3>4. QED
      BY <2>3, <3>1, <3>2, <3>3
  <2>5. QED
    BY <1>1, <2>2, <2>4 DEF GKEType
<1>9. ASSUME ClusterUnannotate PROVE ClusterSharedPart' /\ ClusterWorkerPart'
  <2>1. clusterWorker \in ClusterWorkers /\ cluster[clusterWorker.key] \in ClusterObject
    BY <1>2, <1>9 DEF ClusterUnannotate
  <2>2. FaultsType' /\ UNCHANGED <<profileEvents, gke>>
    BY <1>1, <1>9, FaultsTyped DEF ClusterUnannotate
  <2>3. [cluster[clusterWorker.key] EXCEPT !.op = "none"] \in ClusterObject
    BY <2>1 DEF ClusterObject, Operations
  <2>4. cluster' \in [Clusters -> ClusterObject]
    BY <1>1, <1>9, <2>1, <2>3, StoreClusterEffect DEF ClusterUnannotate, ClusterWorkers
  <2>5. Handle(cluster[clusterWorker.key]) \/ Leave(TRUE)
    BY <1>9 DEF ClusterUnannotate
  <2>6. RuntimeType' /\ ClusterWorkerPart'
    BY <1>1, <1>3, <2>1, <2>5, HandleTyped, LeaveTyped, TopologyAssumption, ReaderAssumption
       DEF configControllerVars, ClusterWorkerPart, ClusterWorkers
  <2>7. QED
    BY <1>1, <2>2, <2>4, <2>6 DEF GKEType
<1>10. ASSUME ClusterFinalize PROVE ClusterSharedPart' /\ ClusterWorkerPart'
  <2> DEFINE obj == [cluster[clusterWorker.key] EXCEPT !.own = TRUE, !.foreign = clusterWorker.foreign]
  <2>1. clusterWorker \in ClusterWorkers /\ cluster[clusterWorker.key] \in ClusterObject
    BY <1>2, <1>10 DEF ClusterFinalize
  <2>2. FaultsType' /\ UNCHANGED <<profileEvents, gke, rwlock, clusterQueue>>
    BY <1>1, <1>10, FaultsTyped DEF ClusterFinalize
  <2>3. obj \in ClusterObject
    BY <2>1 DEF ClusterObject, ClusterWorkers
  <2>4. cluster' \in [Clusters -> ClusterObject]
    BY <1>1, <1>10, <2>1, <2>3, StoreClusterEffect DEF ClusterFinalize, ClusterWorkers
  <2>5. \/ clusterWorker' = [Snapshot(clusterWorker, obj) EXCEPT !.pc = "read"]
        \/ Report(FALSE, TRUE)
    BY <1>10 DEF ClusterFinalize
  <2>6. [Snapshot(clusterWorker, obj) EXCEPT !.pc = "read"] \in ClusterWorkers
    <3>1. Snapshot(clusterWorker, obj) \in ClusterWorkers
      BY <2>1, <2>3 DEF Snapshot, ClusterWorkers, ClusterObject
    <3>2. QED
      BY <3>1 DEF ClusterWorkers, ClusterPCs
  <2>7. clusterWorker' \in ClusterWorkers
    BY <2>1, <2>5, <2>6, ReportTyped
  <2>8. QED
    BY <1>1, <1>4, <1>5, <2>2, <2>4, <2>7 DEF GKEType
<1>11. ASSUME ClusterRead \/ ClusterReadForDelete PROVE ClusterSharedPart' /\ ClusterWorkerPart'
  <2>1. clusterWorker \in ClusterWorkers
    BY <1>2, <1>11 DEF ClusterRead, ClusterReadForDelete
  <2>2. FaultsType'
    BY <1>1, <1>11, FaultsTyped DEF ClusterRead, ClusterReadForDelete
  <2>3. UNCHANGED <<profileEvents, cluster, gke, rwlock, clusterQueue>>
    BY <1>11 DEF ClusterRead, ClusterReadForDelete
  <2>4. \/ Report(FALSE, TRUE)
        \/ \E pc \in ClusterPCs : clusterWorker' = [clusterWorker EXCEPT !.pc = pc]
        \/ \E pc \in ClusterPCs :
              clusterWorker' = [clusterWorker EXCEPT !.publish = ~clusterWorker.endpoint,
                                                     !.ready = clusterWorker.labelled,
                                                     !.pc = pc]
    BY <1>11 DEF ClusterRead, ClusterReadForDelete, ClusterPCs
  <2>5. clusterWorker' \in ClusterWorkers
    BY <2>1, <2>4, ReportTyped DEF ClusterWorkers
  <2>6. QED
    BY <1>1, <1>4, <1>5, <2>2, <2>3, <2>5 DEF GKEType
<1>12. ASSUME ClusterCreate \/ ClusterDelete PROVE ClusterSharedPart' /\ ClusterWorkerPart'
  <2>1. clusterWorker \in ClusterWorkers
    BY <1>2, <1>12 DEF ClusterCreate, ClusterDelete
  <2>2. FaultsType'
    BY <1>1, <1>12, FaultsTyped DEF ClusterCreate, ClusterDelete
  <2>3. UNCHANGED <<profileEvents, cluster, rwlock, clusterQueue>> /\ Report(FALSE, TRUE)
    BY <1>12 DEF ClusterCreate, ClusterDelete
  <2>4. GKEType'
    <3>1. \/ UNCHANGED gke
          \/ \E status \in Statuses : SetStatus(clusterWorker.location, clusterWorker.key, status)
      BY <1>12 DEF ClusterCreate, ClusterDelete, SubmitCreate, SubmitDelete, Statuses
    <3>2. QED
      BY <1>1, <3>1, SetStatusTyped DEF GKEType
  <2>5. clusterWorker' \in ClusterWorkers
    BY <2>1, <2>3, ReportTyped
  <2>6. QED
    BY <1>1, <1>4, <1>5, <2>2, <2>3, <2>4, <2>5
<1>13. ASSUME ClusterLabel PROVE ClusterSharedPart' /\ ClusterWorkerPart'
  <2>1. clusterWorker \in ClusterWorkers /\ cluster[clusterWorker.key] \in ClusterObject
    BY <1>2, <1>13 DEF ClusterLabel, EnsureLabels
  <2>2. FaultsType' /\ UNCHANGED <<profileEvents, gke, rwlock, clusterQueue>>
    BY <1>1, <1>13, FaultsTyped DEF ClusterLabel, EnsureLabels
  <2>3. [cluster[clusterWorker.key] EXCEPT !.labelled = TRUE] \in ClusterObject
    BY <2>1 DEF ClusterObject
  <2>4. cluster' \in [Clusters -> ClusterObject]
    BY <1>1, <1>13, <2>1, <2>3, StoreClusterEffect DEF ClusterLabel, EnsureLabels, ClusterWorkers
  <2>5. \/ Report(FALSE, TRUE)
        \/ clusterWorker' = [clusterWorker EXCEPT !.pc = "status", !.ready = TRUE,
                                !.publish = FALSE, !.deleting = cluster[clusterWorker.key].deleting]
    BY <1>13 DEF ClusterLabel, EnsureLabels
  <2>6. clusterWorker' \in ClusterWorkers
    BY <2>1, <2>5, ReportTyped DEF ClusterWorkers, ClusterPCs, ClusterObject
  <2>7. QED
    BY <1>1, <1>4, <1>5, <2>2, <2>4, <2>6 DEF GKEType
<1>14. ASSUME ClusterRelease PROVE ClusterSharedPart' /\ ClusterWorkerPart'
  <2> DEFINE obj == [cluster[clusterWorker.key] EXCEPT !.own = FALSE, !.foreign = clusterWorker.foreign]
  <2>1. clusterWorker \in ClusterWorkers /\ cluster[clusterWorker.key] \in ClusterObject
    BY <1>2, <1>14 DEF ClusterRelease
  <2>2. FaultsType' /\ UNCHANGED <<profileEvents, gke>>
    BY <1>1, <1>14, FaultsTyped DEF ClusterRelease
  <2>3. obj \in ClusterObject
    BY <2>1 DEF ClusterObject, ClusterWorkers
  <2>4. cluster' \in [Clusters -> ClusterObject]
    BY <1>1, <1>14, <2>1, <2>3, StoreClusterEffect DEF ClusterRelease, ClusterWorkers
  <2>5. \/ Leave(FALSE)
        \/ /\ Report(FALSE, TRUE)
           /\ clusterQueue' = clusterQueue \cup ClusterEvents
           /\ UNCHANGED rwlock
    BY <1>14 DEF ClusterRelease
  <2>6. RuntimeType' /\ ClusterWorkerPart'
    <3>1. CASE Leave(FALSE)
      BY <1>1, <1>3, <2>1, <3>1, LeaveTyped
         DEF configControllerVars, ClusterWorkerPart, ClusterWorkers
    <3>2. CASE /\ Report(FALSE, TRUE)
               /\ clusterQueue' = clusterQueue \cup ClusterEvents
               /\ UNCHANGED rwlock
      <4>1. clusterQueue' \subseteq Clusters
        BY <1>1, <3>2, EventsTyped DEF ClusterWorkerPart, ClusterControllerType
      <4>2. QED
        BY <1>4, <2>1, <3>2, <4>1, ReportTyped, ClusterWorkerTyped
    <3>3. QED
      BY <2>5, <3>1, <3>2
  <2>7. QED
    BY <1>1, <2>2, <2>4, <2>6 DEF GKEType
<1>15. ASSUME ClusterStatus PROVE ClusterSharedPart' /\ ClusterWorkerPart'
  <2>1. clusterWorker \in ClusterWorkers /\ cluster[clusterWorker.key] \in ClusterObject
    BY <1>2, <1>15 DEF ClusterStatus
  <2>2. FaultsType' /\ UNCHANGED <<profileEvents, gke>>
    BY <1>1, <1>15, FaultsTyped DEF ClusterStatus
  <2>3. [cluster[clusterWorker.key] EXCEPT !.phase = ClusterPhase,
                                           !.endpoint = @ \/ clusterWorker.publish] \in ClusterObject
    BY <2>1 DEF ClusterObject, ClusterPhase
  <2>4. cluster' \in [Clusters -> ClusterObject]
    BY <1>1, <1>15, <2>1, <2>3, StoreClusterEffect DEF ClusterStatus, ClusterWorkers
  <2>5. \E again \in BOOLEAN : Leave(again)
    BY <1>15, <2>1 DEF ClusterStatus, ClusterObject, ClusterWorkers
  <2>6. RuntimeType' /\ ClusterWorkerPart'
    BY <1>1, <1>3, <2>1, <2>5, LeaveTyped DEF configControllerVars, ClusterWorkerPart, ClusterWorkers
  <2>7. QED
    BY <1>1, <2>2, <2>4, <2>6 DEF GKEType
<1>16. ClusterSharedPart' /\ ClusterWorkerPart'
  BY <1>6, <1>7, <1>8, <1>9, <1>10, <1>11, <1>12, <1>13, <1>14, <1>15
     DEF ClusterReconciler, ClusterControllerNext, ClusterStep
<1>17. QED
  BY <1>3, <1>16 DEF configControllerVars, ClusterReconciler, ClusterWorkerPart, TypeInv, TypeOK,
                     KeysOK, PlatformType, ConfigControllerType

-----------------------------------------------------------------------------
\* TypeInv is inductive.
LEMMA TypeInvInductive == TypeInv /\ [Next]_vars => TypeInv'
<1> SUFFICES ASSUME TypeInv, [Next]_vars PROVE TypeInv'
  OBVIOUS
<1>1. CASE Next
  BY <1>1, UserTyped, CloudTyped, ConfigReconcilerTyped, ClusterReconcilerTyped, RestartTyped,
     OtherReconcilerTyped
     DEF Next
<1>2. CASE UNCHANGED vars
  <2>1. FaultsType' /\ PlatformType' /\ GKEType' /\ RuntimeType' /\ (crashes \in Nat)'
    BY <1>2 DEF vars, platformVars, processVars, runtimeVars, TypeInv, TypeOK,
                FaultsType, PlatformType, GKEType, RuntimeType
  <2>2. ConfigControllerType' /\ ClusterControllerType' /\ KeysOK'
    BY <1>2 DEF vars, processVars, TypeInv, TypeOK, ConfigControllerType,
                ClusterControllerType, KeysOK
  <2>3. QED
    BY <2>1, <2>2 DEF TypeInv, TypeOK
<1>3. QED
  BY <1>1, <1>2

\* TypeInv holds in every reachable state.
LEMMA TypeInvAlways == Spec => []TypeInv
  BY InitTyped, TypeInvInductive, PTL DEF Spec

\* Every reachable state of the provider is well typed: no handler stores a
\* malformed resource, status, map entry or worker.
THEOREM TypeCorrectness == Spec => []TypeOK
<1>1. TypeInv => TypeOK
  BY DEF TypeInv
<1>2. QED
  BY <1>1, TypeInvAlways, PTL
=============================================================================
