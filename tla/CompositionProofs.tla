-------------------------- MODULE CompositionProofs --------------------------
(***************************************************************************)
(* What the two controllers guarantee together: no Cluster is forgotten    *)
(* under the conditions the code can cope with, and the provider is the    *)
(* neighbour AccessSystem assumes, as every step of it, its users and GKE  *)
(* is a step of Neighbours or a stutter.                                   *)
(***************************************************************************)
EXTENDS LockProofs, RefinementProofs

\* The refinement mapping of AccessNeighbours.
MappedLock == [writer |-> IF rwlock.writer = "free" THEN "free" ELSE "announced",
               readers |-> rwlock.readers \cap {"AccessRequest"}]
Apis == [c \in Clusters |-> ApiState(gke[Home[ProfileOf[c]]][c])]

NeighbourhoodStep ==
    [AccessNeighbours!NeighboursNext]_<<MappedLock, profiles, LiveClusters, Apis>>

\* A step that nothing of the mapping sees.
LEMMA Unseen ==
    ASSUME UNCHANGED <<MappedLock, profiles, LiveClusters, Apis>>
    PROVE  NeighbourhoodStep
  BY DEF NeighbourhoodStep

\* Clusters that come and go by the finalizer protocol do so for the neighbour.
LEMMA LiveStep ==
    ASSUME OrphanInv, ClusterProtocolStep, UNCHANGED <<MappedLock, profiles, gke>>
    PROVE  NeighbourhoodStep
<1>1. UNCHANGED Apis
  BY DEF Apis, ApiState
<1>2. ASSUME NEW c \in Clusters, c \in LiveClusters, c \notin ExternalClusters,
             LiveClusters' = LiveClusters \ {c}
      PROVE  NeighbourhoodStep
  <2>1. Settled(c) => Apis[c] = "absent"
    BY <1>2, TopologyAssumption DEF ExternalClusters, Present, Apis, ApiState
  <2>2. AccessNeighbours!Withdraw(c)
    BY <1>1, <1>2, <2>1 DEF AccessNeighbours!Withdraw, AccessNeighbours!Settled, Settled,
       LiveClusters, Apis, MappedLock
  <2>3. QED
    BY <2>2 DEF NeighbourhoodStep, AccessNeighbours!NeighboursNext, AccessNeighbours!NeighboursStep
<1>3. ASSUME NEW c \in Clusters, c \notin LiveClusters, LiveClusters' = LiveClusters \cup {c}
      PROVE  NeighbourhoodStep
  <2>1. AccessNeighbours!Appear(c)
    BY <1>1, <1>3 DEF AccessNeighbours!Appear, LiveClusters, Apis, MappedLock
  <2>2. QED
    BY <2>1 DEF NeighbourhoodStep, AccessNeighbours!NeighboursNext, AccessNeighbours!NeighboursStep
<1>4. CASE UNCHANGED LiveClusters
  BY <1>1, <1>4, Unseen
<1>5. ExternalClusters \subseteq GuardedClusters
  BY DEF OrphanInv, GuardInv, ExternalGuarded, ExternalClusters, GuardedClusters
<1>6. \/ UNCHANGED LiveClusters
      \/ \E c \in Clusters :
            \/ c \notin LiveClusters /\ LiveClusters' = LiveClusters \cup {c}
            \/ /\ c \in LiveClusters /\ c \notin ExternalClusters
               /\ LiveClusters' = LiveClusters \ {c}
  BY <1>5 DEF ClusterProtocolStep, ClusterFinalizers!ProtocolNext, ClusterFinalizers!Appear,
     ClusterFinalizers!Guard, ClusterFinalizers!Acquire, ClusterFinalizers!Dispose,
     ClusterFinalizers!Release, ClusterFinalizers!Disappear,
     LiveClusters, GuardedClusters, ExternalClusters
<1>7. QED
  BY <1>2, <1>3, <1>4, <1>6

\* A new status of a GKE cluster, when the neighbour allows it.
LEMMA ApiStep ==
    ASSUME OrphanInv, NEW l, NEW c \in Clusters, NEW status, SetStatus(l, c, status),
           UNCHANGED <<rwlock, profiles, cluster>>,
           l \in Locations => /\ status = "ABSENT" => gke[l][c] \in {"STOPPING", "ABSENT"}
                              /\ status \in {"RUNNING", "RECONCILING"} => gke[l][c] # "ABSENT"
                              /\ status \notin {"RUNNING", "RECONCILING", "ABSENT"} =>
                                    \/ gke[l][c] # "ABSENT"
                                    \/ cluster[c].exists /\ profiles[ProfileOf[c]] = l
    PROVE  NeighbourhoodStep
<1> DEFINE home == Home[ProfileOf[c]]
<1>1. home \in Locations
  BY TopologyAssumption
<1>2. \A k \in Locations, d \in Clusters :
          gke'[k][d] = IF k = l /\ d = c THEN status ELSE gke[k][d]
  BY SetStatusEffect DEF OrphanInv, TypeInv, TypeOK
<1>3. UNCHANGED <<MappedLock, profiles, LiveClusters>>
  BY DEF MappedLock, LiveClusters
<1>4. CASE l # home
  <2>1. \A d \in Clusters : gke'[Home[ProfileOf[d]]][d] = gke[Home[ProfileOf[d]]][d]
    BY <1>2, <1>4, TopologyAssumption
  <2>2. UNCHANGED Apis
    BY <2>1 DEF Apis
  <2>3. QED
    BY <1>3, <2>2, Unseen
<1>5. CASE l = home
  <2>1. \A d \in Clusters :
            gke'[Home[ProfileOf[d]]][d] = IF d = c THEN status ELSE gke[Home[ProfileOf[d]]][d]
    BY <1>2, <1>5, TopologyAssumption
  <2>2. /\ Apis' = [Apis EXCEPT ![c] = ApiState(status)]
        /\ Apis[c] = ApiState(gke[l][c])
    BY <1>5, <2>1 DEF Apis
  <2>3. \/ ApiState(status) = Apis[c]
        \/ Apis[c] = "absent" /\ ApiState(status) = "unsure"
              /\ cluster[c].exists /\ profiles[ProfileOf[c]] = home
        \/ Apis[c] = "unsure" /\ ApiState(status) = "serving"
        \/ Apis[c] = "serving" /\ ApiState(status) = "unsure"
        \/ Apis[c] = "unsure" /\ ApiState(status) = "absent"
    BY <1>1, <1>5, <2>2 DEF ApiState
  <2>4. CASE ApiState(status) = Apis[c]
    BY <1>3, <2>2, <2>4, Unseen DEF Apis
  <2>5. ASSUME NEW from, NEW to, Apis[c] = from, ApiState(status) = to
        PROVE  AccessNeighbours!ApiBecomes(c, from, to)
    BY <1>3, <2>2, <2>5 DEF AccessNeighbours!ApiBecomes, MappedLock, LiveClusters, Apis
  <2>6. \/ UNCHANGED Apis
        \/ AccessNeighbours!Created(c) \/ AccessNeighbours!Serves(c)
        \/ AccessNeighbours!Falters(c) \/ AccessNeighbours!Vanishes(c)
    <3>1. CASE ApiState(status) = Apis[c]
      BY <2>2, <3>1 DEF Apis
    <3>2. CASE Apis[c] = "absent" /\ ApiState(status) = "unsure"
                  /\ cluster[c].exists /\ profiles[ProfileOf[c]] = home
      <4>1. AccessNeighbours!ApiBecomes(c, "absent", "unsure")
        BY <2>5, <3>2
      <4>2. QED
        BY <3>2, <4>1 DEF AccessNeighbours!Created
    <3>3. QED
      BY <2>3, <2>5, <3>1, <3>2
         DEF AccessNeighbours!Serves, AccessNeighbours!Falters, AccessNeighbours!Vanishes
  <2>7. QED
    BY <1>3, <2>6, Unseen
       DEF NeighbourhoodStep, AccessNeighbours!NeighboursNext, AccessNeighbours!NeighboursStep
<1>6. QED
  BY <1>4, <1>5

-----------------------------------------------------------------------------
\* What users do: Clusters appear, and go when nothing guards them.
LEMMA UserSeen == ASSUME OrphanInv, User PROVE NeighbourhoodStep
<1>1. UNCHANGED <<MappedLock, profiles, gke>>
  BY DEF User, runtimeVars, MappedLock
<1>2. QED
  BY <1>1, UserClusterStep, LiveStep

\* What GKE does: API servers come up, break, and go.
LEMMA CloudSeen == ASSUME OrphanInv, Cloud PROVE NeighbourhoodStep
<1>1. PICK l \in Locations, c \in Clusters :
        \/ GKEProgress(l, c)
        \/ Repaired(l, c)
        \/ Maintenance(l, c)
        \/ Failure(l, c)
  BY DEF Cloud, GKENext
<1>2. PICK status : /\ SetStatus(l, c, status)
                    /\ gke[l][c] # "ABSENT"
                    /\ status = "ABSENT" => gke[l][c] = "STOPPING"
  BY <1>1 DEF GKEProgress, Provisioned, Stopped, Repaired, Maintenance, Failure, Become
<1>3. UNCHANGED <<rwlock, profiles, cluster>>
  BY DEF Cloud, platformVars, processVars, runtimeVars
<1>4. QED
  BY <1>2, <1>3, ApiStep

\* The Cluster controller's read lock is not seen.
LEMMA ReadLockUnseen ==
    ASSUME TypeInv, LockInv, ClusterReconciler
    PROVE  UNCHANGED <<MappedLock, profiles>>
<1>1. rwlock' = rwlock
        \/ rwlock' = [rwlock EXCEPT !.readers = @ \cup {"Cluster"}]
        \/ rwlock' = [rwlock EXCEPT !.readers = @ \ {"Cluster"}]
  BY DEF ClusterReconciler, ClusterControllerNext, ClusterStep, DeliverProfileEvent,
         ClusterDequeue, ClusterGet, ClusterUnannotate, ClusterFinalize, ClusterRead,
         ClusterCreate, ClusterLabel, ClusterReadForDelete, ClusterDelete, ClusterRelease,
         ClusterStatus, Handle, Leave, RLock, RUnlock
<1>2. /\ rwlock'.writer = rwlock.writer
      /\ rwlock'.readers \cap {"AccessRequest"} = rwlock.readers \cap {"AccessRequest"}
  BY <1>1 DEF TypeInv, TypeOK, RuntimeType
<1>3. UNCHANGED profiles
  BY DEF ClusterReconciler, ClusterControllerNext, ClusterStep, DeliverProfileEvent,
         ClusterDequeue, ClusterGet, ClusterUnannotate, ClusterFinalize, ClusterRead,
         ClusterCreate, ClusterLabel, ClusterReadForDelete, ClusterDelete, ClusterRelease,
         ClusterStatus, configControllerVars
<1>4. QED
  BY <1>2, <1>3 DEF MappedLock

\* The Cluster controller: Clusters go by the protocol, GKE clusters are made
\* with the loaded profile.
LEMMA ClusterReconcilerSeen == ASSUME OrphanInv, LockInv, ClusterReconciler PROVE NeighbourhoodStep
<1>1. UNCHANGED <<MappedLock, profiles>> /\ ClusterProtocolStep
  BY ReadLockUnseen, ClusterReconcilerStep DEF OrphanInv
<1>2. CASE UNCHANGED gke
  BY <1>1, <1>2, LiveStep
<1>3. ASSUME ~UNCHANGED gke PROVE ClusterCreate \/ ClusterDelete
  BY <1>3 DEF ClusterReconciler, ClusterControllerNext, ClusterStep, DeliverProfileEvent,
     ClusterDequeue, ClusterGet, ClusterUnannotate, ClusterFinalize, ClusterRead, ClusterLabel,
     ClusterReadForDelete, ClusterRelease, ClusterStatus
<1> DEFINE c == clusterWorker.key
           l == clusterWorker.location
<1>4. ASSUME ClusterCreate, ~UNCHANGED gke PROVE NeighbourhoodStep
  <2>1. /\ clusterWorker.pc = "create"
        /\ SetStatus(l, c, "PROVISIONING")
        /\ UNCHANGED <<rwlock, profiles, cluster>>
    BY <1>4 DEF ClusterCreate, SubmitCreate, configControllerVars
  <2>2. c \in Clusters
    BY <2>1 DEF OrphanInv, TypeInv, KeysOK
  <2>3. cluster[c].exists /\ l # NoProfile
    BY <2>1, <2>2 DEF OrphanInv, GuardInv, WorkerGuarded, GuardedExists, LocatedPCs
  <2>4. profiles[ProfileOf[c]] = l
    BY <2>3 DEF LockInv, SnapshotCurrent
  <2>5. QED
    BY <2>1, <2>2, <2>3, <2>4, ApiStep
<1>5. ASSUME ClusterDelete, ~UNCHANGED gke PROVE NeighbourhoodStep
  <2>1. /\ clusterWorker.pc = "delete"
        /\ gke[l][c] # "ABSENT"
        /\ SetStatus(l, c, "STOPPING")
        /\ UNCHANGED <<rwlock, profiles, cluster>>
    BY <1>5 DEF ClusterDelete, SubmitDelete, Present, configControllerVars
  <2>2. c \in Clusters
    BY <2>1 DEF OrphanInv, TypeInv, KeysOK
  <2>3. QED
    BY <2>1, <2>2, ApiStep
<1>6. QED
  BY <1>2, <1>3, <1>4, <1>5

-----------------------------------------------------------------------------
\* The end of a ProviderConfig reconciliation publishes one profile, if any.
LEMMA PublishSeen ==
    ASSUME OrphanInv, LockInv, configWorker.pc # "idle", rwlock.readers = {}, Unlock,
           UNCHANGED <<LiveClusters, Apis>>,
           NEW n \in Configs, NEW profile \in Locations \cup {NoProfile},
           n \notin Relocatable => AtHome(n, profile),
           SetProfile(n, profile)
    PROVE  NeighbourhoodStep
<1>1. MappedLock.writer # "free" /\ MappedLock.readers = {}
  BY DEF MappedLock, LockInv, WriterOK
<1>2. MappedLock' = [MappedLock EXCEPT !.writer = "free"]
  <2>1. rwlock'.writer = "free" /\ rwlock'.readers = rwlock.readers
    BY UnlockEffect DEF OrphanInv, TypeInv, TypeOK
  <2>2. QED
    BY <2>1 DEF MappedLock
<1>3. AccessNeighbours!Publish
  BY <1>1, <1>2 DEF AccessNeighbours!Publish, AccessNeighbours!Runtime!Unlock,
     AccessNeighbours!Runtime!SetProfile, SetProfile, AtHome, MappedLock, LiveClusters, Apis
<1>4. QED
  BY <1>3 DEF NeighbourhoodStep, AccessNeighbours!NeighboursNext, AccessNeighbours!NeighboursStep

\* The ProviderConfig controller: a writer is announced, and publishes at its end.
LEMMA ConfigReconcilerSeen == ASSUME OrphanInv, LockInv, ConfigReconciler PROVE NeighbourhoodStep
<1> DEFINE n == configWorker.key
<1>1. /\ RuntimeType /\ HomeProfiles /\ ConfigControllerType
      /\ configWorker.pc # "idle" => n \in Configs
  BY DEF OrphanInv, TypeInv, TypeOK, HomeInv, KeysOK
<1>2. UNCHANGED <<LiveClusters, Apis>>
  BY DEF ConfigReconciler, ConfigFrame, ConfigControllerNext, ConfigStep, ConfigDequeue, ConfigGet,
         ConfigUnannotate, ConfigFinalize, ConfigAdvertise, ConfigUnadvertise, ConfigRelease,
         ConfigFinish, platformVars, LiveClusters, Apis, ApiState
<1>3. configWorker.pc \notin Outside => rwlock.readers = {}
  BY DEF LockInv, WriterOK
<1>4. ASSUME configWorker.pc # "idle", rwlock.readers = {}, Unlock,
             UNCHANGED profiles \/ UnsetProfile(n)
                \/ (SetProfile(n, configWorker.profile) /\ configWorker.profile # NoProfile)
      PROVE  NeighbourhoodStep
  <2>1. UNCHANGED profiles => SetProfile(n, profiles[n])
    BY <1>1, <1>4 DEF RuntimeType, SetProfile
  <2>2. n \in Configs /\ profiles[n] \in Locations \cup {NoProfile}
          /\ configWorker.profile \in Locations \cup {NoProfile}
    BY <1>1, <1>4 DEF RuntimeType, ConfigControllerType
  <2>3. n \notin Relocatable => /\ AtHome(n, profiles[n])
                                /\ AtHome(n, NoProfile)
                                /\ AtHome(n, configWorker.profile)
    BY <1>1, <2>2 DEF HomeProfiles, AtHome
  <2>4. QED
    BY <1>2, <1>4, <2>1, <2>2, <2>3, PublishSeen DEF UnsetProfile
<1>5. ASSUME configWorker.pc # "idle", rwlock.readers = {}, NEW failed, ConcludeWithoutObject(failed)
      PROVE  NeighbourhoodStep
  <2>1. Unlock /\ (UNCHANGED profiles \/ UnsetProfile(n))
    BY <1>5 DEF ConcludeWithoutObject
  <2>2. QED
    BY <1>4, <1>5, <2>1
<1>6. ASSUME UNCHANGED <<rwlock, profiles>> PROVE NeighbourhoodStep
  BY <1>2, <1>6, Unseen DEF MappedLock
<1>7. ASSUME NEW m \in Configs, ConfigDequeue(m) PROVE NeighbourhoodStep
  <2>1. /\ MappedLock.writer = "free"
        /\ MappedLock' = [MappedLock EXCEPT !.writer = "announced"]
        /\ UNCHANGED profiles
    BY <1>1, <1>7 DEF ConfigDequeue, AnnounceWriter, RuntimeType, MappedLock
  <2>2. AccessNeighbours!Announce
    BY <1>2, <2>1 DEF AccessNeighbours!Announce, AccessNeighbours!Runtime!AnnounceWriter,
       MappedLock, LiveClusters, Apis
  <2>3. QED
    BY <2>2 DEF NeighbourhoodStep, AccessNeighbours!NeighboursNext, AccessNeighbours!NeighboursStep
<1>8. ASSUME ConfigGet PROVE NeighbourhoodStep
  <2>1. configWorker.pc # "idle" /\ LockAvailable
    BY <1>8 DEF ConfigGet
  <2>2. \/ \E failed : ConcludeWithoutObject(failed)
        \/ Lock /\ UNCHANGED profiles
    BY <1>8 DEF ConfigGet
  <2>3. CASE Lock /\ UNCHANGED profiles
    <3>1. UNCHANGED MappedLock
      BY <1>1, <2>3 DEF Lock, LockAvailable, RuntimeType, MappedLock
    <3>2. QED
      BY <1>2, <2>3, <3>1, Unseen
  <2>4. QED
    BY <1>5, <2>1, <2>2, <2>3 DEF LockAvailable
<1>9. ASSUME ConfigUnannotate \/ ConfigRelease PROVE NeighbourhoodStep
  <2>1. configWorker.pc # "idle" /\ rwlock.readers = {}
    BY <1>3, <1>9 DEF ConfigUnannotate, ConfigRelease, Outside
  <2>2. \/ \E failed : ConcludeWithoutObject(failed)
        \/ UNCHANGED <<rwlock, profiles>>
    BY <1>9 DEF ConfigUnannotate, ConfigRelease, runtimeVars
  <2>3. QED
    BY <1>5, <1>6, <2>1, <2>2
<1>10. ASSUME ConfigFinalize \/ ConfigAdvertise \/ ConfigUnadvertise PROVE NeighbourhoodStep
  BY <1>6, <1>10 DEF ConfigFinalize, ConfigAdvertise, ConfigUnadvertise, runtimeVars
<1>11. ASSUME ConfigFinish PROVE NeighbourhoodStep
  <2>1. configWorker.pc # "idle" /\ rwlock.readers = {}
    BY <1>3, <1>11 DEF ConfigFinish, Outside
  <2>2. Unlock /\ (UNCHANGED profiles
           \/ (SetProfile(n, configWorker.profile) /\ configWorker.profile # NoProfile))
    BY <1>11 DEF ConfigFinish
  <2>3. QED
    BY <1>4, <2>1, <2>2
<1>12. QED
  BY <1>7, <1>8, <1>9, <1>10, <1>11 DEF ConfigReconciler, ConfigControllerNext, ConfigStep

\* Of other readers the AccessRequest controller sees itself only.
LEMMA OtherReconcilerSeen == ASSUME OrphanInv, OtherReconciler PROVE NeighbourhoodStep
<1>1. UNCHANGED <<LiveClusters, Apis, profiles>>
  BY OtherReconcilerEffect DEF ReaderFrame, platformVars, LiveClusters, Apis, ApiState
<1>2. RuntimeType
  BY DEF OrphanInv, TypeInv, TypeOK
<1>3. PICK r \in OtherReaders : ReaderEnters(r) \/ ReaderLeaves(r)
  BY OtherReconcilerEffect
<1>4. CASE r # "AccessRequest"
  <2>1. UNCHANGED MappedLock
    BY <1>2, <1>3, <1>4 DEF ReaderEnters, ReaderLeaves, RLock, RUnlock, RuntimeType, MappedLock
  <2>2. QED
    BY <1>1, <2>1, Unseen
<1>5. CASE r = "AccessRequest" /\ ReaderEnters(r)
  <2>1. /\ MappedLock.writer = "free"
        /\ MappedLock' = [MappedLock EXCEPT !.readers = @ \cup {"AccessRequest"}]
    BY <1>2, <1>5 DEF ReaderEnters, RLock, RuntimeType, MappedLock
  <2>2. AccessNeighbours!ReaderEnters
    BY <1>1, <2>1 DEF AccessNeighbours!ReaderEnters, AccessNeighbours!Runtime!RLock, MappedLock,
       LiveClusters, Apis
  <2>3. QED
    BY <2>2 DEF NeighbourhoodStep, AccessNeighbours!NeighboursNext
<1>6. CASE r = "AccessRequest" /\ ReaderLeaves(r)
  <2>1. MappedLock' = [MappedLock EXCEPT !.readers = @ \ {"AccessRequest"}]
    BY <1>2, <1>6 DEF ReaderLeaves, RUnlock, RuntimeType, MappedLock
  <2>2. AccessNeighbours!ReaderLeaves
    BY <1>1, <2>1 DEF AccessNeighbours!ReaderLeaves, AccessNeighbours!Runtime!RUnlock, MappedLock,
       LiveClusters, Apis
  <2>3. QED
    BY <2>2 DEF NeighbourhoodStep, AccessNeighbours!NeighboursNext
<1>7. QED
  BY <1>3, <1>4, <1>5, <1>6

\* A restart forgets the profiles and the lock.
LEMMA RestartSeen == ASSUME Restart PROVE NeighbourhoodStep
<1>1. AccessNeighbours!Forget
  BY DEF Restart, platformVars, NewRwlock, NewProfiles, AccessNeighbours!Forget,
     AccessNeighbours!Runtime!NewRwlock, AccessNeighbours!Runtime!NewProfiles, ApiState
<1>2. QED
  BY <1>1 DEF NeighbourhoodStep, AccessNeighbours!NeighboursNext,
     MappedLock, LiveClusters, Apis

-----------------------------------------------------------------------------
\* What AccessSystem assumes of the rest of the provider is true of it: profiles
\* change only while no reader is inside, a GKE cluster is made only for an existing
\* Cluster with the loaded profile, and a Cluster goes only after its GKE cluster.
THEOREM NeighboursImplemented == Spec => AccessAssumptionsMet
<1>1. Init => AccessNeighbours!NeighboursInit
  BY TopologyAssumption DEF Init, RuntimeInit, NewRwlock, NewProfiles, PlatformInit, NoCluster,
     GKEInit, AccessNeighbours!NeighboursInit, AccessNeighbours!Runtime!RuntimeInit,
     AccessNeighbours!Runtime!NewRwlock, AccessNeighbours!Runtime!NewProfiles, ApiState
<1>2. OrphanInv /\ LockInv /\ [Next]_vars => NeighbourhoodStep
  <2> SUFFICES ASSUME OrphanInv, LockInv, [Next]_vars PROVE NeighbourhoodStep
    OBVIOUS
  <2>1. CASE UNCHANGED vars
    BY <2>1, Unseen DEF vars, platformVars, processVars, runtimeVars, MappedLock, LiveClusters,
       Apis, ApiState
  <2>2. QED
    BY <2>1, UserSeen, CloudSeen, ConfigReconcilerSeen, ClusterReconcilerSeen,
       OtherReconcilerSeen, RestartSeen DEF Next
<1>3. NeighbourhoodStep <=> [AccessNeighbours!NeighboursNext]_(AccessNeighbours!neighbourVars)
  BY DEF NeighbourhoodStep, AccessNeighbours!neighbourVars, MappedLock, LiveClusters, Apis
<1>4. QED
  BY <1>1, <1>2, <1>3, OrphanInvAlways, LockInvAlways, PTL
     DEF Spec, AccessAssumptionsMet, AccessNeighbours!NeighboursSpec

-----------------------------------------------------------------------------
(***************************************************************************)
(* No Cluster is forgotten, as long as nothing happens that makes the      *)
(* provider forget one: a restart, a lost answer or event, a ProviderConfig *)
(* that is ignored for a while, another controller's finalizer.            *)
(***************************************************************************)
Attentive ==
    /\ MaxCrashes = 0
    /\ "lost" \notin FaultModes /\ "dropped" \notin FaultModes
    /\ "ignore" \notin ConfigOps
    /\ Foreign = {}

HeededConfigs == \A n \in Configs : config[n].op # "ignore"

\* Cluster c has to be reconciled if its profile is loaded.
Wanted(c) == cluster[c].exists /\ cluster[c].op # "ignore"

\* The ProviderConfig pass has all but loaded the profile of n.
Loading(n) ==
    configWorker.pc = "finish" /\ configWorker.key = n /\ configWorker.profile # NoProfile

\* A ClusterProfile is advertised without a loaded profile only at the end of the pass
\* that advertised it, and its Clusters are due: those ignored before come back.
UnloadedAwaited ==
    \A n \in Configs :
        profiles[n] = NoProfile /\ clusterProfile[n] # "absent" =>
            /\ Loading(n)
            /\ \A c \in Clusters : ProfileOf[c] = n /\ Wanted(c) => ClusterPending(c)

\* What a pass did not see of Cluster c brings another one.
Noted(c) == c \in clusterQueue \/ ~Wanted(c)

\* A pass that provisions knows of no deletion, or that is noted; one that will not be
\* repeated has found the GKE cluster running.
PassMindful ==
    LET w == clusterWorker
        unmarked == ~w.deleting /\ ~cluster[w.key].deleting IN
    /\ w.pc = "idle" => w.key = Nobody
    /\ w.pc \in {"finalize", "read", "create", "label"} => Noted(w.key) \/ unmarked
    /\ w.pc = "status" /\ ~w.again => Noted(w.key) \/ (unmarked /\ w.ready)

CareInv == HeededConfigs /\ UnloadedAwaited /\ PassMindful /\ NoClusterForgotten

\* What CareInv rests on.
ProviderInv == OrphanInv /\ LifeInv /\ LockInv /\ AdvertInv /\ TrackInv /\ MemoryInv

LEMMA ProviderTyped ==
    ASSUME ProviderInv
    PROVE  /\ TypeInv /\ ConfigControllerType /\ ClusterControllerType
           /\ config \in [Configs -> ConfigObject] /\ cluster \in [Clusters -> ClusterObject]
           /\ clusterProfile \in [Configs -> ProfileStates]
           /\ profiles \in [Configs -> Locations \cup {NoProfile}]
  BY DEF ProviderInv, OrphanInv, TypeInv, TypeOK, PlatformType, RuntimeType

\* ProviderConfigs are stored with an annotation that lets them be reconciled.
LEMMA StoreConfigHeeded ==
    ASSUME ProviderInv, HeededConfigs, NEW n \in Configs, NEW obj \in ConfigObject,
           obj.op # "ignore", StoreConfig(n, obj)
    PROVE  HeededConfigs'
<1>1. NoConfig(n).op # "ignore"
  BY DEF NoConfig
<1>2. QED
  BY <1>1, ProviderTyped, StoreConfigEffect DEF HeededConfigs

\* Whatever the watch lets pass by leaves a Cluster that is not to be ignored as
\* marked as it was.
LEMMA UnseenClusterChange ==
    ASSUME NEW c \in Clusters, c \notin ClusterEvents, Wanted(c)',
           cluster \in [Clusters -> ClusterObject], cluster' \in [Clusters -> ClusterObject]
    PROVE  Wanted(c) /\ cluster'[c].deleting = cluster[c].deleting
  BY DEF ClusterEvents, PassesFilter, Wanted, ClusterObject

\* The phase is the Cluster controller's.
LEMMA UserKeepsPhase ==
    ASSUME ProviderInv, User, NEW c \in Clusters, cluster[c].exists, cluster'[c].exists
    PROVE  cluster'[c].phase = cluster[c].phase
<1>1. cluster \in [Clusters -> ClusterObject] /\ ~NoCluster.exists
  BY ProviderTyped DEF NoCluster
<1>2. ASSUME NEW d \in Clusters, NEW obj \in ClusterObject, obj.phase = cluster[d].phase,
             StoreCluster(d, obj)
      PROVE  cluster'[c].phase = cluster[c].phase
  BY <1>1, <1>2, StoreClusterEffect
<1>3. ASSUME NEW d \in Clusters, CreateCluster(d) PROVE cluster'[c].phase = cluster[c].phase
  <2> DEFINE obj == [NoCluster EXCEPT !.exists = TRUE]
  <2>1. obj \in ClusterObject
    BY DEF NoCluster, ClusterObject, Operations
  <2>2. d # c /\ StoreCluster(d, obj)
    BY <1>3 DEF CreateCluster
  <2> HIDE DEF obj
  <2>3. QED
    BY <1>1, <2>1, <2>2, StoreClusterEffect
<1>4. ASSUME NEW d \in Clusters, DeleteCluster(d) PROVE cluster'[c].phase = cluster[c].phase
  <2>1. LET obj == [cluster[d] EXCEPT !.deleting = TRUE]
        IN  obj \in ClusterObject /\ obj.phase = cluster[d].phase
    BY <1>1 DEF ClusterObject
  <2>2. QED
    BY <1>2, <1>4, <2>1 DEF DeleteCluster
<1>5. ASSUME NEW d \in Clusters, NEW op \in ClusterOps \cup {"none"}, AnnotateCluster(d, op)
      PROVE  cluster'[c].phase = cluster[c].phase
  <2>1. LET obj == [cluster[d] EXCEPT !.op = op]
        IN  obj \in ClusterObject /\ obj.phase = cluster[d].phase
    BY <1>1, OperationsAssumption DEF ClusterObject, Operations
  <2>2. QED
    BY <1>2, <1>5, <2>1 DEF AnnotateCluster
<1>6. ASSUME NEW d \in Clusters, NEW f \in Foreign, AddForeign(d, f) \/ RemoveForeign(d, f)
      PROVE  cluster'[c].phase = cluster[c].phase
  <2>1. ASSUME NEW others \in SUBSET Foreign
        PROVE  LET obj == [cluster[d] EXCEPT !.foreign = others]
               IN  obj \in ClusterObject /\ obj.phase = cluster[d].phase
    BY <1>1 DEF ClusterObject
  <2>2. cluster[d].foreign \cup {f} \in SUBSET Foreign /\ cluster[d].foreign \ {f} \in SUBSET Foreign
    BY <1>1 DEF ClusterObject
  <2>3. QED
    BY <1>2, <1>6, <2>1, <2>2 DEF AddForeign, RemoveForeign
<1>7. ASSUME UNCHANGED cluster PROVE cluster'[c].phase = cluster[c].phase
  BY <1>7
<1>8. QED
  BY <1>3, <1>4, <1>5, <1>6, <1>7
     DEF User, UserNext, CreateConfig, Relocate, AnnotateConfig, DeleteConfig

\* What users do: the watches see it.
LEMMA UserCares ==
    ASSUME Attentive, ProviderInv, ProviderInv', CareInv, User
    PROVE  CareInv'
<1>1. /\ UNCHANGED <<configWorker, clusterWorker, profiles, clusterProfile, profileEvents>>
      /\ clusterQueue \cup ClusterEvents \subseteq clusterQueue'
  BY DEF User, UserNext, runtimeVars
<1>2. /\ config \in [Configs -> ConfigObject] /\ cluster \in [Clusters -> ClusterObject]
      /\ cluster' \in [Clusters -> ClusterObject]
  BY ProviderTyped DEF ProviderInv, OrphanInv, TypeInv, TypeOK, PlatformType
<1>3. \A c \in Clusters : c \notin clusterQueue' /\ Wanted(c)' =>
          /\ Wanted(c) /\ c \notin clusterQueue
          /\ cluster'[c].deleting = cluster[c].deleting
          /\ cluster'[c].phase = cluster[c].phase
  BY <1>1, <1>2, UnseenClusterChange, UserKeepsPhase DEF Wanted
<1>4. HeededConfigs'
  <2>1. ASSUME NEW n \in Configs, NEW l \in Locations, CreateConfig(n, l) PROVE HeededConfigs'
    <3> DEFINE obj == [NoConfig(n) EXCEPT !.exists = TRUE, !.location = l]
    <3>1. obj \in ConfigObject /\ obj.op # "ignore"
      BY DEF NoConfig, ConfigObject, Operations
    <3>2. StoreConfig(n, obj)
      BY <2>1 DEF CreateConfig
    <3> HIDE DEF obj
    <3>3. QED
      BY <3>1, <3>2, StoreConfigHeeded DEF CareInv
  <2>2. ASSUME NEW n \in Configs, NEW l \in Locations, Relocate(n, l) PROVE HeededConfigs'
    <3> DEFINE obj == [config[n] EXCEPT !.location = l]
    <3>1. obj \in ConfigObject /\ obj.op # "ignore"
      BY <1>2 DEF ConfigObject, CareInv, HeededConfigs
    <3>2. StoreConfig(n, obj)
      BY <2>2 DEF Relocate
    <3> HIDE DEF obj
    <3>3. QED
      BY <3>1, <3>2, StoreConfigHeeded DEF CareInv
  <2>3. ASSUME NEW n \in Configs, NEW op \in ConfigOps \cup {"none"}, AnnotateConfig(n, op)
        PROVE  HeededConfigs'
    <3> DEFINE obj == [config[n] EXCEPT !.op = op]
    <3>1. op # "ignore" /\ op \in Operations
      BY OperationsAssumption DEF Attentive, Operations
    <3>2. obj \in ConfigObject /\ obj.op # "ignore"
      BY <1>2, <3>1 DEF ConfigObject
    <3>3. StoreConfig(n, obj)
      BY <2>3 DEF AnnotateConfig
    <3> HIDE DEF obj
    <3>4. QED
      BY <3>2, <3>3, StoreConfigHeeded DEF CareInv
  <2>4. ASSUME NEW n \in Configs, DeleteConfig(n) PROVE HeededConfigs'
    <3> DEFINE obj == [config[n] EXCEPT !.deleting = TRUE]
    <3>1. obj \in ConfigObject /\ obj.op # "ignore"
      BY <1>2 DEF ConfigObject, CareInv, HeededConfigs
    <3>2. StoreConfig(n, obj)
      BY <2>4 DEF DeleteConfig
    <3> HIDE DEF obj
    <3>3. QED
      BY <3>1, <3>2, StoreConfigHeeded DEF CareInv
  <2>5. ASSUME UNCHANGED config PROVE HeededConfigs'
    BY <2>5 DEF CareInv, HeededConfigs
  <2>6. QED
    BY <2>1, <2>2, <2>3, <2>4, <2>5
       DEF User, UserNext, CreateCluster, DeleteCluster, AnnotateCluster, AddForeign, RemoveForeign
<1>5. UnloadedAwaited'
  BY <1>1, <1>3 DEF CareInv, UnloadedAwaited, Loading, ClusterPending
<1>6. PassMindful'
  <2> DEFINE c == clusterWorker.key
  <2>1. clusterWorker.pc # "idle" => c \in Clusters
    BY ProviderTyped DEF TypeInv, KeysOK
  <2>2. c \in Clusters /\ ~Noted(c)' => ~Noted(c) /\ cluster'[c].deleting = cluster[c].deleting
    BY <1>1, <1>3 DEF Noted
  <2>3. QED
    BY <1>1, <2>1, <2>2 DEF CareInv, PassMindful
<1>7. NoClusterForgotten'
  BY <1>1, <1>3 DEF CareInv, NoClusterForgotten, ClusterPending, Wanted
<1>8. QED
  BY <1>4, <1>5, <1>6, <1>7 DEF CareInv

\* The ProviderConfig controller loads a profile in the pass that advertised it, and
\* unloads none that is advertised.
LEMMA ConfigReconcilerLoads ==
    ASSUME Attentive, ProviderInv, CareInv, ConfigReconciler
    PROVE  /\ HeededConfigs' /\ profileEvents \subseteq profileEvents'
           /\ \A n \in Configs : profiles[n] = NoProfile /\ profiles'[n] # NoProfile =>
                  clusterProfile[n] # "absent"
           /\ \A n \in Configs : profiles'[n] = NoProfile /\ clusterProfile'[n] # "absent" =>
                  Loading(n)' /\ n \in profileEvents'
<1> DEFINE n == configWorker.key
           Loads == \A m \in Configs : profiles[m] = NoProfile /\ profiles'[m] # NoProfile =>
                        clusterProfile[m] # "absent"
           Unloads == \A m \in Configs : profiles'[m] = NoProfile /\ clusterProfile'[m] # "absent" =>
                          Loading(m)' /\ m \in profileEvents'
           Goal == HeededConfigs' /\ profileEvents \subseteq profileEvents' /\ Loads /\ Unloads
<1>1. /\ ConfigControllerType
      /\ config \in [Configs -> ConfigObject] /\ clusterProfile \in [Configs -> ProfileStates]
      /\ profiles \in [Configs -> Locations \cup {NoProfile}]
      /\ HeededConfigs /\ UnloadedAwaited
      /\ configWorker.pc # "idle" => n \in Configs
  BY ProviderTyped DEF CareInv, TypeInv, KeysOK
<1>2. ASSUME configWorker.pc # "finish", NEW m \in Configs, profiles[m] = NoProfile
      PROVE  clusterProfile[m] = "absent"
  BY <1>1, <1>2 DEF UnloadedAwaited, Loading
<1>3. ASSUME UNCHANGED config PROVE HeededConfigs'
  BY <1>1, <1>3 DEF HeededConfigs
<1>4. ASSUME configWorker.pc \notin {"idle", "finish"},
             UNCHANGED <<profiles, clusterProfile, profileEvents>> \/
                (/\ UNCHANGED <<clusterProfile, profileEvents>> /\ UnsetProfile(n)
                 /\ clusterProfile[n] = "absent")
      PROVE  profileEvents \subseteq profileEvents' /\ Loads /\ Unloads
  <2>1. \A m \in Configs : profiles'[m] = profiles[m]
                             \/ (profiles'[m] = NoProfile /\ clusterProfile[m] = "absent")
    BY <1>1, <1>4 DEF UnsetProfile, SetProfile
  <2>2. QED
    BY <1>2, <1>4, <2>1
<1>5. ASSUME configWorker.pc \notin {"idle", "finish"}, NEW failed, ConcludeWithoutObject(failed),
             UNCHANGED <<clusterProfile, profileEvents>>,
             failed = TRUE \/ clusterProfile[n] = "absent"
      PROVE  profileEvents \subseteq profileEvents' /\ Loads /\ Unloads
  BY <1>4, <1>5 DEF ConcludeWithoutObject
<1>6. ASSUME NEW m \in Configs, ConfigDequeue(m) PROVE Goal
  <2>1. /\ UNCHANGED <<config, profiles, clusterProfile, profileEvents>>
        /\ configWorker.pc = "idle"
    BY <1>6 DEF ConfigDequeue, platformVars
  <2>2. QED
    BY <1>2, <1>3, <2>1
<1>7. ASSUME ConfigGet PROVE Goal
  <2>1. /\ UNCHANGED <<config, clusterProfile, profileEvents>>
        /\ configWorker.pc = "locking" /\ n \in Configs
    BY <1>1, <1>7 DEF ConfigGet, platformVars
  <2>2. \/ UNCHANGED profiles
        \/ ConcludeWithoutObject(TRUE)
        \/ ConcludeWithoutObject(FALSE) /\ (~config[n].exists \/ config[n].op = "ignore")
    BY <1>7 DEF ConfigGet, ReadOutcomes
  <2>3. ~config[n].exists => clusterProfile[n] = "absent"
    BY <2>1 DEF ProviderInv, AdvertInv, AdvertisedGuarded, OwnConfigExists
  <2>4. config[n].op # "ignore"
    BY <1>1, <2>1 DEF HeededConfigs
  <2>5. QED
    BY <1>3, <1>4, <1>5, <2>1, <2>2, <2>3, <2>4
<1>8. ASSUME ConfigUnannotate PROVE Goal
  <2> DEFINE new == [config[n] EXCEPT !.op = "none"]
  <2>1. /\ UNCHANGED <<clusterProfile, profileEvents>>
        /\ configWorker.pc = "unannotate" /\ n \in Configs
        /\ UNCHANGED config \/ StoreConfig(n, new)
        /\ UNCHANGED profiles \/ ConcludeWithoutObject(TRUE)
    BY <1>1, <1>8 DEF ConfigUnannotate
  <2>2. new \in ConfigObject /\ new.op # "ignore"
    BY <1>1, <2>1 DEF ConfigObject, Operations
  <2> HIDE DEF new
  <2>3. HeededConfigs'
    BY <1>1, <1>3, <2>1, <2>2, StoreConfigHeeded
  <2>4. QED
    BY <1>4, <1>5, <2>1, <2>3
<1>9. ASSUME ConfigFinalize PROVE Goal
  <2> DEFINE new == [config[n] EXCEPT !.own = TRUE]
  <2>1. /\ UNCHANGED <<profiles, clusterProfile, profileEvents>>
        /\ configWorker.pc = "finalize" /\ n \in Configs
        /\ UNCHANGED config \/ StoreConfig(n, new)
    BY <1>1, <1>9 DEF ConfigFinalize, runtimeVars
  <2>2. new \in ConfigObject /\ new.op # "ignore"
    BY <1>1, <2>1 DEF ConfigObject, HeededConfigs
  <2> HIDE DEF new
  <2>3. HeededConfigs'
    BY <1>1, <1>3, <2>1, <2>2, StoreConfigHeeded
  <2>4. QED
    BY <1>4, <2>1, <2>3
<1>10. ASSUME ConfigAdvertise PROVE Goal
  <2>1. /\ UNCHANGED <<config, profiles>> /\ configWorker.pc = "advertise" /\ n \in Configs
        /\ profileEvents' = profileEvents \cup {p \in {n} : clusterProfile'[p] # clusterProfile[p]}
        /\ \A m \in Configs \ {n} : clusterProfile'[m] = clusterProfile[m]
    BY <1>1, <1>10 DEF ConfigAdvertise, runtimeVars
  <2>2. PICK outcome \in WriteOutcomes :
            /\ Write(outcome) \/ outcome \in {"ok", "refused"}
            /\ ~Applied(outcome) => UNCHANGED clusterProfile
            /\ outcome = "ok" =>
                  Return([configWorker EXCEPT !.profile = configWorker.location], FALSE)
    BY <1>10 DEF ConfigAdvertise
  <2>3. outcome # "lost"
    BY <2>2 DEF Attentive, Write, Fault
  <2>4. ASSUME NEW m, m = n PROVE UNCHANGED clusterProfile \/ Loading(m)'
    <3>1. configWorker.location \in Locations
      BY <2>1 DEF ProviderInv, TrackInv, ReadConfig
    <3>2. outcome = "ok" => Loading(m)'
      BY <1>1, <2>2, <2>4, <3>1, AbsenceAssumption DEF Return, Loading, ConfigControllerType
    <3>3. QED
      BY <2>2, <2>3, <3>2 DEF WriteOutcomes, Applied
  <2>5. Unloads
    <3>1. SUFFICES ASSUME NEW m \in Configs, profiles'[m] = NoProfile, clusterProfile'[m] # "absent"
                   PROVE  Loading(m)' /\ m \in profileEvents'
      OBVIOUS
    <3>2. clusterProfile[m] = "absent"
      BY <1>2, <2>1, <3>1
    <3>3. m = n
      BY <2>1, <3>1, <3>2
    <3>4. QED
      BY <2>1, <2>4, <3>1, <3>2, <3>3
  <2>6. QED
    BY <1>3, <2>1, <2>5
<1>11. ASSUME ConfigUnadvertise PROVE Goal
  <2>1. /\ UNCHANGED <<config, profiles>> /\ configWorker.pc = "unadvertise"
        /\ profileEvents \subseteq profileEvents'
        /\ \A m \in Configs : clusterProfile'[m] \in {clusterProfile[m], "absent"}
    BY <1>1, <1>11 DEF ConfigUnadvertise, runtimeVars
  <2>2. QED
    BY <1>2, <1>3, <2>1
<1>12. ASSUME ConfigRelease PROVE Goal
  <2> DEFINE new == [config[n] EXCEPT !.own = FALSE]
  <2>1. /\ UNCHANGED <<clusterProfile, profileEvents>>
        /\ configWorker.pc = "release" /\ n \in Configs
        /\ UNCHANGED config \/ StoreConfig(n, new)
        /\ UNCHANGED profiles \/ ConcludeWithoutObject(FALSE)
    BY <1>1, <1>12 DEF ConfigRelease, runtimeVars
  <2>2. new \in ConfigObject /\ new.op # "ignore"
    BY <1>1, <2>1 DEF ConfigObject, HeededConfigs
  <2> HIDE DEF new
  <2>3. HeededConfigs'
    BY <1>1, <1>3, <2>1, <2>2, StoreConfigHeeded
  <2>4. clusterProfile[n] = "absent"
    BY <2>1 DEF ProviderInv, AdvertInv, AdvertiserGuarded
  <2>5. QED
    BY <1>4, <1>5, <2>1, <2>3, <2>4
<1>13. ASSUME ConfigFinish PROVE Goal
  <2>1. /\ UNCHANGED <<config, clusterProfile, profileEvents>>
        /\ configWorker.pc = "finish" /\ n \in Configs
        /\ IF configWorker.profile = NoProfile THEN UNCHANGED profiles
                                               ELSE SetProfile(n, configWorker.profile)
    BY <1>1, <1>13 DEF ConfigFinish, platformVars
  <2>2. \A m \in Configs \ {n} : profiles'[m] = profiles[m]
    BY <1>1, <2>1 DEF SetProfile
  <2>3. profiles'[n] = IF configWorker.profile = NoProfile THEN profiles[n] ELSE configWorker.profile
    BY <1>1, <2>1 DEF SetProfile
  <2>4. Loads
    BY <2>1, <2>2, <2>3 DEF ProviderInv, MemoryInv, PassRemembers
  <2>5. Unloads
    BY <1>1, <2>1, <2>2, <2>3 DEF UnloadedAwaited, Loading
  <2>6. QED
    BY <1>3, <2>1, <2>4, <2>5
<1>14. QED
  BY <1>6, <1>7, <1>8, <1>9, <1>10, <1>11, <1>12, <1>13
     DEF ConfigReconciler, ConfigControllerNext, ConfigStep

\* A profile that is loaded finds its Clusters due.
LEMMA ConfigReconcilerCares ==
    ASSUME Attentive, ProviderInv, CareInv, ConfigReconciler
    PROVE  CareInv'
<1>1. UNCHANGED <<cluster, clusterQueue, clusterWorker>>
  BY DEF ConfigReconciler, ConfigFrame, ConfigControllerNext, ConfigStep, ConfigDequeue, ConfigGet,
         ConfigUnannotate, ConfigFinalize, ConfigAdvertise, ConfigUnadvertise, ConfigRelease,
         ConfigFinish, platformVars
<1>2. \A c \in Clusters : ClusterPending(c) => ClusterPending(c)'
  BY <1>1, ConfigReconcilerLoads DEF ClusterPending
<1>3. UnloadedAwaited'
  BY ConfigReconcilerLoads DEF UnloadedAwaited, ClusterPending
<1>4. PassMindful'
  BY <1>1 DEF CareInv, PassMindful, Noted, Wanted
<1>5. NoClusterForgotten'
  <2>1. SUFFICES ASSUME NEW c \in Clusters, Wanted(c), profiles'[ProfileOf[c]] # NoProfile
                 PROVE  ClusterPending(c) \/ (cluster[c].phase = "Ready" /\ ~cluster[c].deleting)
    BY <1>1, <1>2 DEF NoClusterForgotten, Wanted
  <2>2. ProfileOf[c] \in Configs
    BY TopologyAssumption
  <2>3. CASE profiles[ProfileOf[c]] # NoProfile
    BY <2>1, <2>3 DEF CareInv, NoClusterForgotten, Wanted
  <2>4. CASE profiles[ProfileOf[c]] = NoProfile
    BY <2>1, <2>2, <2>4, ConfigReconcilerLoads DEF CareInv, UnloadedAwaited
  <2>5. QED
    BY <2>3, <2>4
<1>6. QED
  BY <1>3, <1>4, <1>5, ConfigReconcilerLoads DEF CareInv

\* A pass that goes on has its Cluster pending, and touches no other.
LEMMA PassKeepsCaring ==
    ASSUME CareInv, UNCHANGED <<profiles, profileEvents>>,
           clusterWorker'.key = clusterWorker.key, clusterQueue \subseteq clusterQueue',
           \A d \in Clusters \ {clusterWorker.key} : cluster'[d] = cluster[d]
    PROVE  NoClusterForgotten'
  BY DEF CareInv, NoClusterForgotten, ClusterPending

\* A pass that ends has left its Cluster Ready, if it is not queued again.
LEMMA PassCares ==
    ASSUME CareInv, UNCHANGED <<profiles, profileEvents>>,
           NEW c \in Clusters, c = clusterWorker.key, clusterWorker' = IdleClusterWorker,
           clusterQueue \subseteq clusterQueue',
           \A d \in Clusters \ {c} : cluster'[d] = cluster[d],
           \/ Noted(c)' \/ profiles[ProfileOf[c]] = NoProfile
           \/ cluster'[c].phase = "Ready" /\ ~cluster'[c].deleting
    PROVE  PassMindful' /\ NoClusterForgotten'
<1>1. PassMindful'
  BY DEF IdleClusterWorker, PassMindful
<1>2. ASSUME NEW d \in Clusters, d # c, ClusterPending(d) PROVE ClusterPending(d)'
  BY <1>2 DEF ClusterPending
<1>3. NoClusterForgotten'
  BY <1>2 DEF CareInv, NoClusterForgotten, ClusterPending, Noted, Wanted
<1>4. QED
  BY <1>1, <1>3

\* While the Cluster worker is inside, and when it enters, all advertised profiles
\* are loaded.
LEMMA InsideAllLoaded ==
    ASSUME ProviderInv, CareInv, clusterWorker.pc \notin Outside \/ rwlock.writer = "free"
    PROVE  \A n \in Configs : profiles[n] = NoProfile => clusterProfile[n] = "absent"
<1>1. configWorker.pc # "finish"
  BY DEF ProviderInv, LockInv, WriterOK, ReaderOK, Outside
<1>2. QED
  BY <1>1 DEF CareInv, UnloadedAwaited, Loading

\* The request is handed over to a handler, or dropped as the profile is not loaded.
LEMMA HandleCares ==
    ASSUME Attentive, ProviderInv, CareInv, UNCHANGED <<profiles, profileEvents>>,
           NEW c \in Clusters, c = clusterWorker.key,
           clusterWorker.pc \in {"locking", "unannotate"}, Handle(cluster[c]),
           \A d \in Clusters \ {c} : cluster'[d] = cluster[d],
           cluster'[c].deleting => cluster[c].deleting
    PROVE  PassMindful' /\ NoClusterForgotten'
<1>1. ClusterControllerType /\ cluster[c] \in ClusterObject
  BY ProviderTyped
<1>2. CASE profiles[ProfileOf[c]] = NoProfile
  BY <1>2, PassCares DEF Handle, GetProfile, Leave
<1>3. CASE profiles[ProfileOf[c]] # NoProfile
  <2> DEFINE obj == cluster[c]
  <2>1. clusterWorker' = Handler(clusterWorker, obj) /\ clusterQueue \subseteq clusterQueue'
    BY <1>3 DEF Handle, GetProfile
  <2>2. obj.foreign = {}
    BY <1>1 DEF Attentive, ClusterObject
  <2>3. /\ clusterWorker'.key = c /\ clusterWorker'.deleting = obj.deleting
        /\ \/ clusterWorker'.pc = "readForDelete"
           \/ clusterWorker'.pc \in {"read", "finalize"} /\ ~obj.deleting
    BY <1>1, <2>1, <2>2 DEF Handler, HandleDelete, Snapshot, ClusterControllerType
  <2>4. PassMindful'
    BY <1>1, <2>3 DEF PassMindful, ClusterObject
  <2>5. QED
    BY <2>1, <2>3, <2>4, PassKeepsCaring
<1>4. QED
  BY <1>2, <1>3

\* A pass that reports an error, or is to be called again, is mindful of its Cluster.
LEMMA ReportCares ==
    ASSUME ProviderInv, CareInv, UNCHANGED <<profiles, profileEvents>>,
           NEW ready, Report(ready, TRUE), clusterQueue \subseteq clusterQueue',
           \A d \in Clusters \ {clusterWorker.key} : cluster'[d] = cluster[d]
    PROVE  PassMindful' /\ NoClusterForgotten'
<1>1. /\ clusterWorker'.pc = "status" /\ clusterWorker'.again
      /\ clusterWorker'.key = clusterWorker.key
  BY ProviderTyped DEF Report, ClusterControllerType
<1>2. QED
  BY <1>1, PassKeepsCaring DEF PassMindful

\* Steps that leave the Clusters and the runtime configuration alone.
LEMMA CallsCare ==
    ASSUME ProviderInv, CareInv,
           ClusterRead \/ ClusterCreate \/ ClusterReadForDelete \/ ClusterDelete
    PROVE  PassMindful' /\ NoClusterForgotten'
<1> DEFINE w == clusterWorker
<1>1. /\ ClusterControllerType /\ UNCHANGED <<cluster, clusterQueue, profiles, profileEvents>>
      /\ PassMindful
  BY ProviderTyped
     DEF ClusterRead, ClusterCreate, ClusterReadForDelete, ClusterDelete, configControllerVars, CareInv
<1>2. CASE \E ready : Report(ready, TRUE)
  BY <1>1, <1>2, ReportCares
<1>3. ASSUME w'.key = w.key, w'.pc \in {"release", "delete"} PROVE PassMindful' /\ NoClusterForgotten'
  BY <1>1, <1>3, PassKeepsCaring DEF PassMindful
<1>4. ASSUME w.pc = "read", w'.key = w.key, w'.deleting = w.deleting,
             w'.pc \in {"create", "label"} \/ (w'.pc = "status" /\ w'.ready)
      PROVE  PassMindful' /\ NoClusterForgotten'
  <2>1. Noted(w.key) \/ (~w.deleting /\ ~cluster[w.key].deleting)
    BY <1>1, <1>4 DEF PassMindful
  <2>2. PassMindful'
    BY <1>1, <1>4, <2>1 DEF PassMindful, Noted, Wanted
  <2>3. QED
    BY <1>1, <1>4, <2>2, PassKeepsCaring
<1>5. ClusterRead => \/ \E ready : Report(ready, TRUE)
                     \/ /\ w.pc = "read" /\ w'.key = w.key /\ w'.deleting = w.deleting
                        /\ w'.pc \in {"create", "label"} \/ (w'.pc = "status" /\ w'.ready)
  BY <1>1 DEF ClusterRead, ClusterControllerType
<1>6. ClusterReadForDelete => \/ \E ready : Report(ready, TRUE)
                              \/ w'.key = w.key /\ w'.pc \in {"release", "delete"}
  BY <1>1 DEF ClusterReadForDelete, ClusterControllerType
<1>7. ClusterCreate \/ ClusterDelete => Report(FALSE, TRUE)
  BY DEF ClusterCreate, ClusterDelete
<1>8. QED
  BY <1>2, <1>3, <1>4, <1>5, <1>6, <1>7

\* The patches in the middle of a pass: of the finalizer and of the labels.
LEMMA PatchesCare ==
    ASSUME ProviderInv, CareInv, ClusterFinalize \/ ClusterLabel
    PROVE  PassMindful' /\ NoClusterForgotten'
<1> DEFINE w == clusterWorker
           old == cluster[w.key]
           finalized == [old EXCEPT !.own = TRUE, !.foreign = w.foreign]
           labelled == [old EXCEPT !.labelled = TRUE]
<1>1. /\ ClusterControllerType /\ UNCHANGED <<clusterQueue, profiles, profileEvents>>
      /\ PassMindful /\ cluster \in [Clusters -> ClusterObject]
      /\ w.pc \in {"finalize", "label"} /\ w.key \in Clusters /\ old \in ClusterObject
  BY ProviderTyped
     DEF ClusterFinalize, ClusterLabel, configControllerVars, CareInv, TypeInv, KeysOK
<1>2. PICK new \in {finalized, labelled} : UNCHANGED cluster \/ StoreCluster(w.key, new)
  BY DEF ClusterFinalize, ClusterLabel, EnsureLabels
<1>3. new \in ClusterObject /\ new.exists = old.exists /\ new.op = old.op
      /\ new.deleting = old.deleting
  BY <1>1, <1>2 DEF ClusterObject, ClusterControllerType
<1>4. /\ \A d \in Clusters \ {w.key} : cluster'[d] = cluster[d]
      /\ cluster'[w.key] \in {old, new, NoCluster}
  BY <1>1, <1>2, <1>3, StoreClusterEffect
<1>5. /\ cluster'[w.key].deleting => old.deleting
      /\ cluster'[w.key].exists => old.exists /\ cluster'[w.key].op = old.op
  BY <1>3, <1>4 DEF NoCluster
<1>6. CASE Report(FALSE, TRUE)
  BY <1>1, <1>4, <1>6, ReportCares
<1>7. ASSUME w'.key = w.key, w'.deleting = old.deleting,
             w'.pc = "read" \/ (w'.pc = "status" /\ w'.ready)
      PROVE  PassMindful' /\ NoClusterForgotten'
  <2>1. Noted(w.key) \/ (~w.deleting /\ ~old.deleting)
    BY <1>1 DEF PassMindful
  <2>2. PassMindful'
    BY <1>1, <1>5, <1>7, <2>1 DEF PassMindful, Noted, Wanted
  <2>3. QED
    BY <1>1, <1>4, <1>7, <2>2, PassKeepsCaring
<1>8. \/ Report(FALSE, TRUE)
      \/ /\ w'.key = w.key /\ w'.deleting = old.deleting
         /\ w'.pc = "read" \/ (w'.pc = "status" /\ w'.ready)
  <2>1. finalized.deleting = old.deleting
    BY <1>1 DEF ClusterObject
  <2> HIDE DEF finalized
  <2>2. clusterWorker' = [Snapshot(w, finalized) EXCEPT !.pc = "read"] =>
            w'.key = w.key /\ w'.deleting = old.deleting /\ w'.pc = "read"
    BY <1>1, <2>1 DEF Snapshot, ClusterControllerType
  <2>3. ClusterFinalize =>
            Report(FALSE, TRUE) \/ clusterWorker' = [Snapshot(w, finalized) EXCEPT !.pc = "read"]
    BY DEF ClusterFinalize, finalized
  <2>4. ClusterLabel => \/ Report(FALSE, TRUE)
                        \/ /\ w'.key = w.key /\ w'.deleting = old.deleting
                           /\ w'.pc = "status" /\ w'.ready
    BY <1>1 DEF ClusterLabel, ClusterControllerType
  <2>5. QED
    BY <2>2, <2>3, <2>4
<1>9. QED
  BY <1>6, <1>7, <1>8

\* The steps at which a pass may end.
LEMMA EndsCare ==
    ASSUME Attentive, ProviderInv, CareInv,
           ClusterGet \/ ClusterUnannotate \/ ClusterRelease \/ ClusterStatus
    PROVE  PassMindful' /\ NoClusterForgotten'
<1> DEFINE Goal == PassMindful' /\ NoClusterForgotten'
<1>1. PICK c \in Clusters : c = clusterWorker.key
  BY ProviderTyped DEF TypeInv, KeysOK, ClusterGet, ClusterUnannotate, ClusterRelease, ClusterStatus
<1>2. /\ ClusterControllerType /\ UNCHANGED <<profiles, profileEvents>> /\ PassMindful
      /\ cluster \in [Clusters -> ClusterObject] /\ cluster[c] \in ClusterObject
  BY ProviderTyped
     DEF ClusterGet, ClusterUnannotate, ClusterRelease, ClusterStatus, configControllerVars, CareInv
<1>3. ASSUME NEW new \in ClusterObject, UNCHANGED cluster \/ StoreCluster(c, new)
      PROVE  /\ \A d \in Clusters \ {c} : cluster'[d] = cluster[d]
             /\ cluster'[c] \in {cluster[c], new, NoCluster}
             /\ UNCHANGED cluster \/ cluster'[c] = IF new.deleting /\ ~new.own /\ new.foreign = {}
                                                  THEN NoCluster ELSE new
  BY <1>2, <1>3, StoreClusterEffect
<1>4. ASSUME NEW again, Leave(again), \A d \in Clusters \ {c} : cluster'[d] = cluster[d],
             again = TRUE \/ Noted(c)' \/ profiles[ProfileOf[c]] = NoProfile
                \/ (cluster'[c].phase = "Ready" /\ ~cluster'[c].deleting)
      PROVE  Goal
  <2>1. /\ clusterWorker' = IdleClusterWorker /\ clusterQueue \subseteq clusterQueue'
        /\ again = TRUE => c \in clusterQueue'
    BY <1>1, <1>4 DEF Leave, Again
  <2>2. \/ Noted(c)' \/ profiles[ProfileOf[c]] = NoProfile
        \/ cluster'[c].phase = "Ready" /\ ~cluster'[c].deleting
    BY <1>4, <2>1 DEF Noted
  <2>3. QED
    BY <1>1, <1>2, <1>4, <2>1, <2>2, PassCares
<1>5. ASSUME ClusterGet PROVE Goal
  <2>1. UNCHANGED cluster /\ clusterWorker.pc = "locking"
    BY <1>5 DEF ClusterGet
  <2>2. \/ Handle(cluster[c])
        \/ clusterWorker' = [clusterWorker EXCEPT !.pc = "unannotate"] /\ UNCHANGED clusterQueue
        \/ Leave(TRUE)
        \/ Leave(FALSE) /\ ~Wanted(c)
    BY <1>1, <1>5 DEF ClusterGet, ReadOutcomes, Wanted
  <2>3. CASE Handle(cluster[c])
    BY <1>1, <1>2, <2>1, <2>3, HandleCares
  <2>4. CASE clusterWorker' = [clusterWorker EXCEPT !.pc = "unannotate"] /\ UNCHANGED clusterQueue
    <3>1. clusterWorker'.pc = "unannotate" /\ clusterWorker'.key = clusterWorker.key
      BY <1>2, <2>4 DEF ClusterControllerType
    <3>2. QED
      BY <1>2, <2>1, <2>4, <3>1, PassKeepsCaring DEF PassMindful
  <2>5. ~Wanted(c) => Noted(c)'
    BY <2>1 DEF Noted, Wanted
  <2>6. QED
    BY <1>4, <2>1, <2>2, <2>3, <2>4, <2>5
<1>6. ASSUME ClusterUnannotate PROVE Goal
  <2> DEFINE new == [cluster[c] EXCEPT !.op = "none"]
  <2>1. /\ UNCHANGED cluster \/ StoreCluster(c, new)
        /\ Handle(cluster[c]) \/ Leave(TRUE)
        /\ clusterWorker.pc = "unannotate"
    BY <1>1, <1>6 DEF ClusterUnannotate
  <2>2. new \in ClusterObject /\ new.deleting = cluster[c].deleting
    BY <1>2 DEF ClusterObject, Operations
  <2> HIDE DEF new
  <2>3. /\ \A d \in Clusters \ {c} : cluster'[d] = cluster[d]
        /\ cluster'[c].deleting => cluster[c].deleting
    BY <1>3, <2>1, <2>2 DEF NoCluster
  <2>4. QED
    BY <1>1, <1>2, <1>4, <2>1, <2>3, HandleCares
<1>7. ASSUME ClusterRelease PROVE Goal
  <2> DEFINE new == [cluster[c] EXCEPT !.own = FALSE, !.foreign = clusterWorker.foreign]
  <2>1. /\ UNCHANGED cluster \/ StoreCluster(c, new)
        /\ \/ Leave(FALSE) /\ StoreCluster(c, new)
           \/ Report(FALSE, TRUE) /\ clusterQueue \subseteq clusterQueue'
        /\ clusterWorker.pc = "release"
    BY <1>1, <1>7 DEF ClusterRelease, Applied
  <2>2. cluster[c].deleting
    BY <1>1, <2>1 DEF ProviderInv, LifeInv, WorkerLife, DeleterMarked
  <2>3. new \in ClusterObject /\ new.deleting /\ ~new.own /\ new.foreign = {}
    BY <1>2, <2>2 DEF ClusterObject, ClusterControllerType, Attentive
  <2> HIDE DEF new
  <2>4. \A d \in Clusters \ {c} : cluster'[d] = cluster[d]
    BY <1>3, <2>1, <2>3
  <2>5. CASE Leave(FALSE) /\ StoreCluster(c, new)
    <3>1. cluster'[c] = NoCluster
      BY <1>2, <2>3, <2>5, StoreClusterEffect
    <3>2. Noted(c)'
      BY <3>1 DEF Noted, Wanted, NoCluster
    <3>3. QED
      BY <1>4, <2>4, <2>5, <3>2
  <2>6. CASE Report(FALSE, TRUE) /\ clusterQueue \subseteq clusterQueue'
    BY <1>1, <1>2, <2>4, <2>6, ReportCares
  <2>7. QED
    BY <2>1, <2>5, <2>6
<1>8. ASSUME ClusterStatus PROVE Goal
  <2> DEFINE w == clusterWorker
             new == [cluster[c] EXCEPT !.phase = ClusterPhase,
                                       !.endpoint = cluster[c].endpoint \/ w.publish]
  <2>1. PICK outcome \in WriteOutcomes :
            /\ IF Applied(outcome) /\ cluster[c].exists
               THEN StoreCluster(c, new) ELSE UNCHANGED cluster
            /\ Leave(w.again \/ outcome # "ok" \/ ~cluster[c].exists)
    BY <1>1, <1>8 DEF ClusterStatus
  <2>2. /\ new \in ClusterObject /\ new.op = cluster[c].op /\ new.exists = cluster[c].exists
        /\ new.deleting = cluster[c].deleting /\ new.phase = ClusterPhase
    BY <1>2 DEF ClusterObject, ClusterControllerType, ClusterPhase
  <2> HIDE DEF new
  <2>3. /\ \A d \in Clusters \ {c} : cluster'[d] = cluster[d]
        /\ cluster'[c] \in {cluster[c], new, NoCluster}
    BY <1>3, <2>1, <2>2
  <2>4. ASSUME ~w.again, outcome = "ok", cluster[c].exists
        PROVE  Noted(c)' \/ (cluster'[c].phase = "Ready" /\ ~cluster'[c].deleting)
    <3>1. Noted(c) \/ (~w.deleting /\ ~cluster[c].deleting /\ w.ready)
      BY <1>1, <1>2, <1>8, <2>4 DEF ClusterStatus, PassMindful
    <3>2. CASE Noted(c)
      <4>1. ~NoCluster.exists
        BY DEF NoCluster
      <4>2. clusterQueue \subseteq clusterQueue'
        BY <2>1 DEF Leave
      <4>3. QED
        BY <2>2, <2>3, <3>2, <4>1, <4>2 DEF Noted, Wanted
    <3>3. CASE ~w.deleting /\ ~cluster[c].deleting /\ w.ready
      <4>1. StoreCluster(c, new)
        BY <2>1, <2>4 DEF Applied
      <4>2. cluster'[c] = new
        BY <1>2, <2>2, <3>3, <4>1, StoreClusterEffect
      <4>3. QED
        BY <2>2, <3>3, <4>2 DEF ClusterPhase
    <3>4. QED
      BY <3>1, <3>2, <3>3
  <2>5. (w.again \/ outcome # "ok" \/ ~cluster[c].exists) \in BOOLEAN
    OBVIOUS
  <2>6. QED
    BY <1>4, <2>1, <2>3, <2>4, <2>5
<1>9. QED
  BY <1>5, <1>6, <1>7, <1>8

\* The Cluster controller, and the map function of its ClusterProfile watch.
LEMMA ClusterReconcilerCares ==
    ASSUME Attentive, ProviderInv, CareInv, ClusterReconciler
    PROVE  CareInv'
<1>1. UNCHANGED <<config, clusterProfile, profiles, configWorker>>
  BY DEF ClusterReconciler, ClusterControllerNext, ClusterStep, DeliverProfileEvent,
         ClusterDequeue, ClusterGet, ClusterUnannotate, ClusterFinalize, ClusterRead,
         ClusterCreate, ClusterLabel, ClusterReadForDelete, ClusterDelete, ClusterRelease,
         ClusterStatus, configControllerVars
<1>2. HeededConfigs'
  BY <1>1 DEF CareInv, HeededConfigs
<1>3. ASSUME ClusterStep PROVE CareInv'
  <2>1. clusterWorker.pc \notin Outside \/ rwlock.writer = "free"
    BY <1>3 DEF ClusterStep, ClusterGet, ClusterUnannotate, ClusterFinalize, ClusterRead,
       ClusterCreate, ClusterLabel, ClusterReadForDelete, ClusterDelete, ClusterRelease,
       ClusterStatus, Outside
  <2>2. UnloadedAwaited'
    BY <1>1, <2>1, InsideAllLoaded DEF UnloadedAwaited
  <2>3. PassMindful' /\ NoClusterForgotten'
    BY <1>3, CallsCare, PatchesCare, EndsCare DEF ClusterStep
  <2>4. QED
    BY <1>2, <2>2, <2>3 DEF CareInv
<1>4. ASSUME NEW d \in Clusters, ClusterDequeue(d) PROVE CareInv'
  <2>1. /\ UNCHANGED <<cluster, profileEvents>> /\ clusterQueue' = clusterQueue \ {d}
        /\ clusterWorker'.key = d /\ clusterWorker'.pc = "locking" /\ clusterWorker.pc = "idle"
    BY <1>4 DEF ClusterDequeue, IdleClusterWorker, configControllerVars
  <2>2. \A c \in Clusters : ClusterPending(c) => ClusterPending(c)'
    BY <2>1, AbsenceAssumption DEF ClusterPending, CareInv, PassMindful
  <2>3. UnloadedAwaited'
    BY <1>1, <2>1, <2>2 DEF CareInv, UnloadedAwaited, Loading, Wanted
  <2>4. PassMindful'
    BY <2>1 DEF PassMindful
  <2>5. NoClusterForgotten'
    BY <1>1, <2>1, <2>2 DEF CareInv, NoClusterForgotten
  <2>6. QED
    BY <1>2, <2>3, <2>4, <2>5 DEF CareInv
<1>5. ASSUME NEW n \in Configs, DeliverProfileEvent(n) PROVE CareInv'
  <2>1. /\ UNCHANGED <<cluster, clusterWorker>> /\ profileEvents' = profileEvents \ {n}
        /\ clusterQueue' = clusterQueue \cup {c \in Clusters : cluster[c].exists /\ ProfileOf[c] = n}
    BY <1>5 DEF DeliverProfileEvent, Attentive, Fault
  <2>2. \A c \in Clusters : Wanted(c) /\ ClusterPending(c) => ClusterPending(c)'
    BY <2>1 DEF ClusterPending, Wanted
  <2>3. UnloadedAwaited'
    BY <1>1, <2>1, <2>2 DEF CareInv, UnloadedAwaited, Loading, Wanted
  <2>4. PassMindful'
    BY <2>1 DEF CareInv, PassMindful, Noted, Wanted
  <2>5. NoClusterForgotten'
    BY <1>1, <2>1, <2>2 DEF CareInv, NoClusterForgotten, Wanted
  <2>6. QED
    BY <1>2, <2>3, <2>4, <2>5 DEF CareInv
<1>6. QED
  BY <1>3, <1>4, <1>5 DEF ClusterReconciler, ClusterControllerNext

\* CareInv is inductive, given what it rests on.
LEMMA CareInvInductive ==
    ASSUME Attentive, ProviderInv, ProviderInv', CareInv, [Next]_vars
    PROVE  CareInv'
<1>1. CASE Cloud \/ OtherReconciler \/ UNCHANGED vars
  <2>1. UNCHANGED <<config, cluster, clusterProfile, profiles, configWorker,
                    clusterQueue, clusterWorker, profileEvents>>
    BY <1>1, OtherReconcilerEffect DEF ReaderFrame, Cloud, vars, platformVars, processVars, runtimeVars
  <2>2. QED
    BY <2>1 DEF CareInv, HeededConfigs, UnloadedAwaited, Loading, PassMindful, Noted, Wanted,
                NoClusterForgotten, ClusterPending
<1>2. ~Restart
  BY DEF Restart, Attentive, ProviderInv, OrphanInv, TypeInv, TypeOK
<1>3. QED
  BY <1>1, <1>2, UserCares, ConfigReconcilerCares, ClusterReconcilerCares DEF Next

\* A Cluster of a loaded profile is Ready or due, however GKE, users and refused calls
\* come between the steps of both controllers, as long as the provider is Attentive:
\* each of these conditions is needed (the ProfileOf lookup of Reconcile, handleDelete).
THEOREM ClustersRemembered ==
    ASSUME Attentive
    PROVE  Spec => []NoClusterForgotten
<1>1. Init => CareInv
  BY DEF Init, PlatformInit, NoConfig, NoCluster, RuntimeInit, NewProfiles, ConfigControllerInit,
         ClusterControllerInit, IdleClusterWorker,
         CareInv, HeededConfigs, UnloadedAwaited, PassMindful, NoClusterForgotten
<1>2. ProviderInv /\ ProviderInv' /\ CareInv /\ [Next]_vars => CareInv'
  BY CareInvInductive
<1>3. CareInv => NoClusterForgotten
  BY DEF CareInv
<1>4. Spec => []ProviderInv
  BY LifeInvAlways, LockInvAlways, AdvertInvAlways, TrackInvAlways, MemoryInvAlways, PTL
     DEF ProviderInv
<1>5. QED
  BY <1>1, <1>2, <1>3, <1>4, PTL DEF Spec
=============================================================================
