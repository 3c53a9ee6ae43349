----------------------------- MODULE LockProofs -----------------------------
(***************************************************************************)
(* What the RWMutex of the runtime configuration is for: a Cluster         *)
(* reconciliation never works with an outdated profile.  It rests on where *)
(* both workers are while the lock is free, announced or held.             *)
(***************************************************************************)
EXTENDS OrphanProofs

\* Points of a reconciliation before the lock is acquired.
Outside == {"idle", "locking"}

\* A writer is announced or works just when the ProviderConfig worker has a
\* request, and works only when there are no readers.
WriterOK ==
    /\ rwlock.writer = "free" <=> configWorker.pc = "idle"
    /\ configWorker.pc \notin Outside => rwlock.readers = {}

\* The Cluster worker is a reader from its Get to its end, and has a profile only in
\* between.
ReaderOK ==
    /\ clusterWorker.pc \notin Outside => "Cluster" \in rwlock.readers
    /\ clusterWorker.location # NoProfile => clusterWorker.pc \notin Outside

LockInv == WriterOK /\ ReaderOK /\ SnapshotCurrent

\* Unlocking leaves the readers alone.
LEMMA UnlockEffect ==
    ASSUME RuntimeType, Unlock
    PROVE  rwlock'.writer = "free" /\ rwlock'.readers = rwlock.readers
  BY DEF RuntimeType, Unlock

\* Without readers, the Cluster worker has no profile.
LEMMA NoReaderNoSnapshot ==
    ASSUME ReaderOK, rwlock.readers = {}
    PROVE  clusterWorker.pc \in Outside /\ clusterWorker.location = NoProfile
  BY DEF ReaderOK

\* A step that changes neither lock, nor profiles, nor workers.
LEMMA LockUntouched ==
    ASSUME LockInv, UNCHANGED <<rwlock, profiles, configWorker, clusterWorker>>
    PROVE  LockInv'
  BY DEF LockInv, WriterOK, ReaderOK, SnapshotCurrent

\* The end of a ProviderConfig reconciliation, with any change of the profiles.
LEMMA ConfigEndLocked ==
    ASSUME TypeInv, LockInv, rwlock.readers = {}, Unlock,
           configWorker' = IdleConfigWorker, UNCHANGED clusterWorker
    PROVE  LockInv'
<1>1. rwlock'.writer = "free" /\ rwlock'.readers = {}
  BY UnlockEffect DEF TypeInv, TypeOK
<1>2. clusterWorker.pc \in Outside /\ clusterWorker.location = NoProfile
  BY NoReaderNoSnapshot DEF LockInv
<1>3. configWorker'.pc = "idle"
  BY DEF IdleConfigWorker
<1>4. QED
  BY <1>1, <1>2, <1>3 DEF LockInv, WriterOK, ReaderOK, SnapshotCurrent, Outside

\* A step of a ProviderConfig reconciliation that goes on, with the lock.
LEMMA ConfigGoesOnLocked ==
    ASSUME LockInv, configWorker.pc \notin Outside, configWorker'.pc \notin Outside,
           UNCHANGED <<rwlock, profiles, clusterWorker>>
    PROVE  LockInv'
  BY DEF LockInv, WriterOK, ReaderOK, SnapshotCurrent, Outside

\* The ProviderConfig controller changes profiles under the write lock only.
LEMMA ConfigReconcilerLocked == TypeInv /\ LockInv /\ ConfigReconciler => LockInv'
<1> SUFFICES ASSUME TypeInv, LockInv, ConfigReconciler PROVE LockInv'
  OBVIOUS
<1>1. /\ RuntimeType /\ ConfigControllerType
      /\ UNCHANGED clusterWorker
  BY DEF TypeInv, TypeOK, ConfigReconciler, ConfigFrame
<1>2. ASSUME configWorker.pc \notin Outside
      PROVE  rwlock.readers = {}
  BY <1>2 DEF LockInv, WriterOK
<1>3. ASSUME NEW n \in Configs, ConfigDequeue(n) PROVE LockInv'
  <2>1. rwlock'.writer = "announced" /\ rwlock'.readers = rwlock.readers /\ UNCHANGED profiles
    BY <1>1, <1>3 DEF ConfigDequeue, AnnounceWriter, RuntimeType
  <2>2. configWorker'.pc = "locking"
    BY <1>3 DEF ConfigDequeue, IdleConfigWorker
  <2>3. QED
    BY <1>1, <2>1, <2>2 DEF LockInv, WriterOK, ReaderOK, SnapshotCurrent, Outside
<1>4. ASSUME ConfigGet PROVE LockInv'
  <2>1. rwlock.readers = {}
    BY <1>4 DEF ConfigGet, LockAvailable
  <2>2. CASE \E failed \in BOOLEAN : ConcludeWithoutObject(failed)
    BY <1>1, <2>1, <2>2, ConfigEndLocked DEF ConcludeWithoutObject
  <2>3. ASSUME NEW pc \in ConfigPCs \ Outside, NEW obj, Continue(pc, obj), Lock, UNCHANGED profiles
        PROVE  LockInv'
    <3>1. rwlock'.writer = "held" /\ rwlock'.readers = {}
      BY <1>1, <2>1, <2>3 DEF Lock, RuntimeType
    <3>2. configWorker'.pc \notin Outside
      BY <1>1, <2>3 DEF Continue, ConfigControllerType
    <3>3. clusterWorker.pc \in Outside /\ clusterWorker.location = NoProfile
      BY <2>1, NoReaderNoSnapshot DEF LockInv
    <3>4. QED
      BY <1>1, <3>1, <3>2, <3>3 DEF LockInv, WriterOK, ReaderOK, SnapshotCurrent, Outside
  <2>4. \/ \E failed \in BOOLEAN : ConcludeWithoutObject(failed)
        \/ \E pc \in ConfigPCs \ Outside :
              Continue(pc, config[configWorker.key]) /\ Lock /\ UNCHANGED profiles
    BY <1>4 DEF ConfigGet, ConfigHandler, ConfigPCs, Outside
  <2>5. QED
    BY <2>2, <2>3, <2>4
<1>5. ASSUME ConfigUnannotate \/ ConfigRelease PROVE LockInv'
  <2>1. configWorker.pc \notin Outside
    BY <1>5 DEF ConfigUnannotate, ConfigRelease, Outside
  <2>2. \/ \E failed \in BOOLEAN : ConcludeWithoutObject(failed)
        \/ /\ \/ \E pc \in ConfigPCs \ Outside : Continue(pc, config[configWorker.key])
              \/ Return(configWorker, TRUE)
           /\ UNCHANGED <<rwlock, profiles>>
    BY <1>5 DEF ConfigUnannotate, ConfigRelease, ConfigHandler, runtimeVars, ConfigPCs, Outside
  <2>3. CASE \E failed \in BOOLEAN : ConcludeWithoutObject(failed)
    BY <1>1, <1>2, <2>1, <2>3, ConfigEndLocked DEF ConcludeWithoutObject
  <2>4. CASE /\ \/ \E pc \in ConfigPCs \ Outside : Continue(pc, config[configWorker.key])
                \/ Return(configWorker, TRUE)
             /\ UNCHANGED <<rwlock, profiles>>
    <3>1. configWorker'.pc \notin Outside
      BY <1>1, <2>4 DEF Continue, Return, ConfigControllerType, Outside
    <3>2. QED
      BY <1>1, <2>1, <2>4, <3>1, ConfigGoesOnLocked
  <2>5. QED
    BY <2>2, <2>3, <2>4
<1>6. ASSUME ConfigFinalize \/ ConfigAdvertise \/ ConfigUnadvertise PROVE LockInv'
  <2>1. configWorker.pc \notin Outside /\ UNCHANGED <<rwlock, profiles>>
    BY <1>6 DEF ConfigFinalize, ConfigAdvertise, ConfigUnadvertise, runtimeVars, Outside
  <2>2. \/ Continue("advertise", config[configWorker.key])
        \/ \E failed \in BOOLEAN : Return(configWorker, failed)
        \/ Return([configWorker EXCEPT !.profile = configWorker.location], FALSE)
        \/ configWorker' = [configWorker EXCEPT !.pc = "release"]
    BY <1>6 DEF ConfigFinalize, ConfigAdvertise, ConfigUnadvertise
  <2>3. configWorker'.pc \notin Outside
    BY <1>1, <2>2 DEF Continue, Return, ConfigControllerType, Outside
  <2>4. QED
    BY <1>1, <2>1, <2>3, ConfigGoesOnLocked
<1>7. ASSUME ConfigFinish PROVE LockInv'
  <2>1. configWorker.pc \notin Outside
    BY <1>7 DEF ConfigFinish, Outside
  <2>2. QED
    BY <1>1, <1>2, <1>7, <2>1, ConfigEndLocked DEF ConfigFinish
<1>8. QED
  BY <1>3, <1>4, <1>5, <1>6, <1>7 DEF ConfigReconciler, ConfigControllerNext, ConfigStep

\* The end of a Cluster reconciliation.
LEMMA LeaveLocked ==
    ASSUME TypeInv, LockInv, UNCHANGED <<profiles, configWorker>>, NEW again, Leave(again)
    PROVE  LockInv'
<1>1. rwlock'.writer = rwlock.writer /\ rwlock'.readers \subseteq rwlock.readers
  BY DEF TypeInv, TypeOK, RuntimeType, Leave, RUnlock
<1>2. clusterWorker'.pc = "idle" /\ clusterWorker'.location = NoProfile
  BY DEF Leave, IdleClusterWorker
<1>3. QED
  BY <1>1, <1>2 DEF LockInv, WriterOK, ReaderOK, SnapshotCurrent, Outside

\* A step of a Cluster reconciliation that goes on, with the lock and the profile.
LEMMA ClusterGoesOnLocked ==
    ASSUME LockInv, clusterWorker.pc \notin Outside, clusterWorker'.pc \notin Outside,
           UNCHANGED <<rwlock, profiles, configWorker>>,
           clusterWorker'.location = clusterWorker.location,
           clusterWorker'.key = clusterWorker.key
    PROVE  LockInv'
  BY DEF LockInv, WriterOK, ReaderOK, SnapshotCurrent

\* A reader that may enter looks the profile up, and leaves or goes on with it.
LEMMA HandleLocked ==
    ASSUME TypeInv, LockInv, UNCHANGED <<profiles, configWorker>>,
           configWorker.pc \in Outside, clusterWorker.pc # "idle",
           NEW obj \in ClusterObject, Handle(obj)
    PROVE  LockInv'
<1>1. CASE GetProfile(ProfileOf[clusterWorker.key]) = NoProfile
  BY <1>1, LeaveLocked DEF Handle
<1>2. CASE GetProfile(ProfileOf[clusterWorker.key]) # NoProfile
  <2>1. rwlock'.writer = rwlock.writer /\ "Cluster" \in rwlock'.readers
    BY <1>2 DEF TypeInv, TypeOK, RuntimeType, Handle
  <2>2. clusterWorker' = Handler(clusterWorker, obj)
    BY <1>2 DEF Handle
  <2>3. /\ clusterWorker'.pc \notin Outside
        /\ clusterWorker'.key = clusterWorker.key
        /\ clusterWorker'.location = profiles[ProfileOf[clusterWorker.key]]
    BY <2>2 DEF Handler, HandleDelete, Snapshot, GetProfile, Outside, TypeInv, TypeOK,
                ClusterControllerType
  <2>4. QED
    BY <2>1, <2>3 DEF LockInv, WriterOK, ReaderOK, SnapshotCurrent
<1>3. QED
  BY <1>1, <1>2

\* The Cluster controller reads profiles under the read lock only.
LEMMA ClusterReconcilerLocked == TypeInv /\ LockInv /\ ClusterReconciler => LockInv'
<1> SUFFICES ASSUME TypeInv, LockInv, ClusterReconciler PROVE LockInv'
  OBVIOUS
<1>1. UNCHANGED <<profiles, configWorker>>
  BY DEF ClusterReconciler, ClusterControllerNext, ClusterStep, DeliverProfileEvent,
         ClusterDequeue, ClusterGet, ClusterUnannotate, ClusterFinalize, ClusterRead,
         ClusterCreate, ClusterLabel, ClusterReadForDelete, ClusterDelete, ClusterRelease,
         ClusterStatus, configControllerVars
<1>2. /\ RuntimeType /\ ClusterControllerType
      /\ clusterWorker.pc # "idle" => cluster[clusterWorker.key] \in ClusterObject
  BY DEF TypeInv, TypeOK, KeysOK, PlatformType
<1>3. ASSUME NEW n \in Configs, DeliverProfileEvent(n) PROVE LockInv'
  BY <1>1, <1>3, LockUntouched DEF DeliverProfileEvent
<1>4. ASSUME NEW c \in Clusters, ClusterDequeue(c) PROVE LockInv'
  <2>1. clusterWorker'.pc = "locking" /\ clusterWorker'.location = NoProfile /\ UNCHANGED rwlock
    BY <1>4 DEF ClusterDequeue, IdleClusterWorker
  <2>2. QED
    BY <1>1, <2>1 DEF LockInv, WriterOK, ReaderOK, SnapshotCurrent, Outside
<1>5. ASSUME ClusterGet PROVE LockInv'
  <2>1. configWorker.pc = "idle" /\ clusterWorker.pc = "locking"
    BY <1>5 DEF ClusterGet, LockInv, WriterOK
  <2>2. CASE Handle(cluster[clusterWorker.key])
    BY <1>1, <1>2, <2>1, <2>2, HandleLocked DEF Outside
  <2>3. CASE \E again \in BOOLEAN : Leave(again)
    BY <1>1, <2>3, LeaveLocked
  <2>4. CASE clusterWorker' = [clusterWorker EXCEPT !.pc = "unannotate"] /\ RLock("Cluster")
    <3>1. rwlock'.writer = rwlock.writer /\ "Cluster" \in rwlock'.readers
      BY <1>2, <2>4 DEF RLock, RuntimeType
    <3>2. clusterWorker'.pc = "unannotate" /\ clusterWorker'.location = NoProfile
      BY <1>2, <2>1, <2>4 DEF ClusterControllerType, LockInv, ReaderOK, Outside
    <3>3. QED
      BY <1>1, <2>1, <3>1, <3>2 DEF LockInv, WriterOK, ReaderOK, SnapshotCurrent, Outside
  <2>5. QED
    BY <1>5, <2>2, <2>3, <2>4 DEF ClusterGet
<1>6. ASSUME ClusterUnannotate PROVE LockInv'
  <2>1. configWorker.pc \in Outside /\ clusterWorker.pc # "idle"
    BY <1>6 DEF ClusterUnannotate, LockInv, WriterOK, ReaderOK, Outside
  <2>2. Handle(cluster[clusterWorker.key]) \/ Leave(TRUE)
    BY <1>6 DEF ClusterUnannotate
  <2>3. QED
    BY <1>1, <1>2, <2>1, <2>2, HandleLocked, LeaveLocked
<1>7. ASSUME ClusterFinalize \/ ClusterRead \/ ClusterCreate \/ ClusterLabel
             \/ ClusterReadForDelete \/ ClusterDelete
      PROVE  LockInv'
  <2>1. clusterWorker.pc \notin Outside /\ UNCHANGED rwlock
    BY <1>7 DEF ClusterFinalize, ClusterRead, ClusterCreate, ClusterLabel, ClusterReadForDelete,
                ClusterDelete, Outside
  <2>2. /\ clusterWorker'.pc \notin Outside
        /\ clusterWorker'.location = clusterWorker.location
        /\ clusterWorker'.key = clusterWorker.key
    BY <1>2, <1>7 DEF ClusterFinalize, ClusterRead, ClusterCreate, ClusterLabel,
                      ClusterReadForDelete, ClusterDelete, Report, Snapshot, Outside,
                      ClusterControllerType
  <2>3. QED
    BY <1>1, <2>1, <2>2, ClusterGoesOnLocked
<1>8. ASSUME ClusterRelease \/ ClusterStatus PROVE LockInv'
  <2>1. \/ \E again : Leave(again)
        \/ Report(FALSE, TRUE) /\ UNCHANGED rwlock /\ clusterWorker.pc = "release"
    BY <1>8 DEF ClusterRelease, ClusterStatus
  <2>2. CASE Report(FALSE, TRUE) /\ UNCHANGED rwlock /\ clusterWorker.pc = "release"
    BY <1>1, <1>2, <2>2, ClusterGoesOnLocked DEF Report, ClusterControllerType, Outside
  <2>3. QED
    BY <1>1, <2>1, <2>2, LeaveLocked
<1>9. QED
  BY <1>3, <1>4, <1>5, <1>6, <1>7, <1>8 DEF ClusterReconciler, ClusterControllerNext, ClusterStep

\* Other readers come only while no writer is announced, and leave the Cluster
\* worker its place among the readers.
LEMMA OtherReconcilerLocked == TypeInv /\ LockInv /\ OtherReconciler => LockInv'
<1> SUFFICES ASSUME TypeInv, LockInv, OtherReconciler PROVE LockInv'
  OBVIOUS
<1>1. UNCHANGED <<profiles, configWorker, clusterWorker>>
  BY OtherReconcilerEffect DEF ReaderFrame
<1>2. PICK r \in OtherReaders : ReaderEnters(r) \/ ReaderLeaves(r)
  BY OtherReconcilerEffect
<1>3. /\ rwlock'.writer = rwlock.writer
      /\ "Cluster" \in rwlock.readers => "Cluster" \in rwlock'.readers
      /\ rwlock.writer = "free" \/ rwlock'.readers \subseteq rwlock.readers
  BY <1>2 DEF ReaderEnters, ReaderLeaves, RLock, RUnlock, OtherReaders, TypeInv, TypeOK,
              RuntimeType
<1>4. QED
  BY <1>1, <1>3 DEF LockInv, WriterOK, ReaderOK, SnapshotCurrent, Outside

\* LockInv is inductive, given the types.
LEMMA LockInvInductive == TypeInv /\ LockInv /\ [Next]_vars => LockInv'
<1> SUFFICES ASSUME TypeInv, LockInv, [Next]_vars PROVE LockInv'
  OBVIOUS
<1>1. CASE User \/ Cloud \/ UNCHANGED vars
  BY <1>1, LockUntouched DEF User, Cloud, processVars, runtimeVars, vars
<1>2. CASE Restart
  BY <1>2 DEF Restart, NewRwlock, IdleConfigWorker, IdleClusterWorker,
              LockInv, WriterOK, ReaderOK, SnapshotCurrent, Outside
<1>3. QED
  BY <1>1, <1>2, ConfigReconcilerLocked, ClusterReconcilerLocked, OtherReconcilerLocked DEF Next

\* LockInv holds in every reachable state.
LEMMA LockInvAlways == Spec => []LockInv
<1>1. Init => LockInv
  BY DEF Init, RuntimeInit, NewRwlock, ConfigControllerInit, IdleConfigWorker,
         ClusterControllerInit, IdleClusterWorker,
         LockInv, WriterOK, ReaderOK, SnapshotCurrent, Outside
<1>2. QED
  BY <1>1, LockInvInductive, TypeInvAlways, PTL DEF Spec

\* No Cluster is ever worked on with a profile that is not the loaded one: the
\* lock keeps ProviderConfig reconciliations out (Reconcile of both controllers).
THEOREM SnapshotsAreCurrent == Spec => []SnapshotCurrent
<1>1. LockInv => SnapshotCurrent
  BY DEF LockInv
<1>2. QED
  BY <1>1, LockInvAlways, PTL

-----------------------------------------------------------------------------
\* The only step that brings a GKE cluster into being.
LEMMA OnlyCreateCreates ==
    ASSUME OrphanInv, [Next]_vars, NEW l \in Locations, NEW c \in Clusters,
           ~Present(l, c), gke'[l][c] # "ABSENT"
    PROVE  ClusterCreate /\ l = clusterWorker.location /\ c = clusterWorker.key
<1>1. GKEType
  BY DEF OrphanInv, TypeInv, TypeOK
<1>2. ASSUME UNCHANGED gke PROVE FALSE
  BY <1>2 DEF Present
<1>3. ~Cloud
  BY CloudCreatesNothing DEF OrphanInv, Present
<1>4. ClusterCreate \/ ClusterDelete
  BY <1>2, <1>3, OtherReconcilerEffect
     DEF Next, vars, ReaderFrame, User, Restart, ConfigReconciler, ConfigFrame, ClusterReconciler,
         ClusterControllerNext, ClusterStep, DeliverProfileEvent, ClusterDequeue, ClusterGet,
         ClusterUnannotate, ClusterFinalize, ClusterRead, ClusterLabel,
         ClusterReadForDelete, ClusterRelease, ClusterStatus
<1>5. ASSUME NEW k, NEW d, NEW status, SetStatus(k, d, status) PROVE l = k /\ c = d
  BY <1>1, <1>5, SetStatusEffect DEF Present
<1>6. ~ClusterDelete
  <2>1. SUFFICES ASSUME ClusterDelete PROVE FALSE
    OBVIOUS
  <2>2. /\ Present(clusterWorker.location, clusterWorker.key)
        /\ SetStatus(clusterWorker.location, clusterWorker.key, "STOPPING")
    BY <1>2, <2>1 DEF ClusterDelete, SubmitDelete
  <2>3. QED
    BY <1>5, <2>2
<1>7. SetStatus(clusterWorker.location, clusterWorker.key, "PROVISIONING")
  BY <1>2, <1>4, <1>6 DEF ClusterCreate, SubmitCreate
<1>8. QED
  BY <1>4, <1>5, <1>6, <1>7

\* GKE clusters are created for guarded Clusters only, and only where the profile
\* loaded at that moment points to (ClusterCreate, under the read lock).
THEOREM CreationsAreGuarded == Spec => CreationGuarded
<1>1. ASSUME OrphanInv, LockInv, [Next]_vars
      PROVE  [\A c \in Clusters, l \in Locations :
                 ~Present(l, c) /\ gke'[l][c] # "ABSENT" =>
                     cluster[c].own /\ profiles[ProfileOf[c]] = l]_vars
  <2>1. SUFFICES ASSUME NEW c \in Clusters, NEW l \in Locations,
                        ~Present(l, c), gke'[l][c] # "ABSENT"
                 PROVE  cluster[c].own /\ profiles[ProfileOf[c]] = l
    OBVIOUS
  <2>2. clusterWorker.pc = "create" /\ l = clusterWorker.location /\ c = clusterWorker.key
    BY <1>1, <2>1, OnlyCreateCreates DEF ClusterCreate
  <2>3. cluster[c].own /\ l # NoProfile
    BY <1>1, <2>2 DEF OrphanInv, GuardInv, WorkerGuarded, LocatedPCs
  <2>4. QED
    BY <1>1, <2>2, <2>3 DEF LockInv, SnapshotCurrent
<1>2. QED
  BY <1>1, OrphanInvAlways, LockInvAlways, PTL DEF Spec, CreationGuarded
=============================================================================
