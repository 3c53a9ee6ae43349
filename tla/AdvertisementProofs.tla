------------------------ MODULE AdvertisementProofs ------------------------
(***************************************************************************)
(* The ProviderConfig controller: no ClusterProfile without its            *)
(* ProviderConfig, no loaded profile out of date, no config forgotten.     *)
(*                                                                         *)
(* ProfileGuarded is made inductive by what the worker knows: it           *)
(* advertises a config that has the finalizer, and releases one whose      *)
(* ClusterProfile is gone.  The other two rest on what a pass has read:    *)
(* that is still so, or the change is queued.                              *)
(***************************************************************************)
EXTENDS TypeProofs

\* A finalizer is on a ProviderConfig that exists.
OwnConfigExists == \A n \in Configs : config[n].own => config[n].exists

\* A ClusterProfile is guarded.
AdvertisedGuarded == \A n \in Configs : clusterProfile[n] # "absent" => config[n].own

AdvertiserGuarded ==
    /\ configWorker.pc = "advertise" => config[configWorker.key].own
    /\ configWorker.pc = "release" => clusterProfile[configWorker.key] = "absent"

AdvertInv == TypeInv /\ OwnConfigExists /\ AdvertisedGuarded /\ AdvertiserGuarded

\* Between passes no config is being reconciled; what a pass has read is a location,
\* and what it returns is that, or an error.
ReadConfig ==
    LET w == configWorker IN
    /\ w.pc = "idle" => w.key = Nobody
    /\ w.pc \notin {"idle", "locking"} => w.location \in Locations
    /\ w.pc = "finish" => (w.failed /\ w.profile = NoProfile) \/ w.profile = w.location
    /\ w.pc # "finish" => w.profile = NoProfile

\* Profile p is that of ProviderConfig n as it is now, unless a change of n is
\* still to be seen, or n is to be left alone.
Fresh(n, p) ==
    config[n].own /\ (n \in configQueue \/ config[n].op = "ignore" \/ p = config[n].location)

\* The profile a pass will load is fresh.
LoadsFresh ==
    LET w == configWorker IN
    w.pc = "advertise" \/ (w.pc = "finish" /\ w.profile # NoProfile) => Fresh(w.key, w.location)

\* A loaded profile is fresh, or about to be replaced.
LoadedFresh ==
    \A n \in Configs : profiles[n] # NoProfile => ConfigPending(n) \/ Fresh(n, profiles[n])

TrackInv == ReadConfig /\ LoadsFresh /\ LoadedFresh /\ AdvertisedIsServed

\* A ProviderConfig marked for deletion has the finalizer left.
MarkedConfigs == \A n \in Configs : config[n].deleting => config[n].own

\* What a pass did not see of its ProviderConfig is queued: a deletion after the read,
\* unless the config is to be left alone.  A pass that ends well has advertised it.
PassRemembers ==
    LET w == configWorker
        n == w.key IN
    /\ w.pc \in {"unadvertise", "release"} => config[n].deleting
    /\ w.pc = "advertise" \/ (w.pc = "finish" /\ w.profile # NoProfile) =>
          n \in configQueue \/ config[n].op = "ignore" \/ ~config[n].deleting
    /\ w.pc = "finish" /\ w.profile # NoProfile => clusterProfile[n] # "absent"

MemoryInv == MarkedConfigs /\ PassRemembers /\ NoConfigForgotten

\* No step takes the finalizer off ProviderConfig n.
ConfigKept(n) == config[n].own => config'[n].own

\* Storing a ProviderConfig with the finalizer it has, or one more, keeps all
\* of them.
LEMMA StoreConfigKeeps ==
    ASSUME TypeInv, OwnConfigExists, NEW n \in Configs, NEW obj \in ConfigObject,
           config[n].own => obj.own, obj.own => obj.exists, StoreConfig(n, obj)
    PROVE  OwnConfigExists' /\ \A m \in Configs : ConfigKept(m)
<1>1. config \in [Configs -> ConfigObject]
  BY DEF TypeInv, TypeOK, PlatformType
<1>2. NoConfig(n).own = FALSE
  BY DEF NoConfig
<1>3. QED
  BY <1>1, <1>2, StoreConfigEffect DEF OwnConfigExists, ConfigKept

\* While finalizers and ClusterProfiles stay, so do the invariant's first parts.
LEMMA KeptAdvertised ==
    ASSUME AdvertisedGuarded, \A n \in Configs : ConfigKept(n), UNCHANGED clusterProfile
    PROVE  AdvertisedGuarded'
  BY DEF AdvertisedGuarded, ConfigKept

\* Users take the provider's finalizer off no ProviderConfig.
LEMMA UserKeepsConfigs ==
    ASSUME TypeInv, OwnConfigExists, User
    PROVE  OwnConfigExists' /\ \A n \in Configs : ConfigKept(n)
<1> DEFINE Goal == OwnConfigExists' /\ \A n \in Configs : ConfigKept(n)
<1>1. config \in [Configs -> ConfigObject]
  BY DEF TypeInv, TypeOK, PlatformType
<1>2. ASSUME NEW n \in Configs, NEW obj \in ConfigObject, obj.own = config[n].own,
             obj.exists = config[n].exists, StoreConfig(n, obj)
      PROVE  Goal
  BY <1>1, <1>2, StoreConfigKeeps DEF OwnConfigExists
<1>3. ASSUME UNCHANGED config PROVE Goal
  BY <1>3 DEF OwnConfigExists, ConfigKept
<1>4. ASSUME NEW n \in Configs, NEW l \in Locations, CreateConfig(n, l) PROVE Goal
  <2> DEFINE obj == [NoConfig(n) EXCEPT !.exists = TRUE, !.location = l]
  <2>1. obj \in ConfigObject /\ ~obj.own
    BY DEF NoConfig, ConfigObject, Operations
  <2>2. ~config[n].own /\ StoreConfig(n, obj)
    BY <1>1, <1>4 DEF CreateConfig, OwnConfigExists, ConfigObject
  <2> HIDE DEF obj
  <2>3. QED
    BY <2>1, <2>2, StoreConfigKeeps
<1>5. ASSUME NEW n \in Configs, NEW l \in Locations, Relocate(n, l) PROVE Goal
  <2> DEFINE obj == [config[n] EXCEPT !.location = l]
  <2>1. obj \in ConfigObject /\ obj.own = config[n].own /\ obj.exists = config[n].exists
    BY <1>1 DEF ConfigObject
  <2>2. QED
    BY <1>2, <1>5, <2>1 DEF Relocate
<1>6. ASSUME NEW n \in Configs, NEW op \in ConfigOps \cup {"none"}, AnnotateConfig(n, op)
      PROVE  Goal
  <2> DEFINE obj == [config[n] EXCEPT !.op = op]
  <2>1. obj \in ConfigObject /\ obj.own = config[n].own /\ obj.exists = config[n].exists
    BY <1>1, OperationsAssumption DEF ConfigObject, Operations
  <2>2. QED
    BY <1>2, <1>6, <2>1 DEF AnnotateConfig
<1>7. ASSUME NEW n \in Configs, DeleteConfig(n) PROVE Goal
  <2> DEFINE obj == [config[n] EXCEPT !.deleting = TRUE]
  <2>1. obj \in ConfigObject /\ obj.own = config[n].own /\ obj.exists = config[n].exists
    BY <1>1 DEF ConfigObject
  <2>2. QED
    BY <1>2, <1>7, <2>1 DEF DeleteConfig
<1>8. QED
  BY <1>3, <1>4, <1>5, <1>6, <1>7
     DEF User, UserNext, CreateCluster, DeleteCluster, AnnotateCluster, AddForeign, RemoveForeign

-----------------------------------------------------------------------------
\* The ProviderConfig controller keeps AdvertInv, one step per action.
LEMMA ConfigReconcilerGuarded ==
    ASSUME AdvertInv, ConfigReconciler
    PROVE  OwnConfigExists' /\ AdvertisedGuarded' /\ AdvertiserGuarded'
<1> DEFINE n == configWorker.key
           Goal == OwnConfigExists' /\ AdvertisedGuarded' /\ AdvertiserGuarded'
<1>1. /\ TypeInv /\ ConfigControllerType
      /\ config \in [Configs -> ConfigObject]
      /\ clusterProfile \in [Configs -> ProfileStates]
      /\ OwnConfigExists /\ AdvertisedGuarded /\ AdvertiserGuarded
  BY DEF AdvertInv, TypeInv, TypeOK, PlatformType
<1>2. configWorker.pc # "idle" => n \in Configs /\ config[n] \in ConfigObject
  BY <1>1 DEF TypeInv, KeysOK
<1>3. ASSUME UNCHANGED <<config, clusterProfile>>
      PROVE  OwnConfigExists' /\ AdvertisedGuarded'
  BY <1>1, <1>3 DEF OwnConfigExists, AdvertisedGuarded
<1>4. ASSUME configWorker'.pc \notin {"advertise", "release"} PROVE AdvertiserGuarded'
  BY <1>4 DEF AdvertiserGuarded
<1>5. ASSUME NEW failed, ConcludeWithoutObject(failed) PROVE AdvertiserGuarded'
  BY <1>4, <1>5 DEF ConcludeWithoutObject, IdleConfigWorker
<1>6. ASSUME NEW w \in {configWorker, [configWorker EXCEPT !.profile = configWorker.location]},
             NEW failed, Return(w, failed)
      PROVE  AdvertiserGuarded'
  <2>1. configWorker'.pc = "finish"
    BY <1>1, <1>6 DEF Return, ConfigControllerType
  <2>2. QED
    BY <1>4, <2>1
<1>7. ASSUME NEW pc, NEW obj, Continue(pc, obj), pc = "advertise" => config'[n].own,
             pc # "release"
      PROVE  AdvertiserGuarded'
  BY <1>1, <1>7 DEF Continue, ConfigControllerType, AdvertiserGuarded
<1>8. ASSUME NEW m \in Configs, ConfigDequeue(m) PROVE Goal
  <2>1. configWorker'.pc = "locking"
    BY <1>8 DEF ConfigDequeue, IdleConfigWorker
  <2>2. QED
    BY <1>3, <1>4, <1>8, <2>1 DEF ConfigDequeue, platformVars
<1>9. ASSUME ConfigGet PROVE Goal
  <2>1. UNCHANGED <<config, clusterProfile>>
    BY <1>9 DEF ConfigGet, platformVars
  <2>2. \/ \E failed : ConcludeWithoutObject(failed)
        \/ Continue(IF config[n].op = "reconcile" THEN "unannotate"
                    ELSE ConfigHandler(config[n]), config[n])
    BY <1>9 DEF ConfigGet
  <2>3. AdvertiserGuarded'
    BY <1>5, <1>7, <2>1, <2>2 DEF ConfigHandler
  <2>4. QED
    BY <1>3, <2>1, <2>3
<1>10. ASSUME ConfigUnannotate PROVE Goal
  <2> DEFINE new == [config[n] EXCEPT !.op = "none"]
  <2>1. new \in ConfigObject /\ new.own = config[n].own /\ new.exists = config[n].exists
    BY <1>2, <1>10 DEF ConfigUnannotate, ConfigObject, Operations
  <2>2. UNCHANGED clusterProfile /\ (UNCHANGED config \/ StoreConfig(n, new))
    BY <1>10 DEF ConfigUnannotate
  <2>3. n \in Configs
    BY <1>2, <1>10 DEF ConfigUnannotate
  <2>4. OwnConfigExists' /\ \A m \in Configs : ConfigKept(m)
    <3> HIDE DEF new
    <3>1. QED
      BY <1>1, <2>1, <2>2, <2>3, StoreConfigKeeps DEF OwnConfigExists, ConfigKept
  <2>5. ConcludeWithoutObject(TRUE) \/ Continue(ConfigHandler(config[n]), config[n])
    BY <1>10 DEF ConfigUnannotate
  <2>6. AdvertiserGuarded'
    BY <1>5, <1>7, <2>3, <2>4, <2>5 DEF ConfigHandler, ConfigKept
  <2>7. QED
    BY <1>1, <2>2, <2>4, <2>6, KeptAdvertised
<1>11. ASSUME ConfigFinalize PROVE Goal
  <2> DEFINE new == [config[n] EXCEPT !.own = TRUE]
  <2>1. n \in Configs /\ new \in ConfigObject /\ new.own /\ new.exists = config[n].exists
    BY <1>2, <1>11 DEF ConfigFinalize, ConfigObject
  <2>2. /\ UNCHANGED clusterProfile
        /\ UNCHANGED config \/ (StoreConfig(n, new) /\ config[n].exists)
    BY <1>11 DEF ConfigFinalize
  <2>3. \/ Return(configWorker, TRUE)
        \/ Continue("advertise", config[n]) /\ StoreConfig(n, new)
    BY <1>11 DEF ConfigFinalize, Applied
  <2> HIDE DEF new
  <2>4. OwnConfigExists' /\ \A m \in Configs : ConfigKept(m)
    BY <1>1, <2>1, <2>2, StoreConfigKeeps DEF OwnConfigExists, ConfigKept
  <2>5. StoreConfig(n, new) => config'[n].own
    BY <1>1, <2>1, StoreConfigEffect
  <2>6. AdvertiserGuarded'
    BY <1>6, <1>7, <2>3, <2>5
  <2>7. QED
    BY <1>1, <2>2, <2>4, <2>6, KeptAdvertised
<1>12. ASSUME ConfigAdvertise PROVE Goal
  <2>1. UNCHANGED config /\ n \in Configs /\ config[n].own
    BY <1>1, <1>2, <1>12 DEF ConfigAdvertise, AdvertiserGuarded
  <2>2. \E state : clusterProfile' \in {clusterProfile, [clusterProfile EXCEPT ![n] = state]}
    BY <1>12 DEF ConfigAdvertise
  <2>3. \/ Return(configWorker, TRUE)
        \/ Return([configWorker EXCEPT !.profile = configWorker.location], FALSE)
    BY <1>12 DEF ConfigAdvertise
  <2>4. OwnConfigExists' /\ AdvertisedGuarded'
    BY <1>1, <2>1, <2>2 DEF OwnConfigExists, AdvertisedGuarded
  <2>5. QED
    BY <1>6, <2>3, <2>4
<1>13. ASSUME ConfigUnadvertise PROVE Goal
  <2>1. UNCHANGED config /\ n \in Configs
    BY <1>2, <1>13 DEF ConfigUnadvertise
  <2>2. \/ /\ Return(configWorker, TRUE)
           /\ clusterProfile' \in {clusterProfile, [clusterProfile EXCEPT ![n] = "absent"]}
        \/ /\ configWorker' = [configWorker EXCEPT !.pc = "release"]
           /\ clusterProfile' = [clusterProfile EXCEPT ![n] = "absent"]
    BY <1>13 DEF ConfigUnadvertise, Applied
  <2>3. OwnConfigExists' /\ AdvertisedGuarded'
    BY <1>1, <2>1, <2>2 DEF OwnConfigExists, AdvertisedGuarded
  <2>4. AdvertiserGuarded'
    BY <1>1, <1>6, <2>1, <2>2 DEF AdvertiserGuarded, ConfigControllerType
  <2>5. QED
    BY <2>3, <2>4
<1>14. ASSUME ConfigRelease PROVE Goal
  <2> DEFINE new == [config[n] EXCEPT !.own = FALSE]
  <2>1. n \in Configs /\ new \in ConfigObject /\ ~new.own /\ ~NoConfig(n).own
    BY <1>2, <1>14 DEF ConfigRelease, ConfigObject, NoConfig
  <2>2. UNCHANGED clusterProfile /\ clusterProfile[n] = "absent"
    BY <1>1, <1>14 DEF ConfigRelease, AdvertiserGuarded
  <2>3. UNCHANGED config \/ StoreConfig(n, new)
    BY <1>14 DEF ConfigRelease
  <2>4. ConcludeWithoutObject(FALSE) \/ Return(configWorker, TRUE)
    BY <1>14 DEF ConfigRelease
  <2> HIDE DEF new
  <2>5. /\ \A m \in Configs \ {n} : config'[m] = config[m]
        /\ UNCHANGED config \/ ~config'[n].own
    BY <1>1, <2>1, <2>3, StoreConfigEffect
  <2>6. OwnConfigExists' /\ AdvertisedGuarded'
    BY <1>1, <2>2, <2>5 DEF OwnConfigExists, AdvertisedGuarded
  <2>7. QED
    BY <1>5, <1>6, <2>4, <2>6
<1>15. ASSUME ConfigFinish PROVE Goal
  BY <1>3, <1>4, <1>15 DEF ConfigFinish, platformVars, IdleConfigWorker
<1>16. QED
  BY <1>8, <1>9, <1>10, <1>11, <1>12, <1>13, <1>14, <1>15
     DEF ConfigReconciler, ConfigControllerNext, ConfigStep

\* AdvertInv is inductive.
LEMMA AdvertInvInductive == AdvertInv /\ [Next]_vars => AdvertInv'
<1> SUFFICES ASSUME AdvertInv, [Next]_vars
             PROVE  OwnConfigExists' /\ AdvertisedGuarded' /\ AdvertiserGuarded'
  BY TypeInvInductive DEF AdvertInv
<1>1. TypeInv /\ OwnConfigExists /\ AdvertisedGuarded /\ AdvertiserGuarded
  BY DEF AdvertInv
<1>2. CASE User
  <2>1. OwnConfigExists' /\ \A n \in Configs : ConfigKept(n)
    BY <1>1, <1>2, UserKeepsConfigs
  <2>2. UNCHANGED <<clusterProfile, configWorker>>
    BY <1>2 DEF User, UserNext
  <2>3. AdvertiserGuarded'
    BY <1>1, <2>1, <2>2 DEF AdvertiserGuarded, ConfigKept, TypeInv, KeysOK
  <2>4. QED
    BY <1>1, <2>1, <2>2, <2>3, KeptAdvertised
<1>3. CASE Cloud \/ ClusterReconciler \/ OtherReconciler \/ UNCHANGED vars
  <2>1. UNCHANGED <<config, clusterProfile, configWorker>>
    BY <1>3, OtherReconcilerEffect
    DEF ReaderFrame, Cloud, ClusterReconciler, ClusterControllerNext, ClusterStep, DeliverProfileEvent,
         ClusterDequeue, ClusterGet, ClusterUnannotate, ClusterFinalize, ClusterRead,
         ClusterCreate, ClusterLabel, EnsureLabels, ClusterReadForDelete,
         ClusterDelete, ClusterRelease,
         ClusterStatus, configControllerVars, platformVars, processVars, vars
  <2>2. QED
    BY <1>1, <2>1 DEF OwnConfigExists, AdvertisedGuarded, AdvertiserGuarded
<1>4. CASE Restart
  BY <1>1, <1>4 DEF Restart, platformVars, IdleConfigWorker, OwnConfigExists, AdvertisedGuarded,
                    AdvertiserGuarded
<1>5. QED
  BY <1>1, <1>2, <1>3, <1>4, ConfigReconcilerGuarded DEF Next, AdvertInv

\* AdvertInv holds in every reachable state.
LEMMA AdvertInvAlways == Spec => []AdvertInv
<1>1. Init => AdvertInv
  BY InitTyped DEF Init, PlatformInit, NoConfig, ConfigControllerInit, IdleConfigWorker,
                   AdvertInv, OwnConfigExists, AdvertisedGuarded, AdvertiserGuarded
<1>2. QED
  BY <1>1, AdvertInvInductive, PTL DEF Spec

\* No ClusterProfile stays advertised after its ProviderConfig, or the finalizer
\* on it, is gone: schedulers see no profile that nobody reconciles.
THEOREM AdvertisedProfilesGuarded == Spec => []ProfileGuarded
<1>1. AdvertInv => ProfileGuarded
  BY DEF AdvertInv, OwnConfigExists, AdvertisedGuarded, ProfileGuarded
<1>2. QED
  BY <1>1, AdvertInvAlways, PTL

-----------------------------------------------------------------------------
(***************************************************************************)
(* Loaded profiles follow their ProviderConfigs.                           *)
(***************************************************************************)
\* A change of a ProviderConfig that the watch lets pass by is none of its
\* location, or one of a config that is to be left alone.
LEMMA NoticedOrSame ==
    ASSUME NEW n \in Configs, config[n].exists = config'[n].exists,
           n \notin ConfigEvents, config'[n].exists, config'[n].op # "ignore"
    PROVE  config[n].op # "ignore" /\ config'[n].location = config[n].location
  BY DEF ConfigEvents, PassesFilter

\* A ProviderConfig with the finalizer exists, before and after a step.
LEMMA OwnExists ==
    ASSUME AdvertInv, AdvertInv', NEW n \in Configs, config[n].own, config'[n].own
    PROVE  /\ config[n].exists /\ config'[n].exists
           /\ config[n].exists = config'[n].exists
<1>1. config \in [Configs -> ConfigObject] /\ config' \in [Configs -> ConfigObject]
  BY DEF AdvertInv, TypeInv, TypeOK, PlatformType
<1>2. QED
  BY <1>1 DEF AdvertInv, OwnConfigExists, ConfigObject

\* What is fresh stays so while the finalizer does and the watch sees changes.
LEMMA StaysFresh ==
    ASSUME AdvertInv, AdvertInv', NEW n \in Configs, NEW p, Fresh(n, p), config'[n].own,
           configQueue \cup ConfigEvents \subseteq configQueue'
    PROVE  n \in configQueue' \/ config'[n].op = "ignore" \/ p = config'[n].location
  BY OwnExists, NoticedOrSame DEF Fresh

\* A step of users, who take no finalizer away.
LEMMA UserTracked ==
    ASSUME AdvertInv, AdvertInv', TrackInv, User
    PROVE  TrackInv'
<1>1. UNCHANGED <<configWorker, profiles, clusterProfile>>
  BY DEF User, UserNext, runtimeVars
<1>2. configQueue \cup ConfigEvents \subseteq configQueue'
  BY DEF User
<1>3. \A n \in Configs : ConfigKept(n)
  BY UserKeepsConfigs DEF AdvertInv
<1>4. ReadConfig'
  BY <1>1 DEF TrackInv, ReadConfig
<1>5. LoadsFresh'
  <2>1. SUFFICES ASSUME configWorker.pc = "advertise"
                        \/ (configWorker.pc = "finish" /\ configWorker.profile # NoProfile)
                 PROVE  Fresh(configWorker.key, configWorker.location)'
    BY <1>1 DEF LoadsFresh
  <2>2. configWorker.key \in Configs /\ Fresh(configWorker.key, configWorker.location)
    BY <2>1 DEF TrackInv, LoadsFresh, AdvertInv, TypeInv, KeysOK
  <2>3. config'[configWorker.key].own
    BY <1>3, <2>2 DEF Fresh, ConfigKept
  <2>4. QED
    BY <1>1, <1>2, <2>2, <2>3, StaysFresh DEF Fresh
<1>6. LoadedFresh'
  <2>1. SUFFICES ASSUME NEW n \in Configs, profiles[n] # NoProfile, ~ConfigPending(n)'
                 PROVE  Fresh(n, profiles[n])'
    BY <1>1 DEF LoadedFresh
  <2>2. Fresh(n, profiles[n])
    BY <1>1, <1>2, <2>1 DEF TrackInv, LoadedFresh, ConfigPending
  <2>3. config'[n].own
    BY <1>3, <2>2 DEF Fresh, ConfigKept
  <2>4. QED
    BY <1>1, <1>2, <2>2, <2>3, StaysFresh DEF Fresh
<1>7. AdvertisedIsServed'
  <2>1. SUFFICES ASSUME NEW n \in Configs, clusterProfile[n] # "absent", profiles[n] = NoProfile,
                        config'[n].op # "ignore"
                 PROVE  ConfigPending(n)'
    BY <1>1 DEF AdvertisedIsServed
  <2>2. config[n].own /\ config'[n].own
    BY <1>3, <2>1 DEF AdvertInv, AdvertisedGuarded, ConfigKept
  <2>3. n \in ConfigEvents \/ config[n].op # "ignore"
    BY <2>1, <2>2, OwnExists, NoticedOrSame
  <2>4. QED
    BY <1>1, <1>2, <2>1, <2>3 DEF TrackInv, AdvertisedIsServed, ConfigPending
<1>8. QED
  BY <1>4, <1>5, <1>6, <1>7 DEF TrackInv

\* A pass that goes on has its ProviderConfig pending, and touches no other.
LEMMA PassGoesOn ==
    ASSUME TrackInv, UNCHANGED profiles, configWorker'.key = configWorker.key,
           configQueue \subseteq configQueue',
           \A m \in Configs \ {configWorker.key} :
               config'[m] = config[m] /\ clusterProfile'[m] = clusterProfile[m]
    PROVE  LoadedFresh' /\ AdvertisedIsServed'
<1>1. \A m \in Configs : ConfigPending(m) => ConfigPending(m)'
  BY DEF ConfigPending
<1>2. ConfigPending(configWorker.key)'
  BY DEF ConfigPending
<1>3. LoadedFresh'
  <2>1. SUFFICES ASSUME NEW m \in Configs, profiles[m] # NoProfile, ~ConfigPending(m)'
                 PROVE  Fresh(m, profiles[m])'
    BY DEF LoadedFresh
  <2>2. m # configWorker.key /\ Fresh(m, profiles[m])
    BY <1>1, <1>2, <2>1 DEF TrackInv, LoadedFresh
  <2>3. QED
    BY <2>2 DEF Fresh
<1>4. AdvertisedIsServed'
  BY <1>1, <1>2 DEF TrackInv, AdvertisedIsServed
<1>5. QED
  BY <1>3, <1>4

\* A pass that ends leaves its ProviderConfig fresh, unloaded for a reason, or queued.
LEMMA PassEnds ==
    ASSUME TrackInv, NEW n \in Configs, n = configWorker.key,
           configWorker' = IdleConfigWorker, configQueue \subseteq configQueue',
           \A m \in Configs \ {n} :
               /\ config'[m] = config[m] /\ clusterProfile'[m] = clusterProfile[m]
               /\ profiles'[m] = profiles[m],
           \/ n \in configQueue'
           \/ /\ profiles'[n] = NoProfile
              /\ clusterProfile'[n] = "absent" \/ config'[n].op = "ignore"
           \/ /\ profiles'[n] # NoProfile
              /\ config'[n].own
              /\ config'[n].op = "ignore" \/ profiles'[n] = config'[n].location
    PROVE  TrackInv'
<1>1. ReadConfig' /\ LoadsFresh'
  BY DEF IdleConfigWorker, ReadConfig, LoadsFresh
<1>2. \A m \in Configs \ {n} : ConfigPending(m) => ConfigPending(m)'
  BY DEF ConfigPending
<1>3. LoadedFresh'
  <2>1. SUFFICES ASSUME NEW m \in Configs, profiles'[m] # NoProfile, ~ConfigPending(m)'
                 PROVE  Fresh(m, profiles[m])'
    BY DEF LoadedFresh
  <2>2. CASE m = n
    BY <2>1, <2>2 DEF ConfigPending, Fresh
  <2>3. CASE m # n
    BY <1>2, <2>1, <2>3 DEF TrackInv, LoadedFresh, Fresh
  <2>4. QED
    BY <2>2, <2>3
<1>4. AdvertisedIsServed'
  <2>1. SUFFICES ASSUME NEW m \in Configs, clusterProfile'[m] # "absent",
                        profiles'[m] = NoProfile, config'[m].op # "ignore"
                 PROVE  ConfigPending(m)'
    BY DEF AdvertisedIsServed
  <2>2. CASE m = n
    BY <2>1, <2>2 DEF ConfigPending
  <2>3. CASE m # n
    BY <1>2, <2>1, <2>3 DEF TrackInv, AdvertisedIsServed
  <2>4. QED
    BY <2>2, <2>3
<1>5. QED
  BY <1>1, <1>3, <1>4 DEF TrackInv

\* The ProviderConfig controller loads what it has read, one step per action.
LEMMA ConfigReconcilerTracked ==
    ASSUME AdvertInv, TrackInv, ConfigReconciler
    PROVE  TrackInv'
<1> DEFINE n == configWorker.key
<1>1. /\ ConfigControllerType
      /\ config \in [Configs -> ConfigObject]
      /\ clusterProfile \in [Configs -> ProfileStates]
      /\ profiles \in [Configs -> Locations \cup {NoProfile}]
      /\ ReadConfig /\ LoadsFresh
  BY DEF AdvertInv, TypeInv, TypeOK, PlatformType, RuntimeType, TrackInv
<1>2. configWorker.pc # "idle" => n \in Configs /\ config[n] \in ConfigObject
  BY <1>1 DEF AdvertInv, TypeInv, KeysOK
<1>3. ASSUME NEW obj \in ConfigObject, n \in Configs, StoreConfig(n, obj)
      PROVE  /\ \A m \in Configs \ {n} : config'[m] = config[m]
             /\ obj.own => config'[n] = obj
  BY <1>1, <1>3, StoreConfigEffect
<1>4. ASSUME NEW w \in {configWorker, [configWorker EXCEPT !.profile = configWorker.location]},
             NEW failed \in BOOLEAN, Return(w, failed)
      PROVE  /\ configWorker'.pc = "finish" /\ configWorker'.key = n
             /\ configWorker'.failed = failed /\ configWorker'.location = configWorker.location
             /\ configWorker'.profile = w.profile
  BY <1>1, <1>4 DEF Return, ConfigControllerType
<1>5. ASSUME NEW pc \in ConfigPCs \ {"idle", "locking", "finish"}, n \in Configs,
             configWorker.pc \notin {"idle", "finish"},
             Continue(pc, config[n]), UNCHANGED profiles, configQueue \subseteq configQueue',
             \A m \in Configs \ {n} :
                 config'[m] = config[m] /\ clusterProfile'[m] = clusterProfile[m],
             pc = "advertise" => config'[n].own /\ config'[n].location = config[n].location
      PROVE  TrackInv'
  <2>1. /\ configWorker'.pc = pc /\ configWorker'.key = n
        /\ configWorker'.location = config[n].location
        /\ configWorker'.profile = NoProfile
    BY <1>1, <1>5 DEF Continue, ConfigControllerType, ReadConfig
  <2>2. ReadConfig'
    BY <1>1, <1>5, <2>1 DEF ReadConfig, ConfigObject
  <2>3. LoadsFresh'
    BY <1>5, <2>1 DEF LoadsFresh, Fresh
  <2>4. LoadedFresh' /\ AdvertisedIsServed'
    BY <1>5, <2>1, PassGoesOn
  <2>5. QED
    BY <2>2, <2>3, <2>4 DEF TrackInv
<1>6. ASSUME n \in Configs, configWorker.pc \notin {"idle", "locking", "finish"},
             Return(configWorker, TRUE), UNCHANGED profiles, configQueue \subseteq configQueue',
             \A m \in Configs \ {n} :
                 config'[m] = config[m] /\ clusterProfile'[m] = clusterProfile[m]
      PROVE  TrackInv'
  <2>1. /\ configWorker'.pc = "finish" /\ configWorker'.key = n /\ configWorker'.failed
        /\ configWorker'.location \in Locations /\ configWorker'.profile = NoProfile
    BY <1>1, <1>4, <1>6 DEF ReadConfig
  <2>2. ReadConfig' /\ LoadsFresh'
    BY <2>1 DEF ReadConfig, LoadsFresh
  <2>3. LoadedFresh' /\ AdvertisedIsServed'
    BY <1>6, <2>1, PassGoesOn
  <2>4. QED
    BY <2>2, <2>3 DEF TrackInv
<1>7. ASSUME n \in Configs, ConcludeWithoutObject(TRUE), UNCHANGED clusterProfile,
             \A m \in Configs \ {n} : config'[m] = config[m]
      PROVE  TrackInv'
  <2>1. /\ configWorker' = IdleConfigWorker /\ n \in configQueue'
        /\ configQueue \subseteq configQueue' /\ UNCHANGED profiles
    BY <1>7 DEF ConcludeWithoutObject, Requeue
  <2>2. QED
    BY <1>7, <2>1, PassEnds
<1>8. ASSUME n \in Configs, ConcludeWithoutObject(FALSE), UNCHANGED clusterProfile,
             \A m \in Configs \ {n} : config'[m] = config[m],
             clusterProfile[n] = "absent" \/ config'[n].op = "ignore"
      PROVE  TrackInv'
  <2>1. /\ configWorker' = IdleConfigWorker /\ configQueue \subseteq configQueue'
        /\ profiles'[n] = NoProfile /\ \A m \in Configs \ {n} : profiles'[m] = profiles[m]
    BY <1>1, <1>8 DEF ConcludeWithoutObject, UnsetProfile, SetProfile
  <2>2. QED
    BY <1>8, <2>1, PassEnds
<1>9. ASSUME NEW m \in Configs, ConfigDequeue(m) PROVE TrackInv'
  <2>1. /\ configWorker'.pc = "locking" /\ configWorker'.key = m
        /\ configWorker'.profile = NoProfile
        /\ UNCHANGED <<config, clusterProfile, profiles>>
    BY <1>9 DEF ConfigDequeue, IdleConfigWorker, platformVars
  <2>2. ReadConfig' /\ LoadsFresh'
    BY <2>1 DEF ReadConfig, LoadsFresh
  <2>3. \A k \in Configs : /\ ConfigPending(k) => ConfigPending(k)'
                           /\ k \in configQueue /\ k # m => k \in configQueue'
    BY <1>1, <1>9, <2>1, AbsenceAssumption DEF ConfigDequeue, ConfigPending, ReadConfig
  <2>4. ConfigPending(m)'
    BY <2>1 DEF ConfigPending
  <2>5. LoadedFresh' /\ AdvertisedIsServed'
    BY <2>1, <2>3, <2>4 DEF TrackInv, LoadedFresh, Fresh, AdvertisedIsServed
  <2>6. QED
    BY <2>2, <2>5 DEF TrackInv
<1>10. ASSUME ConfigGet PROVE TrackInv'
  <2>1. UNCHANGED <<config, clusterProfile>> /\ n \in Configs /\ configWorker.pc = "locking"
    BY <1>2, <1>10 DEF ConfigGet, platformVars
  <2>2. CASE ConcludeWithoutObject(TRUE)
    BY <1>7, <2>1, <2>2
  <2>3. CASE ConcludeWithoutObject(FALSE) /\ (~config[n].exists \/ config[n].op = "ignore")
    <3>1. ~config[n].exists => clusterProfile[n] = "absent"
      BY <2>1 DEF AdvertInv, AdvertisedGuarded, OwnConfigExists
    <3>2. QED
      BY <1>8, <2>1, <2>3, <3>1
  <2>4. CASE /\ Continue(IF config[n].op = "reconcile" THEN "unannotate"
                         ELSE ConfigHandler(config[n]), config[n])
             /\ UNCHANGED <<configQueue, profiles>>
    <3> DEFINE pc == IF config[n].op = "reconcile" THEN "unannotate" ELSE ConfigHandler(config[n])
    <3>1. /\ pc \in ConfigPCs \ {"idle", "locking", "finish"}
          /\ pc = "advertise" => config[n].own
      BY DEF ConfigHandler, ConfigPCs
    <3> HIDE DEF pc
    <3>2. QED
      BY <1>5, <2>1, <2>4, <3>1 DEF pc
  <2>5. \/ ConcludeWithoutObject(TRUE)
        \/ ConcludeWithoutObject(FALSE) /\ (~config[n].exists \/ config[n].op = "ignore")
        \/ /\ Continue(IF config[n].op = "reconcile" THEN "unannotate"
                       ELSE ConfigHandler(config[n]), config[n])
           /\ UNCHANGED <<configQueue, profiles>>
    BY <1>10 DEF ConfigGet, ReadOutcomes
  <2>6. QED
    BY <2>2, <2>3, <2>4, <2>5
<1>11. ASSUME ConfigUnannotate PROVE TrackInv'
  <2> DEFINE new == [config[n] EXCEPT !.op = "none"]
  <2>1. n \in Configs /\ UNCHANGED clusterProfile /\ configWorker.pc = "unannotate"
    BY <1>2, <1>11 DEF ConfigUnannotate
  <2>2. new \in ConfigObject /\ new.own = config[n].own /\ new.location = config[n].location
    BY <1>2, <2>1 DEF ConfigObject, Operations
  <2>3. UNCHANGED config \/ StoreConfig(n, new)
    BY <1>11 DEF ConfigUnannotate
  <2>4. \/ ConcludeWithoutObject(TRUE)
        \/ /\ Continue(ConfigHandler(config[n]), config[n]) /\ UNCHANGED profiles
           /\ configQueue \subseteq configQueue' /\ StoreConfig(n, new)
    BY <1>11 DEF ConfigUnannotate, Applied
  <2> HIDE DEF new
  <2>5. \A m \in Configs \ {n} : config'[m] = config[m]
    BY <1>3, <2>1, <2>2, <2>3
  <2>6. CASE ConcludeWithoutObject(TRUE)
    BY <1>7, <2>1, <2>5, <2>6
  <2>7. CASE /\ Continue(ConfigHandler(config[n]), config[n]) /\ UNCHANGED profiles
             /\ configQueue \subseteq configQueue' /\ StoreConfig(n, new)
    <3>1. ConfigHandler(config[n]) = "advertise" =>
              config'[n].own /\ config'[n].location = config[n].location
      BY <1>3, <2>1, <2>2, <2>7 DEF ConfigHandler
    <3>2. ConfigHandler(config[n]) \in ConfigPCs \ {"idle", "locking", "finish"}
      BY DEF ConfigHandler, ConfigPCs
    <3>3. QED
      BY <1>5, <2>1, <2>5, <2>7, <3>1, <3>2
  <2>8. QED
    BY <2>4, <2>6, <2>7
<1>12. ASSUME ConfigFinalize PROVE TrackInv'
  <2> DEFINE new == [config[n] EXCEPT !.own = TRUE]
  <2>1. /\ n \in Configs /\ UNCHANGED <<clusterProfile, profiles, configQueue>>
        /\ configWorker.pc = "finalize"
    BY <1>2, <1>12 DEF ConfigFinalize, runtimeVars
  <2>2. new \in ConfigObject /\ new.own /\ new.location = config[n].location
    BY <1>2, <2>1 DEF ConfigObject
  <2>3. UNCHANGED config \/ StoreConfig(n, new)
    BY <1>12 DEF ConfigFinalize
  <2>4. \/ Return(configWorker, TRUE)
        \/ Continue("advertise", config[n]) /\ StoreConfig(n, new)
    BY <1>12 DEF ConfigFinalize, Applied
  <2> HIDE DEF new
  <2>5. \A m \in Configs \ {n} : config'[m] = config[m]
    BY <1>3, <2>1, <2>2, <2>3
  <2>6. StoreConfig(n, new) => config'[n].own /\ config'[n].location = config[n].location
    BY <1>3, <2>1, <2>2
  <2>7. "advertise" \in ConfigPCs
    BY DEF ConfigPCs
  <2>8. QED
    BY <1>5, <1>6, <2>1, <2>4, <2>5, <2>6, <2>7
<1>13. ASSUME ConfigAdvertise PROVE TrackInv'
  <2>1. /\ n \in Configs /\ UNCHANGED <<config, profiles, configQueue>>
        /\ configWorker.pc = "advertise"
    BY <1>2, <1>13 DEF ConfigAdvertise, runtimeVars
  <2>2. \A m \in Configs \ {n} : clusterProfile'[m] = clusterProfile[m]
    BY <1>1, <1>13 DEF ConfigAdvertise
  <2> DEFINE done == [configWorker EXCEPT !.profile = configWorker.location]
  <2>3. CASE Return(done, FALSE)
    <3>1. /\ configWorker'.pc = "finish" /\ configWorker'.key = n
          /\ configWorker'.location = configWorker.location
          /\ configWorker'.profile = configWorker.location
      BY <1>1, <1>4, <2>3 DEF ConfigControllerType
    <3>2. ReadConfig'
      BY <1>1, <2>1, <3>1 DEF ReadConfig
    <3>3. LoadsFresh'
      BY <1>1, <2>1, <3>1 DEF LoadsFresh, Fresh
    <3>4. LoadedFresh' /\ AdvertisedIsServed'
      BY <2>1, <2>2, <3>1, PassGoesOn
    <3>5. QED
      BY <3>2, <3>3, <3>4 DEF TrackInv
  <2>4. CASE Return(configWorker, TRUE)
    BY <1>6, <2>1, <2>2, <2>4
  <2>5. QED
    BY <1>13, <2>3, <2>4 DEF ConfigAdvertise
<1>14. ASSUME ConfigUnadvertise PROVE TrackInv'
  <2>1. /\ n \in Configs /\ UNCHANGED <<config, profiles, configQueue>>
        /\ configWorker.pc = "unadvertise"
    BY <1>2, <1>14 DEF ConfigUnadvertise, runtimeVars
  <2>2. \A m \in Configs \ {n} : clusterProfile'[m] = clusterProfile[m]
    BY <1>1, <1>14 DEF ConfigUnadvertise
  <2>3. CASE configWorker' = [configWorker EXCEPT !.pc = "release"]
    <3>1. /\ configWorker'.pc = "release" /\ configWorker'.key = n
          /\ configWorker'.location = configWorker.location
          /\ configWorker'.profile = configWorker.profile
      BY <1>1, <2>3 DEF ConfigControllerType
    <3>2. ReadConfig' /\ LoadsFresh'
      BY <1>1, <2>1, <3>1 DEF ReadConfig, LoadsFresh
    <3>3. QED
      BY <2>1, <2>2, <3>1, <3>2, PassGoesOn DEF TrackInv
  <2>4. CASE Return(configWorker, TRUE)
    BY <1>6, <2>1, <2>2, <2>4
  <2>5. QED
    BY <1>14, <2>3, <2>4 DEF ConfigUnadvertise
<1>15. ASSUME ConfigRelease PROVE TrackInv'
  <2> DEFINE new == [config[n] EXCEPT !.own = FALSE]
  <2>1. n \in Configs /\ UNCHANGED clusterProfile /\ configWorker.pc = "release"
    BY <1>2, <1>15 DEF ConfigRelease
  <2>2. new \in ConfigObject
    BY <1>2, <2>1 DEF ConfigObject
  <2>3. UNCHANGED config \/ StoreConfig(n, new)
    BY <1>15 DEF ConfigRelease
  <2>4. \/ ConcludeWithoutObject(FALSE)
        \/ /\ Return(configWorker, TRUE) /\ UNCHANGED profiles
           /\ configQueue \subseteq configQueue'
    BY <1>15 DEF ConfigRelease, runtimeVars
  <2> HIDE DEF new
  <2>5. \A m \in Configs \ {n} : config'[m] = config[m]
    BY <1>3, <2>1, <2>2, <2>3
  <2>6. clusterProfile[n] = "absent"
    BY <2>1 DEF AdvertInv, AdvertiserGuarded
  <2>7. QED
    BY <1>6, <1>8, <2>1, <2>4, <2>5, <2>6
<1>16. ASSUME ConfigFinish PROVE TrackInv'
  <2>1. /\ n \in Configs /\ UNCHANGED <<config, clusterProfile>>
        /\ configWorker.pc = "finish" /\ configWorker' = IdleConfigWorker
        /\ configQueue \subseteq configQueue'
    BY <1>2, <1>16 DEF ConfigFinish, platformVars
  <2>2. CASE configWorker.profile = NoProfile
    <3>1. UNCHANGED profiles
      BY <1>16, <2>2 DEF ConfigFinish
    <3>2. n \in configQueue'
      BY <1>1, <1>16, <2>1, <2>2, AbsenceAssumption DEF ConfigFinish, ReadConfig, Requeue
    <3>3. QED
      BY <2>1, <3>1, <3>2, PassEnds
  <2>3. CASE configWorker.profile # NoProfile
    <3>1. /\ profiles'[n] = configWorker.profile
          /\ \A m \in Configs \ {n} : profiles'[m] = profiles[m]
      BY <1>1, <1>16, <2>1, <2>3 DEF ConfigFinish, SetProfile
    <3>2. configWorker.profile = configWorker.location /\ Fresh(n, configWorker.location)
      BY <1>1, <2>1, <2>3 DEF ReadConfig, LoadsFresh
    <3>3. /\ config'[n].own
          /\ \/ n \in configQueue' \/ config'[n].op = "ignore"
             \/ profiles'[n] = config'[n].location
      BY <2>1, <3>1, <3>2 DEF Fresh
    <3>4. QED
      BY <2>1, <2>3, <3>1, <3>3, PassEnds
  <2>4. QED
    BY <2>2, <2>3
<1>17. QED
  BY <1>9, <1>10, <1>11, <1>12, <1>13, <1>14, <1>15, <1>16
     DEF ConfigReconciler, ConfigControllerNext, ConfigStep

\* TrackInv is inductive, given AdvertInv.
LEMMA TrackInvInductive == AdvertInv /\ TrackInv /\ [Next]_vars => TrackInv'
<1> SUFFICES ASSUME AdvertInv, TrackInv, [Next]_vars PROVE TrackInv'
  OBVIOUS
<1>1. AdvertInv'
  BY AdvertInvInductive
<1>2. CASE Cloud \/ ClusterReconciler \/ OtherReconciler \/ UNCHANGED vars
  <2>1. UNCHANGED <<config, clusterProfile, profiles, configQueue, configWorker>>
    BY <1>2, OtherReconcilerEffect
    DEF ReaderFrame, Cloud, ClusterReconciler, ClusterControllerNext, ClusterStep, DeliverProfileEvent,
         ClusterDequeue, ClusterGet, ClusterUnannotate, ClusterFinalize, ClusterRead,
         ClusterCreate, ClusterLabel, ClusterReadForDelete, ClusterDelete, ClusterRelease,
         ClusterStatus, configControllerVars, platformVars, processVars, runtimeVars, vars
  <2>2. QED
    BY <2>1 DEF TrackInv, ReadConfig, LoadsFresh, LoadedFresh, Fresh, ConfigPending,
                AdvertisedIsServed
<1>3. CASE Restart
  <2>1. ReadConfig' /\ LoadsFresh'
    BY <1>3 DEF Restart, IdleConfigWorker, ReadConfig, LoadsFresh
  <2>2. LoadedFresh'
    BY <1>3 DEF Restart, NewProfiles, LoadedFresh
  <2>3. AdvertisedIsServed'
    BY <1>3 DEF Restart, platformVars, AdvertisedIsServed, ConfigPending, AdvertInv,
                AdvertisedGuarded, OwnConfigExists
  <2>4. QED
    BY <2>1, <2>2, <2>3 DEF TrackInv
<1>4. QED
  BY <1>1, <1>2, <1>3, UserTracked, ConfigReconcilerTracked DEF Next

\* TrackInv holds in every reachable state.
LEMMA TrackInvAlways == Spec => []TrackInv
<1>1. Init => TrackInv
  BY DEF Init, PlatformInit, RuntimeInit, NewProfiles, ConfigControllerInit, IdleConfigWorker,
         TrackInv, ReadConfig, LoadsFresh, LoadedFresh, AdvertisedIsServed
<1>2. QED
  BY <1>1, TrackInvInductive, AdvertInvAlways, PTL DEF Spec

\* A loaded profile is that of the ProviderConfig as it is now, or the config is due:
\* no change of it between the steps of a pass is forgotten (ConfigFinish).
THEOREM ProfilesTrackConfigs == Spec => []ProfileTracksConfig
<1>1. TrackInv => ProfileTracksConfig
  BY DEF TrackInv, LoadedFresh, Fresh, ProfileTracksConfig, ConfigPending
<1>2. QED
  BY <1>1, TrackInvAlways, PTL

\* Schedulers see a ClusterProfile only of a config that is loaded, due, or to be
\* left alone, across failed passes and restarts.
THEOREM AdvertisedProfilesServed == Spec => []AdvertisedIsServed
<1>1. TrackInv => AdvertisedIsServed
  BY DEF TrackInv
<1>2. QED
  BY <1>1, TrackInvAlways, PTL

-----------------------------------------------------------------------------
(***************************************************************************)
(* Nothing asked of a ProviderConfig is forgotten.                         *)
(***************************************************************************)
\* No step takes back the deletion of ProviderConfig n.
DeletionKept(n) == config[n].deleting => config'[n].deleting

\* Storing a ProviderConfig that stays marked, and guarded, if it was.
LEMMA StoreConfigMarks ==
    ASSUME TypeInv, MarkedConfigs, NEW n \in Configs, NEW obj \in ConfigObject,
           config[n].deleting => obj.deleting /\ obj.own, StoreConfig(n, obj)
    PROVE  MarkedConfigs' /\ \A m \in Configs : DeletionKept(m)
<1>1. config \in [Configs -> ConfigObject]
  BY DEF TypeInv, TypeOK, PlatformType
<1>2. NoConfig(n).deleting = FALSE
  BY DEF NoConfig
<1>3. QED
  BY <1>1, <1>2, StoreConfigEffect DEF MarkedConfigs, DeletionKept

\* Users mark ProviderConfigs and take no mark back.
LEMMA UserMarksConfigs ==
    ASSUME AdvertInv, MarkedConfigs, User
    PROVE  MarkedConfigs' /\ \A n \in Configs : DeletionKept(n)
<1> DEFINE Goal == MarkedConfigs' /\ \A n \in Configs : DeletionKept(n)
<1>1. TypeInv /\ config \in [Configs -> ConfigObject]
  BY DEF AdvertInv, TypeInv, TypeOK, PlatformType
<1>2. ASSUME NEW n \in Configs, NEW obj \in ConfigObject, obj.own = config[n].own,
             config[n].deleting => obj.deleting, StoreConfig(n, obj)
      PROVE  Goal
  BY <1>1, <1>2, StoreConfigMarks DEF MarkedConfigs
<1>3. ASSUME UNCHANGED config PROVE Goal
  BY <1>3 DEF MarkedConfigs, DeletionKept
<1>4. ASSUME NEW n \in Configs, NEW l \in Locations, CreateConfig(n, l) PROVE Goal
  <2> DEFINE obj == [NoConfig(n) EXCEPT !.exists = TRUE, !.location = l]
  <2>1. obj \in ConfigObject
    BY DEF NoConfig, ConfigObject, Operations
  <2>2. ~config[n].deleting /\ StoreConfig(n, obj)
    BY <1>1, <1>4 DEF CreateConfig, AdvertInv, OwnConfigExists, MarkedConfigs, ConfigObject
  <2> HIDE DEF obj
  <2>3. QED
    BY <1>1, <2>1, <2>2, StoreConfigMarks
<1>5. ASSUME NEW n \in Configs, NEW l \in Locations, Relocate(n, l) PROVE Goal
  <2> DEFINE obj == [config[n] EXCEPT !.location = l]
  <2>1. obj \in ConfigObject /\ obj.own = config[n].own /\ obj.deleting = config[n].deleting
    BY <1>1 DEF ConfigObject
  <2>2. QED
    BY <1>2, <1>5, <2>1 DEF Relocate
<1>6. ASSUME NEW n \in Configs, NEW op \in ConfigOps \cup {"none"}, AnnotateConfig(n, op)
      PROVE  Goal
  <2> DEFINE obj == [config[n] EXCEPT !.op = op]
  <2>1. obj \in ConfigObject /\ obj.own = config[n].own /\ obj.deleting = config[n].deleting
    BY <1>1, OperationsAssumption DEF ConfigObject, Operations
  <2>2. QED
    BY <1>2, <1>6, <2>1 DEF AnnotateConfig
<1>7. ASSUME NEW n \in Configs, DeleteConfig(n) PROVE Goal
  <2> DEFINE obj == [config[n] EXCEPT !.deleting = TRUE]
  <2>1. obj \in ConfigObject /\ obj.own = config[n].own /\ obj.deleting
    BY <1>1 DEF ConfigObject
  <2>2. QED
    BY <1>2, <1>7, <2>1 DEF DeleteConfig
<1>8. QED
  BY <1>3, <1>4, <1>5, <1>6, <1>7
     DEF User, UserNext, CreateCluster, DeleteCluster, AnnotateCluster, AddForeign, RemoveForeign

\* Whatever the watch lets pass by leaves a config that is not to be ignored as it
\* was, but for its finalizer.
LEMMA UnseenConfigChange ==
    ASSUME NEW n \in Configs, n \notin ConfigEvents, config'[n].exists, config'[n].op # "ignore",
           config \in [Configs -> ConfigObject], config' \in [Configs -> ConfigObject]
    PROVE  /\ config[n].exists /\ config[n].op # "ignore"
           /\ config'[n].deleting = config[n].deleting
           /\ config'[n].location = config[n].location
  BY DEF ConfigEvents, PassesFilter, ConfigObject

\* A step of users, whose changes the watch sees.
LEMMA UserRemembered ==
    ASSUME AdvertInv, AdvertInv', MemoryInv, User
    PROVE  MemoryInv'
<1>1. UNCHANGED <<configWorker, profiles, clusterProfile>>
  BY DEF User, UserNext, runtimeVars
<1>2. configQueue \cup ConfigEvents \subseteq configQueue'
  BY DEF User
<1>3. config \in [Configs -> ConfigObject] /\ config' \in [Configs -> ConfigObject]
  BY DEF AdvertInv, TypeInv, TypeOK, PlatformType
<1>4. MarkedConfigs' /\ \A n \in Configs : DeletionKept(n) /\ ConfigKept(n)
  BY UserMarksConfigs, UserKeepsConfigs DEF AdvertInv, MemoryInv
<1>5. PassRemembers'
  <2> DEFINE n == configWorker.key
  <2>1. configWorker.pc # "idle" => n \in Configs
    BY DEF AdvertInv, TypeInv, KeysOK
  <2>2. configWorker.pc \in {"unadvertise", "release"} => config'[n].deleting
    BY <1>4, <2>1 DEF MemoryInv, PassRemembers, DeletionKept
  <2>3. ASSUME configWorker.pc = "advertise"
               \/ (configWorker.pc = "finish" /\ configWorker.profile # NoProfile)
        PROVE  n \in configQueue' \/ config'[n].op = "ignore" \/ ~config'[n].deleting
    <3>1. n \in Configs /\ (n \in configQueue \/ config[n].op = "ignore" \/ ~config[n].deleting)
      BY <2>1, <2>3 DEF MemoryInv, PassRemembers
    <3>2. config'[n].deleting => config'[n].exists
      BY <1>4, <3>1 DEF MarkedConfigs, AdvertInv, OwnConfigExists
    <3>3. QED
      BY <1>2, <1>3, <3>1, <3>2, UnseenConfigChange
  <2>4. QED
    BY <1>1, <2>2, <2>3 DEF MemoryInv, PassRemembers
<1>6. NoConfigForgotten'
  <2>1. SUFFICES ASSUME NEW n \in Configs, config'[n].exists, config'[n].op # "ignore",
                        n \notin configQueue', configWorker.key # n
                 PROVE  Served(n)'
    BY <1>1 DEF NoConfigForgotten, ConfigPending
  <2>2. /\ config[n].exists /\ config[n].op # "ignore"
        /\ config'[n].deleting = config[n].deleting /\ config'[n].location = config[n].location
    BY <1>2, <1>3, <2>1, UnseenConfigChange
  <2>3. Served(n)
    BY <1>2, <2>1, <2>2 DEF MemoryInv, NoConfigForgotten, ConfigPending
  <2>4. QED
    BY <1>1, <1>4, <2>2, <2>3 DEF Served, ConfigKept
<1>7. QED
  BY <1>4, <1>5, <1>6 DEF MemoryInv

\* A pass that goes on has its ProviderConfig on its mind, and touches no other.
LEMMA PassKeepsMind ==
    ASSUME MemoryInv, UNCHANGED profiles, configWorker'.key = configWorker.key,
           configQueue \subseteq configQueue',
           \A m \in Configs \ {configWorker.key} :
               config'[m] = config[m] /\ clusterProfile'[m] = clusterProfile[m]
    PROVE  NoConfigForgotten'
  BY DEF MemoryInv, NoConfigForgotten, ConfigPending, Served

\* A pass that ends has served its ProviderConfig, if it is not queued again.
LEMMA PassDone ==
    ASSUME MemoryInv, NEW n \in Configs, n = configWorker.key,
           configWorker' = IdleConfigWorker, configQueue \subseteq configQueue',
           \A m \in Configs \ {n} :
               /\ config'[m] = config[m] /\ clusterProfile'[m] = clusterProfile[m]
               /\ profiles'[m] = profiles[m],
           n \in configQueue' \/ ~config'[n].exists \/ config'[n].op = "ignore" \/ Served(n)'
    PROVE  PassRemembers' /\ NoConfigForgotten'
<1>1. PassRemembers'
  BY DEF IdleConfigWorker, PassRemembers
<1>2. ASSUME NEW m \in Configs, m # n, config'[m].exists, config'[m].op # "ignore"
      PROVE  ConfigPending(m)' \/ Served(m)'
  <2>1. ConfigPending(m) \/ Served(m)
    BY <1>2 DEF MemoryInv, NoConfigForgotten
  <2>2. QED
    BY <1>2, <2>1 DEF ConfigPending, Served
<1>3. NoConfigForgotten'
  BY <1>2 DEF NoConfigForgotten, ConfigPending
<1>4. QED
  BY <1>1, <1>3

\* The ProviderConfig controller serves its configs or comes back, one step per action.
LEMMA ConfigReconcilerRemembers ==
    ASSUME AdvertInv, TrackInv, MemoryInv, ConfigReconciler
    PROVE  MemoryInv'
<1> DEFINE n == configWorker.key
<1>1. /\ ConfigControllerType /\ TypeInv
      /\ config \in [Configs -> ConfigObject]
      /\ clusterProfile \in [Configs -> ProfileStates]
      /\ profiles \in [Configs -> Locations \cup {NoProfile}]
      /\ ReadConfig /\ LoadsFresh /\ MarkedConfigs /\ PassRemembers
  BY DEF AdvertInv, TypeInv, TypeOK, PlatformType, RuntimeType, TrackInv, MemoryInv
<1>2. configWorker.pc # "idle" => n \in Configs /\ config[n] \in ConfigObject
  BY <1>1 DEF TypeInv, KeysOK
<1>3. ASSUME NEW obj \in ConfigObject, n \in Configs, StoreConfig(n, obj),
             obj.deleting = config[n].deleting, config[n].deleting => obj.own
      PROVE  /\ MarkedConfigs' /\ \A m \in Configs \ {n} : config'[m] = config[m]
             /\ config'[n] = obj
  <2>1. MarkedConfigs' /\ DeletionKept(n)
    BY <1>1, <1>3, StoreConfigMarks
  <2>2. obj.deleting => obj.own
    BY <1>2, <1>3 DEF ConfigObject
  <2>3. QED
    BY <1>1, <1>3, <2>1, <2>2, StoreConfigEffect
<1>4. ASSUME n \in Configs, ConcludeWithoutObject(TRUE), UNCHANGED clusterProfile,
             \A m \in Configs \ {n} : config'[m] = config[m]
      PROVE  PassRemembers' /\ NoConfigForgotten'
  <2>1. /\ configWorker' = IdleConfigWorker /\ n \in configQueue'
        /\ configQueue \subseteq configQueue' /\ UNCHANGED profiles
    BY <1>4 DEF ConcludeWithoutObject, Requeue
  <2>2. QED
    BY <1>4, <2>1, PassDone
<1>5. ASSUME n \in Configs, ConcludeWithoutObject(FALSE), UNCHANGED clusterProfile,
             \A m \in Configs \ {n} : config'[m] = config[m],
             ~config'[n].exists \/ config'[n].op = "ignore"
      PROVE  PassRemembers' /\ NoConfigForgotten'
  <2>1. /\ configWorker' = IdleConfigWorker /\ configQueue \subseteq configQueue'
        /\ \A m \in Configs \ {n} : profiles'[m] = profiles[m]
    BY <1>1, <1>5 DEF ConcludeWithoutObject, UnsetProfile, SetProfile
  <2>2. QED
    BY <1>5, <2>1, PassDone
<1>6. ASSUME n \in Configs, configWorker.pc # "finish", Return(configWorker, TRUE),
             UNCHANGED profiles, configQueue \subseteq configQueue',
             \A m \in Configs \ {n} :
                 config'[m] = config[m] /\ clusterProfile'[m] = clusterProfile[m]
      PROVE  PassRemembers' /\ NoConfigForgotten'
  <2>1. /\ configWorker'.pc = "finish" /\ configWorker'.key = n
        /\ configWorker'.profile = NoProfile
    BY <1>1, <1>6 DEF Return, ConfigControllerType, ReadConfig
  <2>2. QED
    BY <1>6, <2>1, PassKeepsMind DEF PassRemembers
<1>7. ASSUME n \in Configs, NEW pc \in ConfigPCs \ {"idle", "locking", "finish"}, NEW obj,
             Continue(pc, obj), UNCHANGED profiles, configQueue \subseteq configQueue',
             \A m \in Configs \ {n} :
                 config'[m] = config[m] /\ clusterProfile'[m] = clusterProfile[m],
             pc \in {"unadvertise", "release"} => config'[n].deleting,
             pc = "advertise" => ~config'[n].deleting
      PROVE  PassRemembers' /\ NoConfigForgotten'
  <2>1. configWorker'.pc = pc /\ configWorker'.key = n
    BY <1>1, <1>7 DEF Continue, ConfigControllerType
  <2>2. QED
    BY <1>7, <2>1, PassKeepsMind DEF PassRemembers
<1>8. ASSUME NEW m \in Configs, ConfigDequeue(m) PROVE MemoryInv'
  <2>1. /\ configWorker'.pc = "locking" /\ configWorker'.key = m
        /\ UNCHANGED <<config, clusterProfile, profiles>>
    BY <1>8 DEF ConfigDequeue, IdleConfigWorker, platformVars
  <2>2. MarkedConfigs' /\ PassRemembers'
    BY <1>1, <2>1 DEF MarkedConfigs, PassRemembers
  <2>3. \A k \in Configs : ConfigPending(k) => ConfigPending(k)'
    BY <1>1, <1>8, <2>1, AbsenceAssumption DEF ConfigDequeue, ConfigPending, ReadConfig
  <2>4. NoConfigForgotten'
    BY <2>1, <2>3 DEF MemoryInv, NoConfigForgotten, Served
  <2>5. QED
    BY <2>2, <2>4 DEF MemoryInv
<1>9. ASSUME ConfigGet PROVE MemoryInv'
  <2> DEFINE pc == IF config[n].op = "reconcile" THEN "unannotate" ELSE ConfigHandler(config[n])
  <2>1. UNCHANGED <<config, clusterProfile>> /\ n \in Configs /\ configWorker.pc = "locking"
    BY <1>2, <1>9 DEF ConfigGet, platformVars
  <2>2. MarkedConfigs'
    BY <1>1, <2>1 DEF MarkedConfigs
  <2>3. \/ ConcludeWithoutObject(TRUE)
        \/ ConcludeWithoutObject(FALSE) /\ (~config[n].exists \/ config[n].op = "ignore")
        \/ Continue(pc, config[n]) /\ UNCHANGED <<configQueue, profiles>>
    BY <1>9 DEF ConfigGet, ReadOutcomes
  <2>4. /\ pc \in ConfigPCs \ {"idle", "locking", "finish"}
        /\ pc \in {"unadvertise", "release"} => config[n].deleting
        /\ pc = "advertise" => ~config[n].deleting
    BY DEF ConfigHandler, ConfigPCs
  <2> HIDE DEF pc
  <2>5. PassRemembers' /\ NoConfigForgotten'
    BY <1>4, <1>5, <1>7, <2>1, <2>3, <2>4
  <2>6. QED
    BY <2>2, <2>5 DEF MemoryInv
<1>10. ASSUME ConfigUnannotate PROVE MemoryInv'
  <2> DEFINE new == [config[n] EXCEPT !.op = "none"]
             pc == ConfigHandler(config[n])
  <2>1. n \in Configs /\ UNCHANGED clusterProfile
    BY <1>2, <1>10 DEF ConfigUnannotate
  <2>2. /\ new \in ConfigObject /\ new.deleting = config[n].deleting
        /\ config[n].deleting => new.own
    BY <1>1, <1>2, <1>10 DEF ConfigUnannotate, ConfigObject, Operations, MarkedConfigs
  <2>3. UNCHANGED config \/ StoreConfig(n, new)
    BY <1>10 DEF ConfigUnannotate
  <2>4. \/ ConcludeWithoutObject(TRUE)
        \/ /\ Continue(pc, config[n]) /\ UNCHANGED profiles
           /\ configQueue \subseteq configQueue'
    BY <1>10 DEF ConfigUnannotate
  <2>5. /\ pc \in ConfigPCs \ {"idle", "locking", "finish"}
        /\ pc \in {"unadvertise", "release"} => config[n].deleting
        /\ pc = "advertise" => ~config[n].deleting
    BY DEF ConfigHandler, ConfigPCs
  <2> HIDE DEF new, pc
  <2>6. /\ MarkedConfigs' /\ config'[n].deleting = config[n].deleting
        /\ \A m \in Configs \ {n} : config'[m] = config[m]
    BY <1>1, <1>3, <2>1, <2>2, <2>3 DEF MarkedConfigs
  <2>7. PassRemembers' /\ NoConfigForgotten'
    BY <1>4, <1>7, <2>1, <2>4, <2>5, <2>6
  <2>8. QED
    BY <2>6, <2>7 DEF MemoryInv
<1>11. ASSUME ConfigFinalize PROVE MemoryInv'
  <2> DEFINE new == [config[n] EXCEPT !.own = TRUE]
  <2>1. /\ n \in Configs /\ UNCHANGED <<clusterProfile, profiles, configQueue>>
        /\ configWorker.pc = "finalize"
    BY <1>2, <1>11 DEF ConfigFinalize, runtimeVars
  <2>2. /\ new \in ConfigObject /\ new.deleting = config[n].deleting
        /\ config[n].deleting => new.own
    BY <1>2, <2>1 DEF ConfigObject
  <2>3. UNCHANGED config \/ StoreConfig(n, new)
    BY <1>11 DEF ConfigFinalize
  <2>4. \/ Return(configWorker, TRUE)
        \/ Continue("advertise", config[n]) /\ ~config[n].deleting
    BY <1>11 DEF ConfigFinalize
  <2> HIDE DEF new
  <2>5. /\ MarkedConfigs' /\ config'[n].deleting = config[n].deleting
        /\ \A m \in Configs \ {n} : config'[m] = config[m]
    BY <1>1, <1>3, <2>1, <2>2, <2>3 DEF MarkedConfigs
  <2>6. "advertise" \in ConfigPCs \ {"idle", "locking", "finish"}
    BY DEF ConfigPCs
  <2>7. PassRemembers' /\ NoConfigForgotten'
    BY <1>6, <1>7, <2>1, <2>4, <2>5, <2>6
  <2>8. QED
    BY <2>5, <2>7 DEF MemoryInv
<1>12. ASSUME ConfigAdvertise PROVE MemoryInv'
  <2> DEFINE done == [configWorker EXCEPT !.profile = configWorker.location]
  <2>1. /\ n \in Configs /\ UNCHANGED <<config, profiles, configQueue>>
        /\ configWorker.pc = "advertise"
    BY <1>2, <1>12 DEF ConfigAdvertise, runtimeVars
  <2>2. MarkedConfigs'
    BY <1>1, <2>1 DEF MarkedConfigs
  <2>3. \A m \in Configs \ {n} : clusterProfile'[m] = clusterProfile[m]
    BY <1>1, <1>12 DEF ConfigAdvertise
  <2>4. CASE Return(done, FALSE) /\ clusterProfile'[n] # "absent"
    <3>1. configWorker'.pc = "finish" /\ configWorker'.key = n
      BY <1>1, <2>4 DEF Return, ConfigControllerType
    <3>2. PassRemembers'
      BY <1>1, <2>1, <2>4, <3>1 DEF PassRemembers
    <3>3. QED
      BY <2>1, <2>2, <2>3, <3>1, <3>2, PassKeepsMind DEF MemoryInv
  <2>5. CASE Return(configWorker, TRUE)
    BY <1>6, <2>1, <2>2, <2>3, <2>5 DEF MemoryInv
  <2>6. \/ Return(done, FALSE) /\ clusterProfile'[n] # "absent"
        \/ Return(configWorker, TRUE)
    BY <1>1, <1>12, <2>1 DEF ConfigAdvertise, Applied
  <2>7. QED
    BY <2>4, <2>5, <2>6
<1>13. ASSUME ConfigUnadvertise PROVE MemoryInv'
  <2>1. /\ n \in Configs /\ UNCHANGED <<config, profiles, configQueue>>
        /\ configWorker.pc = "unadvertise"
    BY <1>2, <1>13 DEF ConfigUnadvertise, runtimeVars
  <2>2. MarkedConfigs'
    BY <1>1, <2>1 DEF MarkedConfigs
  <2>3. \A m \in Configs \ {n} : clusterProfile'[m] = clusterProfile[m]
    BY <1>1, <1>13 DEF ConfigUnadvertise
  <2>4. CASE configWorker' = [configWorker EXCEPT !.pc = "release"]
    <3>1. configWorker'.pc = "release" /\ configWorker'.key = n
      BY <1>1, <2>4 DEF ConfigControllerType
    <3>2. PassRemembers'
      BY <1>1, <2>1, <3>1 DEF PassRemembers
    <3>3. QED
      BY <2>1, <2>2, <2>3, <3>1, <3>2, PassKeepsMind DEF MemoryInv
  <2>5. CASE Return(configWorker, TRUE)
    BY <1>6, <2>1, <2>2, <2>3, <2>5 DEF MemoryInv
  <2>6. QED
    BY <1>13, <2>4, <2>5 DEF ConfigUnadvertise
<1>14. ASSUME ConfigRelease PROVE MemoryInv'
  <2> DEFINE new == [config[n] EXCEPT !.own = FALSE]
  <2>1. /\ n \in Configs /\ UNCHANGED clusterProfile /\ configWorker.pc = "release"
        /\ config[n].deleting
    BY <1>1, <1>2, <1>14 DEF ConfigRelease, PassRemembers
  <2>2. new \in ConfigObject /\ new.deleting /\ ~new.own
    BY <1>2, <2>1 DEF ConfigObject
  <2>3. UNCHANGED config \/ StoreConfig(n, new)
    BY <1>14 DEF ConfigRelease
  <2>4. \/ ConcludeWithoutObject(FALSE) /\ StoreConfig(n, new)
        \/ /\ Return(configWorker, TRUE) /\ UNCHANGED profiles
           /\ configQueue \subseteq configQueue'
    BY <1>14 DEF ConfigRelease, runtimeVars, Applied
  <2> HIDE DEF new
  <2>5. StoreConfig(n, new) => config'[n] = NoConfig(n) /\ \A m \in Configs \ {n} : config'[m] = config[m]
    BY <1>1, <2>1, <2>2, StoreConfigEffect
  <2>6. ~NoConfig(n).exists /\ ~NoConfig(n).deleting
    BY DEF NoConfig
  <2>7. MarkedConfigs' /\ \A m \in Configs \ {n} : config'[m] = config[m]
    BY <1>1, <2>3, <2>5, <2>6 DEF MarkedConfigs
  <2>8. PassRemembers' /\ NoConfigForgotten'
    BY <1>5, <1>6, <2>1, <2>4, <2>5, <2>6, <2>7
  <2>9. QED
    BY <2>7, <2>8 DEF MemoryInv
<1>15. ASSUME ConfigFinish PROVE MemoryInv'
  <2>1. /\ n \in Configs /\ UNCHANGED <<config, clusterProfile>>
        /\ configWorker.pc = "finish" /\ configWorker' = IdleConfigWorker
        /\ configQueue \subseteq configQueue'
    BY <1>2, <1>15 DEF ConfigFinish, platformVars
  <2>2. MarkedConfigs'
    BY <1>1, <2>1 DEF MarkedConfigs
  <2>3. CASE configWorker.profile = NoProfile
    <3>1. UNCHANGED profiles
      BY <1>15, <2>3 DEF ConfigFinish
    <3>2. n \in configQueue'
      BY <1>1, <1>15, <2>1, <2>3, AbsenceAssumption DEF ConfigFinish, ReadConfig, Requeue
    <3>3. QED
      BY <2>1, <2>2, <3>1, <3>2, PassDone DEF MemoryInv
  <2>4. CASE configWorker.profile # NoProfile
    <3>1. /\ profiles'[n] = configWorker.profile
          /\ \A m \in Configs \ {n} : profiles'[m] = profiles[m]
      BY <1>1, <1>15, <2>1, <2>4 DEF ConfigFinish, SetProfile
    <3>2. /\ configWorker.profile = configWorker.location /\ Fresh(n, configWorker.location)
          /\ n \in configQueue \/ config[n].op = "ignore" \/ ~config[n].deleting
          /\ clusterProfile[n] # "absent"
      BY <1>1, <2>1, <2>4 DEF ReadConfig, LoadsFresh, PassRemembers
    <3>3. \A m \in Configs :
              m = n => m \in configQueue' \/ config'[m].op = "ignore" \/ Served(m)'
      BY <2>1, <3>1, <3>2 DEF Fresh, Served
    <3>4. QED
      BY <2>1, <2>2, <3>1, <3>3, PassDone DEF MemoryInv
  <2>5. QED
    BY <2>3, <2>4
<1>16. QED
  BY <1>8, <1>9, <1>10, <1>11, <1>12, <1>13, <1>14, <1>15
     DEF ConfigReconciler, ConfigControllerNext, ConfigStep

\* MemoryInv is inductive, given what is known of loaded profiles.
LEMMA MemoryInvInductive == AdvertInv /\ TrackInv /\ MemoryInv /\ [Next]_vars => MemoryInv'
<1> SUFFICES ASSUME AdvertInv, TrackInv, MemoryInv, [Next]_vars PROVE MemoryInv'
  OBVIOUS
<1>1. AdvertInv'
  BY AdvertInvInductive
<1>2. CASE Cloud \/ ClusterReconciler \/ OtherReconciler \/ UNCHANGED vars
  <2>1. UNCHANGED <<config, clusterProfile, profiles, configQueue, configWorker>>
    BY <1>2, OtherReconcilerEffect
    DEF ReaderFrame, Cloud, ClusterReconciler, ClusterControllerNext, ClusterStep, DeliverProfileEvent,
         ClusterDequeue, ClusterGet, ClusterUnannotate, ClusterFinalize, ClusterRead,
         ClusterCreate, ClusterLabel, ClusterReadForDelete, ClusterDelete, ClusterRelease,
         ClusterStatus, configControllerVars, platformVars, processVars, runtimeVars, vars
  <2>2. QED
    BY <2>1 DEF MemoryInv, MarkedConfigs, PassRemembers, NoConfigForgotten, ConfigPending, Served
<1>3. CASE Restart
  BY <1>3 DEF Restart, platformVars, IdleConfigWorker, MemoryInv, MarkedConfigs, PassRemembers,
              NoConfigForgotten, ConfigPending
<1>4. QED
  BY <1>1, <1>2, <1>3, UserRemembered, ConfigReconcilerRemembers DEF Next

\* MemoryInv holds in every reachable state.
LEMMA MemoryInvAlways == Spec => []MemoryInv
<1>1. Init => MemoryInv
  BY DEF Init, PlatformInit, NoConfig, ConfigControllerInit, IdleConfigWorker, MemoryInv,
         MarkedConfigs, PassRemembers, NoConfigForgotten
<1>2. QED
  BY <1>1, MemoryInvInductive, AdvertInvAlways, TrackInvAlways, PTL DEF Spec

\* Whatever fails, restarts or changes when, a ProviderConfig that is not to be left
\* alone is served as it is now, or the controller will come to it.
THEOREM ConfigsRemembered == Spec => []NoConfigForgotten
<1>1. MemoryInv => NoConfigForgotten
  BY DEF MemoryInv
<1>2. QED
  BY <1>1, MemoryInvAlways, PTL
=============================================================================
