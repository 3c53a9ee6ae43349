---------------------- MODULE ProviderConfigController ----------------------
(***************************************************************************)
(* ProviderConfigReconciler (internal/controllers/config): one worker that *)
(* reconciles ProviderConfigs under the write lock.  It advertises each as *)
(* a ClusterProfile and loads its profile into the runtime configuration.  *)
(***************************************************************************)
EXTENDS PlatformCluster, RuntimeConfiguration

VARIABLES
    configQueue,    \* ProviderConfigs to reconcile: work queue and timers
    profileEvents,  \* changed ClusterProfiles the Cluster controller has not seen
    configWorker    \* the reconciliation in progress

ConfigPCs ==
    {"idle", "locking", "unannotate", "finalize", "advertise",
     "unadvertise", "release", "finish"}

\* location: of the ProviderConfig as last read; profile: what the handler
\* returned; failed: a ReconcileError is set.
ConfigControllerType ==
    /\ configQueue \subseteq Configs
    /\ profileEvents \subseteq Configs
    /\ configWorker \in
        [pc : ConfigPCs, key : Configs \cup {Nobody}, location : Locations \cup {NoProfile},
         profile : Locations \cup {NoProfile}, failed : BOOLEAN]

IdleConfigWorker ==
    [pc |-> "idle", key |-> Nobody, location |-> NoProfile,
     profile |-> NoProfile, failed |-> FALSE]

ConfigControllerInit ==
    /\ configQueue = {}
    /\ profileEvents = {}
    /\ configWorker = IdleConfigWorker

-----------------------------------------------------------------------------
(***************************************************************************)
(* SetupWithManager: which changes of a resource enqueue it.  Finalizers,  *)
(* labels and the status do not change a resource's generation.            *)
(***************************************************************************)
PassesFilter(old, new, newGeneration) ==
    /\ (IF new.exists THEN new ELSE old).op # "ignore"
    /\ \/ old.exists # new.exists
       \/ old.deleting # new.deleting
       \/ newGeneration
       \/ old.op # "reconcile" /\ new.op = "reconcile"
       \/ old.op = "ignore"

\* Mutant: no predicate for changed generations.
ConfigEventsWithoutGeneration ==
    {n \in Configs : PassesFilter(config[n], config'[n], FALSE)}

ConfigEvents ==
    {n \in Configs : PassesFilter(config[n], config'[n], config[n].location # config'[n].location)}

-----------------------------------------------------------------------------
(***************************************************************************)
(* The end of a reconciliation: Reconcile updates the maps and the status, *)
(* requeues on an error and, last, releases the lock.                      *)
(***************************************************************************)
\* Mutant: errors are logged, not retried.
NoRequeue(n, failed) == {}

Requeue(n, failed) == IF failed THEN {n} ELSE {}

\* A handler returns an object: Reconcile goes on with the result.
Return(w, failed) == configWorker' = [w EXCEPT !.pc = "finish", !.failed = failed]

\* rr.Object is set: remember it, and the profile when there is one.
ConfigFinish ==
    LET n == configWorker.key IN
    /\ configWorker.pc = "finish"
    /\ SetProviderConfig(n)
    /\ IF configWorker.profile = NoProfile THEN UNCHANGED profiles
                                           ELSE SetProfile(n, configWorker.profile)
    /\ \E outcome \in ReadOutcomes :      \* the status patch; no code reads this status
        /\ Read(outcome)
        /\ configQueue' = configQueue \cup
              Requeue(n, configWorker.failed \/ outcome # "ok" \/ ~config[n].exists)
    /\ configWorker' = IdleConfigWorker
    /\ Unlock
    /\ UNCHANGED <<platformVars, profileEvents>>

\* Mutant: the profile of a deleted ProviderConfig stays loaded.
ConcludeKeepingProfile(failed) ==
    LET n == configWorker.key IN
    /\ IF failed THEN UNCHANGED providerConfigs ELSE UnsetProviderConfig(n)
    /\ UNCHANGED profiles
    /\ configQueue' = configQueue \cup ConfigEvents \cup Requeue(n, failed)
    /\ configWorker' = IdleConfigWorker
    /\ Unlock

\* rr.Object is nil: forget both, unless the reconciliation failed.
ConcludeWithoutObject(failed) ==
    LET n == configWorker.key IN
    /\ IF failed THEN UNCHANGED <<providerConfigs, profiles>>
                 ELSE UnsetProviderConfig(n) /\ UnsetProfile(n)
    /\ configQueue' = configQueue \cup ConfigEvents \cup Requeue(n, failed)
    /\ configWorker' = IdleConfigWorker
    /\ Unlock

Continue(pc, obj) == configWorker' = [configWorker EXCEPT !.pc = pc, !.location = obj.location]

\* Mutant: the finalizer goes first, and with it the resource.
HandlerReleasingFirst(obj) ==
    IF obj.deleting THEN "release" ELSE IF obj.own THEN "advertise" ELSE "finalize"

\* Mutant: the finalizer is never set.
HandlerNotFinalizing(obj) == IF obj.deleting THEN "unadvertise" ELSE "advertise"

\* Mutant: a resource with the finalizer counts as one to keep up to date.
HandlerOverlookingDeletion(obj) ==
    IF obj.own THEN "advertise" ELSE IF obj.deleting THEN "unadvertise" ELSE "finalize"

\* handleDelete or handleCreateOrUpdate, up to its first call.
ConfigHandler(obj) ==
    IF obj.deleting THEN "unadvertise" ELSE IF obj.own THEN "advertise" ELSE "finalize"

-----------------------------------------------------------------------------
\* Reconcile is called, and waits in Lock.
ConfigDequeue(n) ==
    /\ configWorker.pc = "idle"
    /\ n \in configQueue
    /\ configQueue' = configQueue \ {n}
    /\ configWorker' = [IdleConfigWorker EXCEPT !.pc = "locking", !.key = n]
    /\ AnnounceWriter
    /\ UNCHANGED <<platformVars, providerConfigs, profiles, profileEvents, faults>>

\* The lock is acquired and the ProviderConfig read.
ConfigGet ==
    LET obj == config[configWorker.key] IN
    /\ configWorker.pc = "locking"
    /\ LockAvailable
    /\ UNCHANGED <<platformVars, profileEvents>>
    /\ \E outcome \in ReadOutcomes :
        /\ Read(outcome)
        /\ \/ /\ outcome = "ok" /\ obj.exists /\ obj.op # "ignore"
              /\ Continue(IF obj.op = "reconcile" THEN "unannotate" ELSE ConfigHandler(obj), obj)
              /\ Lock
              /\ UNCHANGED <<configQueue, providerConfigs, profiles>>
           \/ /\ outcome # "ok" \/ ~obj.exists \/ obj.op = "ignore"
              /\ ConcludeWithoutObject(outcome # "ok")

\* The reconcile annotation is removed.
ConfigUnannotate ==
    LET n == configWorker.key
        obj == config[n] IN
    /\ configWorker.pc = "unannotate"
    /\ UNCHANGED <<cluster, clusterProfile, profileEvents>>
    /\ \E outcome \in WriteOutcomes :
        /\ Write(outcome)
        /\ IF Applied(outcome) /\ obj.exists
           THEN StoreConfig(n, [obj EXCEPT !.op = "none"])
           ELSE UNCHANGED config
        /\ \/ /\ outcome = "ok" /\ obj.exists
              /\ Continue(ConfigHandler(obj), obj)
              /\ configQueue' = configQueue \cup ConfigEvents
              /\ UNCHANGED <<rwlock, providerConfigs, profiles>>
           \/ /\ outcome # "ok" \/ ~obj.exists
              /\ ConcludeWithoutObject(TRUE)

\* handleCreateOrUpdate: the finalizer.
ConfigFinalize ==
    LET n == configWorker.key
        obj == config[n]
        allowed == obj.exists /\ ~obj.deleting IN
    /\ configWorker.pc = "finalize"
    /\ UNCHANGED <<cluster, clusterProfile, profileEvents, configQueue, runtimeVars>>
    /\ \E outcome \in WriteOutcomes :
        /\ Write(outcome)
        /\ IF Applied(outcome) /\ allowed
           THEN StoreConfig(n, [obj EXCEPT !.own = TRUE])
           ELSE UNCHANGED config
        /\ \/ outcome = "ok" /\ allowed /\ Continue("advertise", obj)
           \/ (outcome # "ok" \/ ~allowed) /\ Return(configWorker, TRUE)

\* shared.LoadCredentials fails: there is no Secret, or neither a JSON key nor a
\* token in it.
CredentialsUnusable == Fault("refused")

\* shared.FetchGKEServerConfig fails: nothing is known of the supported versions.
VersionsUnknown == Fault("refused")

\* handleCreateOrUpdate: the credentials are loaded, the supported versions asked
\* for (a failure leaves the list empty) and the ClusterProfile created or updated.
\* At most one of the three fails in a pass.
ConfigAdvertise ==
    LET n == configWorker.key IN
    /\ configWorker.pc = "advertise"
    /\ UNCHANGED <<config, cluster, configQueue, runtimeVars>>
    /\ \E outcome \in WriteOutcomes, versions \in {"bare", "listed"} :
        /\ \/ versions = "listed" /\ outcome = "refused" /\ CredentialsUnusable
           \/ versions = "bare" /\ outcome = "ok" /\ VersionsUnknown
           \/ versions = "listed" /\ Write(outcome)
        /\ clusterProfile' =
              IF Applied(outcome) THEN [clusterProfile EXCEPT ![n] = versions] ELSE clusterProfile
        /\ profileEvents' = profileEvents \cup {p \in {n} : clusterProfile'[p] # clusterProfile[p]}
        /\ IF outcome = "ok"
           THEN Return([configWorker EXCEPT !.profile = configWorker.location], FALSE)
           ELSE Return(configWorker, TRUE)

\* handleDelete: the ClusterProfile is deleted; NotFound is no error.
ConfigUnadvertise ==
    LET n == configWorker.key IN
    /\ configWorker.pc = "unadvertise"
    /\ UNCHANGED <<config, cluster, configQueue, runtimeVars>>
    /\ \E outcome \in WriteOutcomes :
        /\ Write(outcome)
        /\ clusterProfile' =
              IF Applied(outcome) THEN [clusterProfile EXCEPT ![n] = "absent"] ELSE clusterProfile
        /\ profileEvents' = profileEvents \cup {p \in {n} : clusterProfile'[p] # clusterProfile[p]}
        /\ IF outcome = "ok" THEN configWorker' = [configWorker EXCEPT !.pc = "release"]
                             ELSE Return(configWorker, TRUE)

\* handleDelete: the finalizer is removed, with which the ProviderConfig disappears.
ConfigRelease ==
    LET n == configWorker.key
        obj == config[n] IN
    /\ configWorker.pc = "release"
    /\ UNCHANGED <<cluster, clusterProfile, profileEvents>>
    /\ \E outcome \in WriteOutcomes :
        /\ Write(outcome)
        /\ IF Applied(outcome) THEN StoreConfig(n, [obj EXCEPT !.own = FALSE])
                               ELSE UNCHANGED config
        /\ \/ /\ outcome = "ok"
              /\ ConcludeWithoutObject(FALSE)
           \/ /\ outcome # "ok"
              /\ Return(configWorker, TRUE)
              /\ configQueue' = configQueue \cup ConfigEvents
              /\ UNCHANGED runtimeVars

ConfigStep ==
    \/ ConfigGet
    \/ ConfigUnannotate
    \/ ConfigFinalize
    \/ ConfigAdvertise
    \/ ConfigUnadvertise
    \/ ConfigRelease
    \/ ConfigFinish

ConfigControllerNext == ConfigStep \/ \E n \in Configs : ConfigDequeue(n)
=============================================================================
