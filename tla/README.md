# Verification of cluster-provider-gcp

TLA+ models of the GCP cluster provider, TLC configurations that check them and
TLAPS proofs of their main theorems. Paths are relative to the repository's root;
`config`, `cluster` and `accessrequest` stand for `internal/controllers/<name>/controller.go`.

## 1. The system

The provider is one process. It watches the *platform cluster* (a Kubernetes API
server) and keeps, for each `Cluster` resource of one of its profiles, a GKE cluster in
the GCP project and region the profile's `ProviderConfig` names.

| Component | State | Operations | Interacts with |
|---|---|---|---|
| Runtime configuration (`internal/controllers/shared/runtime.go`) | the maps `providerConfigs` (never read) and `profiles`, an `RWMutex` | `Set`/`Unset`/`Get` of both | shared memory of the three controllers |
| ProviderConfig controller (`config`) | its work queue, the pass in progress | finalizer, credentials, versions, `ClusterProfile` upsert and delete, loading and unloading the profile, under the *write* lock | API server, GKE (versions), runtime configuration |
| Cluster controller (`cluster`) | its work queue, the pass in progress | finalizer, get/create/delete of the GKE cluster, labels, status, under the *read* lock; watches `Cluster` and `ClusterProfile` | API server, GKE, runtime configuration |
| AccessRequest controller (`accessrequest`) | its work queue, the pass in progress | service account, RBAC, token and kubeconfig Secret, renewal, cleanup on the GKE cluster, under the read lock | API server, the GKE cluster's API server, runtime configuration |
| GKE client, credentials (`internal/controllers/shared/gke.go`, `credentials.go`) | none | calls to the service, parsing of the Secret | GKE |
| Process (`cmd/cluster-provider-gcp/app/run.go`) | none kept | wiring, start | all of the above |
| Platform cluster, GKE | resources; GKE clusters with a status | users' changes; long-running operations | external |

What is hard here: every API and GCP call of a pass may fail, or be applied although it
reports an error; other actors change a resource between the read and the patches of a
pass; GKE works for minutes after a call has returned; the process loses the profiles map
on a restart and rebuilds it one config at a time while Clusters are already reconciled;
a Cluster pass works with a copy of a profile; and which events cause another pass
depends on watch predicates (generation, deletion timestamp, annotation) and `RequeueAfter`.

What makes each component correct:

- *Finalizers*: a GKE cluster never outlives its `Cluster` or the finalizer on it, a
  `ClusterProfile` never outlives its `ProviderConfig` or the finalizer on it.
- *Runtime configuration*: a pass never uses an outdated profile; a loaded profile is that
  of the current config, or the config is about to be reconciled.
- *Status*: `Ready` is true of the world later, too, not only of the pass that wrote it.
- *Other controllers*: their finalizers are waited for, and left alone.
- *Progress*: usable configs get advertised and loaded, Clusters become Ready, deletions end.
- *AccessRequest*: a kubeconfig is handed out only when its permissions are complete, and its
  token is renewed in time; the objects on the GKE cluster are those of the granted
  specification, no more and, while it is granted, no less; nothing on it outlives the request or its
  finalizer; deleted requests go away.
- *Queues*: no object with work left is forgotten: its next pass is in progress, queued, or on its way.

## 2. The modules

Two systems share `ProviderConstants`, `Faults` and `RuntimeConfiguration`:

- `ClusterProvider` composes `PlatformCluster`, `GKE`, `ProviderConfigController` and
  `ClusterController`, adds restarts and states their properties. Of the AccessRequest controller it has
  what the other two can notice: a pass enters and leaves the read lock at any time.
- `AccessSystem` composes `AccessPlatform`, `AccessRequestController` and `Neighbours`, and adds
  the clock and restarts. `Neighbours` is an abstraction of the first system, as far as
  the AccessRequest controller can see it: the lock and the profiles, which Clusters exist, and the
  state of their API servers. `ClusterProvider` implements it (`AccessAssumptionsMet`): beside a reader that comes
  and goes as it likes, every change of profiles, Clusters and GKE clusters is one that `AccessSystem` allows for. In
  particular profiles change only while that reader is outside, which the lock has to ensure here. There is no
  single specification with all three controllers in full.
- `FinalizerProtocol` is what all three controllers implement: Clusters guard GKE clusters, ProviderConfigs
  guard ClusterProfiles, AccessRequests guard what is on a GKE cluster for them.

`MCClusterProvider` and `MCAccessSystem` give the constants their values.

| Module | Models |
|---|---|
| `ProviderConstants` | configs, Clusters, locations (a project and a region), who belongs to whom, and the bounds |
| `Faults` | the outcome of a call: `ok`, `refused` (error, nothing done), `lost` (done, answer is an error) |
| `RuntimeConfiguration` | both maps and the `RWMutex`. A writer first *announces* itself, which keeps new readers out, then waits for the readers inside |
| `PlatformCluster` | *external*: `ProviderConfig`, `Cluster`, `ClusterProfile`; the finalizer rules of the API server; every change users and other controllers may make |
| `GKE` | *external*: one cluster name per Cluster and location, statuses, completion, failure, repair, maintenance |
| `ProviderConfigController` | `Reconcile` of `config`: every call is a step |
| `ClusterController` | `Reconcile` of `cluster`: every call is a step |
| `ClusterProvider` | the process on its platform, passes of the AccessRequest controller as holders of the read lock (`OtherReconciler`), `Restart`, `Fairness`, the properties |
| `FinalizerProtocol` | live objects, guarded objects, external resources: what a finalizer is for |
| `Neighbours` | what the AccessRequest controller sees of the two other controllers and of GKE: a writer is announced or not, profiles change when no reader is inside, GKE clusters are made for existing Clusters with the loaded profile, Clusters go after their GKE clusters |
| `AccessPlatform` | *external*: `AccessRequest` with its specification, generation and observed generation; the Secret with the kubeconfig and the age of its token; owner references; users' changes |
| `AccessRequestController` | `Reconcile` of `accessrequest`: every call to the platform and to the GKE cluster is a step; its queue with timers; the objects made on GKE clusters |
| `AccessSystem` | the controller between its neighbours, users, the clock (`Tick`) and restarts; `AccessFairness`; the properties |

A pass is a worker record with a program counter `pc`, named for the call that comes next.
`ConfigGet` … `ConfigFinish` and `ClusterGet` … `ClusterStatus` are one action per call,
in the code's order, with the code's early returns. The guard is the state the code has read
*before*; the effect is that of the call on the state *now*.

| Code | Actions |
|---|---|
| `config` `Reconcile` 45-84 | `ConfigDequeue` (call, waiting in `Lock`), `ConfigFinish` and `ConcludeWithoutObject` (maps, status, unlock) |
| `config` `reconcile` 86-124 | `ConfigGet`, `ConfigUnannotate` |
| `config` `handleCreateOrUpdate` 126-188 | `ConfigFinalize`, `ConfigAdvertise` |
| `config` `handleDelete` 190-222 | `ConfigUnadvertise`, `ConfigRelease` |
| `cluster` `Reconcile` 48-80, `reconcile` 82-127 | `ClusterDequeue`, `ClusterGet`, `ClusterUnannotate`, `ClusterStatus` |
| `cluster` `handleCreateOrUpdate` 129-219 | `ClusterFinalize`, `ClusterRead`, `ClusterCreate`, `ClusterLabel` |
| `cluster` `handleDelete` 221-288 | `HandleDelete`, `ClusterReadForDelete`, `ClusterDelete`, `ClusterRelease` |
| both `SetupWithManager` | `PassesFilter`, `ConfigEvents`, `ClusterEvents`, `DeliverProfileEvent` |
| `accessrequest` `Reconcile` 66-87, `reconcile` 89-152 | `AccessDequeue`, `AccessGet`, `AccessUnannotate`, `AccessResolve`, `AccessStatus` |
| `accessrequest` `handleCreateOrUpdate` 154-225 | `AccessFinalize`, `Proceed`, `AccessCheck`, `AccessConnect`, `AfterCleanup` |
| `ensureTokenAccess` 260-393, `ensureOIDCAccess` 395-504 | `AccessAccount`, `AccessGrant`, `AccessStoreToken`, `AccessStoreOIDC` |
| `cleanupResources` 506-569, `shouldKeep` 571-585 | `AccessList`, `AccessPurge`, `ShouldKeep` |
| `accessrequest` `handleDelete` 227-258 | `AccessConnect`, `AccessList`, `AccessPurge`, `AccessRelease` |
| `accessrequest` `SetupWithManager` 665-691 | `PassesAccessFilter`, `AccessEvents`, `SecretEvents`, `Resync` |

The worker of the Cluster controller remembers what the pass has read (`deleting`, `foreign`,
`labelled`, `endpoint`), the copied profile (`location`) and whether the endpoint is still in
the difference between `rr.Object` and `rr.OldObject` (`publish`).

### Abstractions

- A profile is its location; Kubernetes versions, node pools, condition texts and the
  contents of the ProviderConfig status are left out: nothing reads them back. A `ClusterProfile`
  says only whether it lists versions (`listed`) or not (`bare`), since a change
  of that is what raises its generation.
- The phase is computed from what the pass found: it is Ready when the conditions
  `Meta` and `GKEManagement` are both true, so `ready` is TRUE in just that case. (A third one,
  `ForeignFinalizers`, occurs only in passes over deleted Clusters, whose phase is Terminating.)
- `DEGRADED` is handled as `ERROR` is. A running cluster has an endpoint.
  `STATUS_UNSPECIFIED` does not occur.
- Work queue, rate-limited requeues and `RequeueAfter` timers are one *set* of keys that will be
  reconciled some time: durations play no role in the properties.
- `CreateOrUpdate` of the `ClusterProfile`, the credentials and the version list before it are
  one step, in which at most one call fails: nothing else writes the profile.
- A `ProviderConfig` is written by its operator and by this provider only. Finalizers of others on it
  are left out, as are configs of other providers (the code skips them).
- Nobody else deletes GKE clusters or takes the provider's labels or finalizers off; a GKE cluster may fail and be
  repaired. The API server accepts no new finalizer on a resource marked for deletion (`MayPatchFinalizers`, `AddForeign`), which
  `DeletionHonoursForeign` rests on.
- The platform client reads the API server, not a cache (`clusters.Cluster.InitializeClient`
  builds it with `client.New`).
- One process: leader election is off by default and a second replica is not modelled.

Of the AccessRequest controller:

- A specification is a kind, token or OIDC, with names of roles to make and of roles to bind; an object
  on the GKE cluster is a kind and a name. Rules, subjects, namespaces, whether a role is one of the
  cluster, and the contents of kubeconfigs are left out. Every request has objects of its own. That is so for the
  names the provider makes, which contain the request's; a role name that the request itself gives
  (`accessrequest` 289, 406) does not contain it, and requests that give the same one on one GKE cluster are left out.
  Finalizers of others on the request are left out.
- The objects of a request vanish with its GKE cluster. A pass that connected to a GKE cluster that
  is gone since (`connected`) gets nothing done, even if a new one has the same name.
- A call to a GKE cluster may fail whenever its state is `unsure`, and `MaxFaults` times without a reason. A failed
  call for a role and its binding, or for the service account, may have made part of it.
- The loops over roles, bindings and stale objects take them in any order (`todo`), which includes the
  code's.
- Time is the age of the token, up to `RenewAge`, where it is due (80 % of its validity). `Tick` comes
  between passes: a tick is days, a pass takes seconds. What a pass can meet is
  that the renewal time passes between two of its readings of the clock (`slow`), after which
  `RequeueAfter` is not positive and asks for nothing.
- `due` is the work queue with its timers: one entry for each key, the earliest counts, and a pass clears it when
  it begins. The priority queue of controller-runtime v0.24 behaves so.
- The cache lists Secrets again every ten hours (`SyncPeriod`). Such an event is an update without a change:
  `Owns(Secret)` has no predicate and passes it on; of AccessRequests the predicates filter it out.
- `UpdateStatus` patches with the difference of `rr.Object` and `rr.OldObject`. When the finalizer was
  patched in this pass, both have different resource versions, so the patch is conditional, and a change in
  between refuses it (`patched`). Otherwise it is unconditional. The model compares the resource itself, not its version:
  a change that has been undone in between (an annotation set and removed) does not refuse the patch here.
- Clusters whose `ProviderConfig` may be relocated are left out (`AccessAssumption`): what a relocation does to them
  is shown in `RelocatedOrphan.cfg`.

## 3. The runs

The first eight runs use `MCClusterProvider`, the last four `MCAccessSystem`.

### ProviderConfig and Cluster controllers

These runs have one config and one Cluster. The two controllers have one worker
each and are coupled only through the config of a Cluster; a second Cluster or config would
share the workers and the lock, nothing else. In `Reconfiguration.cfg` and `Progress.cfg` the AccessRequest controller is
a second reader of the lock. One location is enough where configs
stay in place, two where they move. `MaxFaults = 1` allows the failure at *every* step, followed by
any recovery; `MaxCrashes = 1` allows a restart between any two steps.

| Run | Bounds | Checks | Shows |
|---|---|---|---|
| `Safety.cfg` | one failure of any kind, one restart, a foreign finalizer, annotated Clusters (1.05 million states) | `TypeOK`, `NoOrphan`, `ProfileGuarded`, `AdvertisedIsServed`, `NoConfigForgotten`, `ReadyHasCluster`, `DeletionHonoursForeign`, `ClusterFinalizerProtocol`, `ConfigFinalizerProtocol` | nothing the provider makes outlives its resource or finalizer; no config is left that nobody comes back to; both controllers implement the abstract protocol |
| `Reconfiguration.cfg` | two locations, relocations and annotations of the config at any time; two readers (1.43 million states) | `SnapshotCurrent`, `ProfileTracksConfig`, `CreationGuarded` | the lock and the predicates keep profiles current |
| `Progress.cfg` | `LiveSpec`, one refused call or one maintenance, two readers (58 thousand states) | `NoClusterForgotten`, `ConfigServed`, `ConfigDeletionCompletes`, `ProvisioningCompletes`, `DeletionCompletes`, `AccessAssumptionsMet` | nothing is forgotten or gets stuck within one life of the process, and the two controllers do what `AccessSystem` assumes of them |

### AccessRequest controller

One AccessRequest for one Cluster: requests share the worker, the lock and nothing else, and the neighbours already take the
lock and change the profile at any time. `MaxGeneration = 2` is one change of the specification
(any number of further passes follow it), `RenewAge = 2` lets a token be fresh, older and due.

| Run | Bounds | Checks | Shows |
|---|---|---|---|
| `AccessSafety.cfg` | a request that changes between token access with two bindings and OIDC access with a role; a refused call, a lost answer or a restart at any step; `ignore` and `reconcile` annotations; Secret, request, Cluster, GKE cluster and profile come and go (1.41 million states) | `AccessTypeOK`, `AccessGuarded`, `NothingStale`, `RenewalInTime`, `NoAccessForgotten`, `HandedOutComplete`, `GrantedPermissions`, `AccessFinalizerProtocol` | whatever fails half way, nothing is left on a GKE cluster without its request, nothing stale is left beside a granted one and nothing of what it is granted taken away, no incomplete kubeconfig is handed out, no request is forgotten, and a pass is due before the token is; the controller implements the abstract protocol |
| `AccessProgress.cfg` | `AccessLiveSpec`, token access with a role and its binding or with the binding of an existing one, one refused call or one late clock reading (264 thousand states) | `AccessServed`, `AccessDeletionCompletes` | requests get granted in their latest version and keep a fresh token; deleted ones go away with all their objects |

### Disagreements

The other runs show a disagreement between the code and what its comments or README say. Each is the
smallest instance that has it, without failures:

| Run | Violated | What happens |
|---|---|---|
| `ReadyEndpoint.cfg` | `ReadyHasEndpoint` | the label patch of `ensureClusterLabels` is followed by `rr.OldObject = c.DeepCopy()`, and so the endpoint set before it is in no status patch; the Cluster is Ready and is not requeued. README: the endpoint is available once the phase is Ready |
| `RelocatedOrphan.cfg` | `FinalizerWhileGKEClusterExists` | `projectID` and `region` are mutable; after a change the deletion looks in the new place, finds nothing and removes the finalizer. `api/v1alpha1/constants.go`: the finalizer is there while the GKE cluster exists |
| `ForeignOverwritten.cfg` | `ForeignFinalizersKept` | the finalizer patch is a merge patch without optimistic lock: it replaces the list with the one read earlier |
| `RestartIgnored.cfg` | `ProvisioningCompletes` | after a restart a Cluster is reconciled before its config is loaded: "Ignoring cluster: profile not owned by this provider", no requeue, and no later event, as the `ClusterProfile` does not change |
| `ForeignWait.cfg` | `DeletionCompletes` | waiting for a foreign finalizer sets no `RequeueAfter`, and its removal passes no predicate of the watch |
| `OIDCSecret.cfg` | `GrantedHasSecret` | the Secret of a granted OIDC request is deleted; the pass this causes reports "already granted, secret exists and is still valid" without a look at it. README: once granted, there is a Secret with a kubeconfig |
| `StuckAccess.cfg` | `ReleasedWithoutRBAC` | a request is deleted after its Cluster (or while its profile is not loaded, or its GKE cluster is gone): `resolveClusterAndProfile` or `getGKEAccess` fails before `handleDelete` gets to the finalizer, in every pass. `api/v1alpha1/constants.go`: the finalizer is there while RBAC is being managed |

`Progress.cfg` therefore leaves out what those runs are about: restarts, foreign finalizers, ProviderConfigs
that are ignored for a while, and the failures `lost` and `dropped`, after which the one event that tells a waiting
Cluster about its profile comes too early or not at all; these are further triggers of what `RestartIgnored.cfg`
shows. (A config that is ignored is unloaded, its `ClusterProfile` stays. When it is loaded again, the
`ClusterProfile` does not change, and no event wakes the Clusters that were skipped meanwhile.) No run shows the ignored config or
the dropped event by itself. Each of these five is
needed: with any one of them put back into `Progress.cfg`, TLC finds a Cluster that is forgotten
(`NoClusterForgotten`). The theorem about it has them as its hypothesis, `Attentive`.
`ConfigDeletionCompletes` needs the absence of `lost`, too: when the answer to the patch that removes the finalizer is lost,
the profile stays loaded until the next pass, and a config created again under that name before it takes it over.
`AccessServed` and `AccessDeletionCompletes` are about requests whose Cluster and profile are there to
stay and whose GKE cluster works; `RenewalInTime` and `GrantedHasSecret` leave out requests with the
annotation `ignore`, whose timers a pass drops until the annotation goes.

`AccessServed` depends on `Resync`: an update of the specification of a granted request passes no predicate
of the watch (`AccessRequestPhasePredicate` wants phase Pending), so what brings the request back is the
timer of its token, or the periodic event of its Secret. The same event is what helps after the timer was lost
to a `RequeueAfter` that is not positive.

Every property of a passing run has a mutant (`PROJECT.json`): a plausible error in the code,
kept beside the definition it replaces and marked `Mutant`, that TLC catches with that property.

### Fairness

`Fairness` and `AccessFairness` say what the process and GKE do without anyone's help; users may do nothing.

- Weak, for the next step of a pass: goroutines run and calls return.
- Strong, for taking a key from a queue: controller-runtime queues are first in, first out, so
  a queued key is not overtaken for ever by one that keeps coming back.
- Strong, for `ClusterGet`, which waits in `RLock`: when a writer unlocks a `sync.RWMutex`, the
  readers that wait enter before the next writer.
- Weak, for `ReaderLeaves`: a pass of the AccessRequest controller ends. None for its beginning.
- Weak, for the completion of GKE operations and for the delivery of `ClusterProfile` events. None
  for repairs, maintenance, failures, restarts.
- In `AccessFairness` also weak for `Publish`: the pass of a writer ends and releases the lock. It is the
  first three items, seen from outside. Weak for `Resync`, the cache's period. None for the clock, for
  Clusters and GKE clusters: the properties say when they are needed.

## 4. The proofs

Proved for all values of the constants, any number of configs, Clusters, AccessRequests, locations,
specifications, failures and restarts. The assumptions are those of the constants, which TLC evaluates in
every run: `TopologyAssumption`, `OperationsAssumption`, `AbsenceAssumption` and `BoundsAssumption`
(`ProviderConstants`); for `AccessSystem` also `AccessAssumption`, `SpecsAssumption` and
`RenewalAssumption` (`AccessPlatform`).

| Theorem (module) | Says |
|---|---|
| `TypeCorrectness` (`TypeProofs`) | `Spec => []TypeOK` |
| `GKEClustersGuarded` (`OrphanProofs`) | `Spec => []NoOrphan` |
| `ReadyClustersBacked` (`OrphanProofs`) | `Spec => []ReadyHasCluster` |
| `ForeignFinalizersHonoured` (`OrphanProofs`) | `Spec => DeletionHonoursForeign`, an action property |
| `AdvertisedProfilesGuarded` (`AdvertisementProofs`) | `Spec => []ProfileGuarded` |
| `ProfilesTrackConfigs` (`AdvertisementProofs`) | `Spec => []ProfileTracksConfig` |
| `AdvertisedProfilesServed` (`AdvertisementProofs`) | `Spec => []AdvertisedIsServed` |
| `SnapshotsAreCurrent` (`LockProofs`) | `Spec => []SnapshotCurrent` |
| `CreationsAreGuarded` (`LockProofs`) | `Spec => CreationGuarded`, an action property |
| `ConfigsRemembered` (`AdvertisementProofs`) | `Spec => []NoConfigForgotten` |
| `ClustersRemembered` (`CompositionProofs`) | `Spec => []NoClusterForgotten`, if `Attentive` |
| `ClusterControllerRefines`, `ConfigControllerRefines` (`RefinementProofs`) | `Spec` implements `FinalizerProtocol`, for Clusters and for configs |
| `ProtocolLeaksNothing` (`FinalizerProtocolProofs`) | in the abstract protocol no external resource is unguarded |
| `NeighboursImplemented` (`CompositionProofs`) | `Spec` implements `Neighbours`, what `AccessSystem` assumes of it |
| `AccessTypeCorrect` (`AccessProofs`) | `AccessSpec => []AccessTypeOK` |
| `AccessNeverOrphaned` (`AccessProofs`) | `AccessSpec => []AccessGuarded` |
| `HandedOut` (`AccessProofs`) | `AccessSpec => HandedOutComplete`, an action property |
| `StaleRemoved` (`AccessProofs`) | `AccessSpec => []NothingStale`, if `NamesTellKinds` |
| `PermissionsKept` (`AccessProofs`) | `AccessSpec => GrantedPermissions`, an action property |
| `RenewedInTime` (`AccessProofs`) | `AccessSpec => []RenewalInTime`, if `"slow"` is not in `FaultModes` |
| `AccessRemembered` (`AccessProofs`) | `AccessSpec => []NoAccessForgotten` |
| `AccessControllerRefines` (`AccessProofs`) | `AccessSpec` implements `FinalizerProtocol`, for AccessRequests |

*Types.* `TypeInv` adds to `TypeOK` that a worker that is not idle has a key (`KeysOK`), without
which `config[configWorker.key]` need not have a value. Each controller is a lemma with a step per action, on
top of lemmas about `StoreConfig`, `StoreCluster` and the fault counter. `AccessTypeInv` is the same for
the other system.

*No orphans.* `NoOrphan` is not inductive: the worker may be about to create a GKE cluster, or to
remove the finalizer, on what it read some steps ago. `OrphanInv` adds

- `HomeInv`: for a config that cannot be relocated, its location, the loaded profile and the
  location in either worker are `Home`; so what is looked up is what was created;
- `GuardInv`: a worker past the lookup has a location, one at `read` or `create` has the finalizer
  on the *stored* resource, and one at `release` has seen the GKE cluster absent, which stays absent
  because only this worker creates one (`WorkerGuarded`); a GKE cluster is where its config says
  and guarded (`ExternalGuarded`); a guarded resource exists (`GuardedExists`).

*Ready and deleted Clusters.* A phase stays in the resource after the pass that wrote it, so nothing the worker
knows helps `ReadyHasCluster` later. `LifeInv` adds that GKE is deleting a cluster only for a Cluster that is
marked for deletion (`StoppingMarked`), and a marked one has a finalizer left (`Marked`); that the worker in `handleDelete` has a
Cluster that is marked, has the provider's finalizer and no other (`DeleterMarked`), which cannot be undone since
nobody may add a finalizer to it; and that a pass about to write Ready has its Cluster labelled, guarded and backed
by a GKE cluster (`ReadyPass`). The steps are sorted by what they leave true of a guarded Cluster (`ClustersEndure`)
and of GKE (`GKELasts`, `NoneStopped`).

*Advertised profiles.* `AdvertInv` has the same form as `GuardInv`, with the ProviderConfig worker at `advertise`
and at `release`.

*Current profiles.* `TrackInv` says that whatever a pass has read of its config, and whatever is loaded, is *fresh*: the
config still has the finalizer and that location, or it is queued (again), or it is annotated `ignore`. Freshness
lasts (`StaysFresh`) because every change of a config is reported by the watch or leaves the location alone
(`NoticedOrSame`); this is where the predicates matter. A pass that ends early leaves the old profile
and comes again (`PassEnds`).

*The lock.* `LockInv` says that a ProviderConfig worker inside its pass holds the write lock, with no reader in it
(`WriterOK`), that a Cluster worker inside its pass is among the readers (`ReaderOK`), and
`SnapshotCurrent`. Other readers come only while no writer is announced (`OtherReconcilerLocked`). A profile changes only at the end of a writer's pass, and then no Cluster worker is inside.
`CreationGuarded` follows from it and from `WorkerGuarded`, as only the worker at `create` creates a
GKE cluster (`OnlyCreateCreates`); this part holds for configs that may be relocated, too.

*Refinement.* In each of the three instances a step maps to `Appear`, `Disappear`, `Guard`, `Acquire`, `Dispose`,
`Release` or a stutter. The mapping is state by state; what the inductive invariants add is that `Acquire`
happens to guarded objects only and `Release` only when the external resource is gone. `Dispose` is of a set,
since the objects of several AccessRequests vanish together with their GKE cluster.

*No config forgotten.* `NoConfigForgotten` is not inductive either: a pass may be about to end without a requeue. `MemoryInv` adds
that a config marked for deletion has the finalizer (`MarkedConfigs`), that a deletion the pass has not read
is queued, unless the config is to be ignored, and that a pass that is about to load a profile has advertised it
(`PassRemembers`). It builds on `TrackInv`, which knows that what the pass is about to load is fresh.

*No Cluster forgotten.* A Cluster is skipped without a requeue when its profile is not loaded, so something must
tell it later. `CareInv` says what: a `ClusterProfile` is advertised without its profile being loaded only while the
pass that has advertised it is about to end, and then its Clusters are queued or the event that queues them is on its way
(`UnloadedAwaited`); and what a Cluster pass has not seen of its Cluster is queued, unless it finds the GKE cluster
running and has nothing to wait for (`PassMindful`). `Attentive` enters where the argument would break: a restart or an ignored
config unloads a profile whose `ClusterProfile` stays, a lost answer leaves one advertised without a pass that
loads it, a dropped event is the one that tells, and a foreign finalizer is waited for without a requeue. The proof
uses all of the invariants above.

*Composition.* `Neighbours` sees the Cluster worker's passes only by their effects. A step of
`Spec` is one of its steps because of `OrphanInv` (a Cluster that goes has no GKE cluster at `Home`, one is created
for an existing Cluster) and of `LockInv` (profiles change when `AccessRequest` is not inside, GKE clusters are made where
the loaded profile points to). `OtherReconciler` maps to `ReaderEnters` and `ReaderLeaves`, restarts to `Forget`.

*Access.* `AccessInv` strengthens `AccessGuarded` with `GuardedAccess`: an AccessRequest with the finalizer exists, one being
deleted or granted has it (`ObjectsOK`); what is on a GKE cluster belongs to a request with the finalizer
(`RBACGuarded`); at every point of a pass that comes after the finalizer was seen, the stored
request is still the one that was read, perhaps with a later specification (`KnowsObject`); a deletion that
goes well has removed all but what it still has to (`Removed`), so that nothing is left at `release`, and nothing
is made meanwhile, as the only worker is that one.

*Complete kubeconfigs.* `Made`: in the loop, what is wanted is there or still in `todo`, unless a call failed or the GKE cluster is gone.

*Nothing stale.* `StaleInv` adds to `NothingStale` that a pass that can still report success has left at most what
its specification asks for (`LeavesWanted`), and makes nothing else (`MakesWantedOnly`). That a phase
`Granted` says something about the *present* specification rests on the generations in `SameObject`: a pass
that writes a later `observedGeneration` than it has read does not exist. `NamesTellKinds` is needed because
`shouldKeep` compares names only: with one name for objects of two kinds, a stale one would be kept. It is
true of the specifications of both passing runs.

*Granted permissions.* `PermissionInv` extends `Made` to the rest of the pass (`KeepsWanted`): what is wanted stays there during
the cleanup, whose `todo` has nothing of it, and a pass that is about to report success has either made all of it or
found a grant that still stands (`Stands`). That the cleanup of an older version takes nothing from what a newer
one is granted rests on `SameObject` again: while a pass is on its way, no later version than the one it has read
is granted (`SettledIsRead`).

*No request forgotten.* `ForgetInv` adds that a deletion the pass has not read is in the queue (`SeenDeleted`),
as the watch reports every change of the deletion timestamp, and that no pass over a deleted request
reports success (`SucceedsAlive`). `Noted` is what the predicates of the watch let through, and nothing that
matters to `NoAccessForgotten` is kept back by them; what they do keep back is the change of a granted request's
specification, which `AccessServed` is about.

*Renewal.* `RenewalInv` adds that a pass that can still report success has a token in the Secret, or is followed by another pass, and
knows when the token is to be renewed (`Renews`). The hypothesis leaves out the one way in which
the timer is lost, between two readings of the clock; `AccessProgress.cfg` includes it and shows that the token
becomes fresh again all the same.

Every safety and action property that a passing run checks is proved. The liveness properties `ConfigServed`,
`ConfigDeletionCompletes`, `ProvisioningCompletes`, `DeletionCompletes`, `AccessServed` and `AccessDeletionCompletes` are
model-checked only: they need fairness and `ENABLED`, which are out of the prover's reach. `StaleRemoved`,
`RenewedInTime` and `ClustersRemembered` have a hypothesis (see above), which the run that checks the property
satisfies. Bounds of the
runs (`MaxFaults`, `MaxCrashes`, `MaxGeneration`, `RenewAge`) are constants of the theorems like any other.

## 5. Not modelled, and the plan

- *Create request*: `BuildCreateClusterRequest` as an operator over small templates, against the CRD's defaults.
- *Names*: `GKEClusterName` does not contain the environment, which `README.md` says scopes it; two
  provider instances in one project. A role name that one request uses for two kinds of access, where
  `shouldKeep` leaves a binding behind. A role name that two requests give on one GKE cluster.
- *Identity of GKE clusters*: one deleted and created again under its name has another endpoint and certificate; the
  Secrets of granted requests describe the old one until their tokens are due.
- *Composition*: one specification of all three controllers in full.
- *More actors*: two Clusters of one config, two replicas without leader election, a rotated
  credentials Secret, a client that reads from a cache.
- Contents: rules, subjects and namespaces of RBAC objects, Kubernetes versions, node pools, conditions and kubeconfigs. Nothing the
  controllers decide depends on them.
- Not planned: `init` and `print` commands, flags, certificates, metrics and probes (sequential set-up and
  I/O), generated deep copies, schemes and CRD manifests.
