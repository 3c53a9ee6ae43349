------------------------ MODULE AccessRequestController ------------------------
(***************************************************************************)
(* AccessRequestReconciler (internal/controllers/accessrequest): one       *)
(* worker that, under the read lock, sets up a service account, roles and  *)
(* bindings on a GKE cluster, stores a kubeconfig for them in a Secret,    *)
(* renews its token, and removes from the GKE cluster what is not wanted.  *)
(***************************************************************************)
EXTENDS AccessPlatform, Neighbours

VARIABLES
    due,            \* due[a]: ticks until a is reconciled; 0 in the work queue
    rbac,           \* rbac[a]: objects on a's GKE cluster with a's labels
    accessWorker    \* the reconciliation in progress

accessControllerVars == <<due, rbac, accessWorker>>

Never == RenewAge + 1

Account == [kind |-> "Account", name |-> "account"]
RBACObject == {Account} \cup [kind : {"Role", "Binding"}, name : RoleNames]

AccessPCs ==
    {"idle", "locking", "unannotate", "resolve", "finalize", "check", "connect",
     "account", "grant", "store", "list", "purge", "release", "status"}

\* deleting, own, spec, generation: of the AccessRequest as last read; granted: it
\* needs no more than a valid token; patched: the resource as the finalizer patch
\* of this pass left it, or NoAccess; connected: the GKE cluster of the client is
\* still there; todo: what a loop has left; failed: an error is recorded; renew:
\* RequeueAfter.
AccessPass ==
    [pc : AccessPCs, key : Accesses \cup {Nobody}, deleting : BOOLEAN, own : BOOLEAN,
     spec : Specs, generation : Nat, granted : BOOLEAN, patched : AccessObject,
     connected : BOOLEAN, todo : SUBSET SUBSET RBACObject, failed : BOOLEAN,
     renew : 0..Never]

AccessControllerType ==
    /\ due \in [Accesses -> 0..Never]
    /\ rbac \in [Accesses -> SUBSET RBACObject]
    /\ accessWorker \in AccessPass

IdleAccessWorker ==
    [pc |-> "idle", key |-> Nobody, deleting |-> FALSE, own |-> FALSE,
     spec |-> NoAccess.spec, generation |-> 0, granted |-> FALSE, patched |-> NoAccess,
     connected |-> FALSE, todo |-> {}, failed |-> FALSE, renew |-> Never]

AccessControllerInit ==
    /\ due = [a \in Accesses |-> Never]
    /\ rbac = [a \in Accesses |-> {}]
    /\ accessWorker = IdleAccessWorker

\* What the AccessRequest controller never writes.
neighbourhood == <<profiles, live, api>>

-----------------------------------------------------------------------------
(***************************************************************************)
(* SetupWithManager: changes of AccessRequests, and of the Secrets they own.*)
(***************************************************************************)
\* Mutant: the deletion timestamp is not watched.
FilterWithoutDeletion(old, new) ==
    /\ (IF new.exists THEN new ELSE old).op # "ignore"
    /\ \/ old.exists # new.exists
       \/ old # new /\ new.phase = "Pending"
       \/ old.op # "reconcile" /\ new.op = "reconcile"
       \/ old.op = "ignore"

PassesAccessFilter(old, new) ==
    /\ (IF new.exists THEN new ELSE old).op # "ignore"
    /\ \/ old.exists # new.exists
       \/ old.deleting # new.deleting
       \/ old # new /\ new.phase = "Pending"
       \/ old.op # "reconcile" /\ new.op = "reconcile"
       \/ old.op = "ignore"

AccessEvents == {a \in Accesses : PassesAccessFilter(access[a], access'[a])}

\* Mutant: Secrets are not watched.
NoSecretEvents == {}

SecretEvents == {a \in Accesses : secret[a] # secret'[a]}

Enqueue(keys) == due' = [a \in Accesses |-> IF a \in keys THEN 0 ELSE due[a]]

\* The cache lists everything it watches again from time to time; of the events
\* that come of it, those of Secrets pass.
Resync(a) ==
    /\ secret[a].kind # "absent"
    /\ Enqueue({a})
    /\ UNCHANGED <<accessPlatformVars, rbac, accessWorker, rwlock, neighbourhood, faults>>

-----------------------------------------------------------------------------
(***************************************************************************)
(* What a specification asks for.                                          *)
(***************************************************************************)
Object(kind, name) == [kind |-> kind, name |-> name]

\* What each call makes in the loops of ensureTokenAccess, over permissions and
\* roleRefs ...
TokenUnits(spec) ==
    {{Object("Role", n), Object("Binding", n)} : n \in spec.roles}
    \cup {{Object("Binding", n)} : n \in spec.bindings}

\* ... and of ensureOIDCAccess, over roles and roleBindings.
OIDCUnits(spec) ==
    {{Object("Role", n)} : n \in spec.roles}
    \cup {{Object("Binding", n)} : n \in spec.bindings}

Units(spec) == IF spec.kind = "token" THEN TokenUnits(spec) ELSE OIDCUnits(spec)

Accounts(spec) == IF spec.kind = "token" THEN {Account} ELSE {}

Wanted(spec) == Accounts(spec) \cup UNION Units(spec)

\* Mutant: the service account is not among what the cleanup keeps.
KeepUnits(w) == IF w.deleting THEN {} ELSE UNION Units(w.spec)

\* What the cleanup keeps.
Keep(w) == IF w.deleting THEN {} ELSE Wanted(w.spec)

\* Kinds are not compared: listed objects have none.
ShouldKeep(x, keep) == \E k \in keep : k.name = x.name

\* The phase and the generation it is about.
Granted(obj) == obj.phase = "Granted" /\ obj.observed = obj.generation

\* Mutant: the phase alone counts, whichever generation it is about.
SnapshotIgnoringGeneration(w, obj, granted) ==
    [w EXCEPT !.deleting = obj.deleting, !.own = obj.own, !.spec = obj.spec,
              !.generation = obj.generation,
              !.granted = granted /\ obj.phase = "Granted"]

\* The worker after it read the AccessRequest, or had it returned by a patch.
AccessSnapshot(w, obj, granted) ==
    [w EXCEPT !.deleting = obj.deleting, !.own = obj.own, !.spec = obj.spec,
              !.generation = obj.generation, !.granted = granted /\ Granted(obj)]

-----------------------------------------------------------------------------
\* Reconcile returns: the lock is released, the key comes back or not.
AccessLeave(again, renew) ==
    LET key == accessWorker.key IN
    /\ due' = [a \in Accesses |->
                  IF a \in AccessEvents \cup SecretEvents \/ (a = key /\ again) THEN 0
                  ELSE IF a = key /\ renew < due[a] THEN renew ELSE due[a]]
    /\ accessWorker' = IdleAccessWorker
    /\ Runtime!RUnlock("AccessRequest")

\* A handler returns rr: UpdateStatus comes next.
AccessReport(w, failed) == accessWorker' = [w EXCEPT !.pc = "status", !.failed = failed]

Go(w, pc) == accessWorker' = [w EXCEPT !.pc = pc]

\* handleCreateOrUpdate after the finalizer, up to its first call.
Proceed(w) ==
    IF ~w.granted THEN Go(w, "connect")
    ELSE IF w.spec.kind = "token" THEN Go(w, "check")
    ELSE AccessReport(w, FALSE)

\* Mutant: a finalizer is not waited for.
DispatchWithoutFinalizer(w) == IF w.deleting THEN Go(w, "connect") ELSE Proceed(w)

\* The Cluster and its profile are found: handleDelete or handleCreateOrUpdate.
Dispatch(w) ==
    IF w.deleting THEN Go(w, "connect")
    ELSE IF w.own THEN Proceed(w) ELSE Go(w, "finalize")

-----------------------------------------------------------------------------
\* Reconcile is called, and waits in RLock.
AccessDequeue(a) ==
    /\ accessWorker.pc = "idle"
    /\ due[a] = 0
    /\ due' = [due EXCEPT ![a] = Never]
    /\ accessWorker' = [IdleAccessWorker EXCEPT !.pc = "locking", !.key = a]
    /\ UNCHANGED <<accessPlatformVars, rbac, rwlock, neighbourhood, faults>>

\* The read lock is acquired and the AccessRequest read.
AccessGet ==
    LET obj == access[accessWorker.key] IN
    /\ accessWorker.pc = "locking"
    /\ rwlock.writer = "free"
    /\ UNCHANGED <<accessPlatformVars, rbac, neighbourhood>>
    /\ \E outcome \in ReadOutcomes :
        /\ Read(outcome)
        /\ \/ /\ outcome = "ok" /\ obj.exists /\ obj.op # "ignore"
              /\ Go(AccessSnapshot(accessWorker, obj, TRUE),
                    IF obj.op = "reconcile" THEN "unannotate" ELSE "resolve")
              /\ Runtime!RLock("AccessRequest")
              /\ UNCHANGED due
           \/ /\ outcome # "ok" \/ ~obj.exists \/ obj.op = "ignore"
              /\ AccessLeave(outcome # "ok", Never)

\* The reconcile annotation is removed.
AccessUnannotate ==
    LET a == accessWorker.key
        obj == [access[a] EXCEPT !.op = "none"] IN
    /\ accessWorker.pc = "unannotate"
    /\ UNCHANGED <<secret, rbac, neighbourhood>>
    /\ \E outcome \in WriteOutcomes :
        /\ Write(outcome)
        /\ IF Applied(outcome) /\ obj.exists THEN StoreAccess(a, obj) ELSE UNCHANGED access
        /\ \/ /\ outcome = "ok" /\ obj.exists
              /\ Go(AccessSnapshot(accessWorker, obj, FALSE), "resolve")
              /\ Enqueue(AccessEvents)
              /\ UNCHANGED rwlock
           \/ (outcome # "ok" \/ ~obj.exists) /\ AccessLeave(TRUE, Never)

\* resolveClusterAndProfile finds both.
Found(c) == c \in live /\ Runtime!GetProfile(ProfileOf[c]) # NoProfile

\* Without them, a request is not even deleted.
AccessResolve ==
    /\ accessWorker.pc = "resolve"
    /\ UNCHANGED <<accessPlatformVars, due, rbac, rwlock, neighbourhood>>
    /\ \E outcome \in ReadOutcomes :
        /\ Read(outcome)
        /\ IF outcome = "ok" /\ Found(ClusterOf[accessWorker.key])
           THEN Dispatch(accessWorker)
           ELSE AccessReport(accessWorker, TRUE)

\* handleCreateOrUpdate: the finalizer.
AccessFinalize ==
    LET a == accessWorker.key
        obj == [access[a] EXCEPT !.own = TRUE]
        allowed == obj.exists /\ ~obj.deleting IN
    /\ accessWorker.pc = "finalize"
    /\ UNCHANGED <<secret, rbac, rwlock, neighbourhood>>
    /\ \E outcome \in WriteOutcomes :
        /\ Write(outcome)
        /\ IF Applied(outcome) /\ allowed THEN StoreAccess(a, obj) ELSE UNCHANGED access
        /\ IF outcome = "ok" /\ allowed
           THEN Proceed([AccessSnapshot(accessWorker, obj, accessWorker.granted) EXCEPT !.patched = obj])
           ELSE AccessReport(accessWorker, TRUE)
    /\ Enqueue(AccessEvents)

\* Mutant: until the token expires.
UntilExpiry(age) == RenewAge + RenewAge - age

\* Ticks until a token of this age is to be renewed.
UntilRenewal(age) == RenewAge - age

\* Mutant: a token that is good until its renewal needs no timer.
CheckWithoutTimer ==
    LET s == secret[accessWorker.key]
        valid == s.kind = "token" /\ s.age < RenewAge IN
    /\ accessWorker.pc = "check"
    /\ UNCHANGED <<accessPlatformVars, due, rbac, rwlock, neighbourhood>>
    /\ \E outcome \in ReadOutcomes :
        /\ Read(outcome)
        /\ IF outcome = "ok" /\ valid THEN AccessReport(accessWorker, FALSE)
                                      ELSE Go(accessWorker, "connect")

\* handleCreateOrUpdate: a granted token is left alone until it is to be renewed.
\* A token found good may be due when RequeueAfter is computed: not positive, it
\* requests nothing.
AccessCheck ==
    LET a == accessWorker.key
        left == UntilRenewal(secret[a].age)
        valid == secret[a].kind = "token" /\ left > 0 IN
    /\ accessWorker.pc = "check"
    /\ UNCHANGED <<access, due, rbac, rwlock, neighbourhood>>
    /\ \/ \E outcome \in ReadOutcomes :
           /\ Read(outcome)
           /\ UNCHANGED secret
           /\ IF outcome = "ok" /\ valid
              THEN AccessReport([accessWorker EXCEPT !.renew = left], FALSE)
              ELSE Go(accessWorker, "connect")
       \/ /\ Fault("slow")
          /\ valid /\ left = 1
          /\ secret' = [secret EXCEPT ![a].age = RenewAge]
          /\ AccessReport(accessWorker, FALSE)

-----------------------------------------------------------------------------
(***************************************************************************)
(* Calls to the GKE cluster.  A call that fails may have made part of what *)
(* it is for; without reason, it fails as often as MaxFaults allows.       *)
(***************************************************************************)
Fails ==
    \/ (~accessWorker.connected \/ api[ClusterOf[accessWorker.key]] = "unsure") /\ UNCHANGED faults
    \/ Fault("refused")

Succeeds == accessWorker.connected /\ UNCHANGED faults

\* What a call makes, or deletes, of the objects it is for; failed: its answer.
Effect(objects, done, failed) ==
    /\ done \subseteq objects
    /\ \/ ~failed /\ Succeeds /\ done = objects
       \/ failed /\ Fails /\ (done = {} \/ accessWorker.connected)

\* GetGKEAccess fetches the GKE cluster, for its endpoint and certificate.
GKEAccessFails(outcome, c) == outcome # "ok" \/ api[c] = "absent"

\* getGKEAccess, and which of the handlers' calls follows.
AccessConnect ==
    LET w == [accessWorker EXCEPT !.connected = TRUE]
        spec == w.spec IN
    /\ accessWorker.pc = "connect"
    /\ UNCHANGED <<accessPlatformVars, due, rbac, rwlock, neighbourhood>>
    /\ \E outcome \in ReadOutcomes :
        /\ Read(outcome)
        /\ IF GKEAccessFails(outcome, ClusterOf[w.key])
           THEN AccessReport(accessWorker, TRUE)
           ELSE IF w.deleting THEN Go(w, "list")
           ELSE IF spec.kind = "token" THEN Go(w, "account")
           ELSE Go([w EXCEPT !.todo = Units(spec)], IF Units(spec) = {} THEN "store" ELSE "grant")

\* ensureTokenAccess: the namespace and the service account.
AccessAccount ==
    LET a == accessWorker.key
        units == Units(accessWorker.spec) IN
    /\ accessWorker.pc = "account"
    /\ UNCHANGED <<accessPlatformVars, due, rwlock, neighbourhood>>
    /\ \E done \in SUBSET {Account}, failed \in BOOLEAN :
        /\ Effect({Account}, done, failed)
        /\ rbac' = [rbac EXCEPT ![a] = @ \cup done]
        /\ IF failed THEN AccessReport(accessWorker, TRUE)
           ELSE Go([accessWorker EXCEPT !.todo = units], IF units = {} THEN "store" ELSE "grant")

\* Mutant: the list of errors is not looked at after the loop.
GrantIgnoringErrors ==
    LET a == accessWorker.key IN
    /\ accessWorker.pc = "grant"
    /\ UNCHANGED <<accessPlatformVars, due, rwlock, neighbourhood>>
    /\ \E unit \in accessWorker.todo : \E done \in SUBSET unit, failed \in BOOLEAN :
        LET rest == accessWorker.todo \ {unit}
            w == [accessWorker EXCEPT !.todo = rest] IN
        /\ Effect(unit, done, failed)
        /\ rbac' = [rbac EXCEPT ![a] = @ \cup done]
        /\ Go(w, IF rest # {} THEN "grant" ELSE "store")

\* ensureTokenAccess and ensureOIDCAccess: an error does not end the loop over the
\* roles and bindings, but the handler after it.
AccessGrant ==
    LET a == accessWorker.key IN
    /\ accessWorker.pc = "grant"
    /\ UNCHANGED <<accessPlatformVars, due, rwlock, neighbourhood>>
    /\ \E unit \in accessWorker.todo : \E done \in SUBSET unit, failed \in BOOLEAN :
        LET rest == accessWorker.todo \ {unit}
            w == [accessWorker EXCEPT !.todo = rest, !.failed = @ \/ failed] IN
        /\ Effect(unit, done, failed)
        /\ rbac' = [rbac EXCEPT ![a] = @ \cup done]
        /\ IF rest # {} THEN Go(w, "grant")
           ELSE IF w.failed THEN AccessReport(w, TRUE) ELSE Go(w, "store")

\* The Secret is created or updated, to be renewed after some time.
StoreKubeconfig(kind, renew) ==
    \E outcome \in WriteOutcomes :
        /\ Write(outcome)
        /\ IF Applied(outcome) THEN StoreSecret(accessWorker.key, NewSecret(kind))
                               ELSE UNCHANGED secret
        /\ IF outcome = "ok" THEN Go([accessWorker EXCEPT !.renew = renew], "list")
                             ELSE AccessReport(accessWorker, TRUE)

\* ensureTokenAccess: a token is requested from the GKE cluster, and the kubeconfig
\* with it stored.  At most one of the two calls fails.
AccessStoreToken ==
    /\ accessWorker.pc = "store"
    /\ accessWorker.spec.kind = "token"
    /\ UNCHANGED <<access, rbac, rwlock, neighbourhood>>
    /\ \/ Fails /\ UNCHANGED secret /\ AccessReport(accessWorker, TRUE)
       \/ accessWorker.connected /\ StoreKubeconfig("token", UntilRenewal(0))
    /\ Enqueue(SecretEvents)

\* ensureOIDCAccess: the kubeconfig needs no token, and never expires.
AccessStoreOIDC ==
    /\ accessWorker.pc = "store"
    /\ accessWorker.spec.kind = "oidc"
    /\ UNCHANGED <<access, rbac, rwlock, neighbourhood>>
    /\ StoreKubeconfig("oidc", Never)
    /\ Enqueue(SecretEvents)

-----------------------------------------------------------------------------
\* Mutant: the finalizer goes although objects could not be deleted.
AfterCleanupAnyway(w) ==
    IF w.deleting THEN Go(w, "release") ELSE AccessReport(w, w.failed)

\* Mutant: an error of the cleanup is not returned.
AfterCleanupSilent(w) ==
    IF ~w.failed /\ w.deleting THEN Go(w, "release") ELSE AccessReport(w, FALSE)

\* cleanupResources ends: handleCreateOrUpdate is done, handleDelete nearly.
AfterCleanup(w) ==
    IF ~w.failed /\ w.deleting THEN Go(w, "release") ELSE AccessReport(w, w.failed)

\* cleanupResources: the lists of objects with the request's labels; what a failed
\* list would name is not deleted.
AccessList ==
    LET stale == {x \in rbac[accessWorker.key] : ~ShouldKeep(x, Keep(accessWorker))} IN
    /\ accessWorker.pc = "list"
    /\ UNCHANGED <<accessPlatformVars, due, rbac, rwlock, neighbourhood>>
    /\ \E listed \in SUBSET stale, failed \in BOOLEAN :
        LET w == [accessWorker EXCEPT !.failed = failed, !.todo = {{x} : x \in listed}] IN
        /\ IF failed THEN Fails ELSE Succeeds /\ listed = stale
        /\ IF listed = {} THEN AfterCleanup(w) ELSE Go(w, "purge")

\* deleteStale: an error does not end the loop.
AccessPurge ==
    LET a == accessWorker.key IN
    /\ accessWorker.pc = "purge"
    /\ UNCHANGED <<accessPlatformVars, due, rwlock, neighbourhood>>
    /\ \E unit \in accessWorker.todo : \E done \in SUBSET unit, failed \in BOOLEAN :
        LET rest == accessWorker.todo \ {unit}
            w == [accessWorker EXCEPT !.todo = rest, !.failed = @ \/ failed] IN
        /\ Effect(unit, done, failed)
        /\ rbac' = [rbac EXCEPT ![a] = @ \ done]
        /\ IF rest = {} THEN AfterCleanup(w) ELSE Go(w, "purge")

\* handleDelete: the finalizer is removed, with which the AccessRequest and its
\* Secret disappear.
AccessRelease ==
    LET a == accessWorker.key
        obj == [access[a] EXCEPT !.own = FALSE] IN
    /\ accessWorker.pc = "release"
    /\ UNCHANGED <<rbac, neighbourhood>>
    /\ \E outcome \in WriteOutcomes :
        /\ Write(outcome)
        /\ IF Applied(outcome) THEN StoreAccess(a, obj) ELSE UNCHANGED access
        /\ StoreSecret(a, secret[a])
        /\ \/ outcome = "ok" /\ AccessLeave(FALSE, Never)
           \/ /\ outcome # "ok"
              /\ AccessReport(accessWorker, TRUE)
              /\ Enqueue(AccessEvents \cup SecretEvents)
              /\ UNCHANGED rwlock

\* UpdateStatus.  After the finalizer patch of this pass, the difference to
\* rr.OldObject has a resource version: the patch fails if the resource changed.
AccessStatus ==
    LET a == accessWorker.key
        w == accessWorker
        accepted == access[a].exists /\ w.patched \in {NoAccess, access[a]} IN
    /\ w.pc = "status"
    /\ UNCHANGED <<secret, rbac, neighbourhood>>
    /\ \E outcome \in WriteOutcomes :
        /\ Write(outcome)
        /\ IF Applied(outcome) /\ accepted
           THEN StoreAccess(a, [access[a] EXCEPT !.phase = IF w.failed THEN "Pending" ELSE "Granted",
                                                 !.observed = w.generation])
           ELSE UNCHANGED access
        /\ LET again == w.failed \/ outcome # "ok" \/ ~accepted IN
           AccessLeave(again, IF again THEN Never ELSE w.renew)

AccessStep ==
    \/ AccessGet
    \/ AccessUnannotate
    \/ AccessResolve
    \/ AccessFinalize
    \/ AccessCheck
    \/ AccessConnect
    \/ AccessAccount
    \/ AccessGrant
    \/ AccessStoreToken
    \/ AccessStoreOIDC
    \/ AccessList
    \/ AccessPurge
    \/ AccessRelease
    \/ AccessStatus

AccessControllerNext ==
    \/ AccessStep
    \/ \E a \in Accesses : AccessDequeue(a) \/ Resync(a)
=============================================================================
