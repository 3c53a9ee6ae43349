----------------------------- MODULE AccessProofs -----------------------------
(***************************************************************************)
(* What the AccessRequest controller guarantees, whatever its neighbours,  *)
(* users and failing calls do: nothing is left behind on a GKE cluster, no *)
(* kubeconfig is handed out half made, tokens are renewed in time, no      *)
(* request is forgotten, and the finalizer protocol is followed.           *)
(***************************************************************************)
EXTENDS AccessSystem, TLAPS

-----------------------------------------------------------------------------
(***************************************************************************)
(* The inductive invariants.                                               *)
(***************************************************************************)
\* A pass in progress is for an AccessRequest.
PassKey == accessWorker.pc # "idle" => accessWorker.key \in Accesses

AccessTypeInv == AccessTypeOK /\ PassKey

\* A finalizer is on an AccessRequest that exists, one is on all that are being
\* deleted or are granted, and what is granted is no later version.
ObjectsOK ==
    \A a \in Accesses :
        /\ access[a].own => access[a].exists
        /\ access[a].deleting => access[a].own
        /\ access[a].phase = "Granted" =>
            access[a].own /\ access[a].observed <= access[a].generation

RBACGuarded == \A a \in Accesses : rbac[a] # {} => access[a].own

\* The AccessRequest is still the one the pass has read, perhaps with a later
\* specification; nothing later than what the pass knows has been granted.
SameObject ==
    LET w == accessWorker
        obj == access[w.key] IN
    /\ obj.own
    /\ w.deleting => obj.deleting
    /\ w.generation <= obj.generation
    /\ w.generation = obj.generation => w.spec = obj.spec
    /\ obj.phase = "Granted" => obj.observed <= w.generation

\* Points of a pass at which the finalizer has been seen.
Guarding ==
    LET w == accessWorker IN
    \/ w.pc \in {"check", "connect", "account", "grant", "store", "list", "purge", "release"}
    \/ w.pc = "resolve" /\ (w.own \/ w.deleting)
    \/ w.pc = "status" /\ ~w.failed

KnowsObject == Guarding => SameObject

\* What a deletion has removed so far.
Removed ==
    LET w == accessWorker IN
    /\ w.pc = "purge" /\ w.deleting /\ ~w.failed => rbac[w.key] \subseteq UNION w.todo
    /\ w.pc = "release" => w.deleting /\ rbac[w.key] = {}

GuardedAccess == ObjectsOK /\ RBACGuarded /\ KnowsObject /\ Removed

AccessInv == AccessTypeInv /\ GuardedAccess

\* What a pass has made so far, while its GKE cluster is there.
Made ==
    LET w == accessWorker IN
    /\ w.pc = "grant" /\ ~w.failed /\ w.connected =>
        Wanted(w.spec) \subseteq rbac[w.key] \cup UNION w.todo
    /\ w.pc = "store" /\ w.connected => Wanted(w.spec) \subseteq rbac[w.key]

\* A pass that may succeed has a token, and knows when it is to be renewed.
Renews ==
    LET w == accessWorker IN
    w.pc \in {"list", "purge", "status"} /\ ~(w.pc = "status" /\ w.failed)
          /\ ~w.deleting /\ w.spec.kind = "token" =>
        \/ due[w.key] = 0
        \/ secret[w.key].kind = "token" /\ secret[w.key].age + w.renew <= RenewAge

\* Between passes nothing is attended.
NoneAttended == accessWorker.pc = "idle" => accessWorker.key = Nobody

RenewalInv == NoneAttended /\ Renews /\ RenewalInTime

\* Two specifications that share a name share what has it, but for what only the
\* kind tells apart (ShouldKeep).
NamesTellKinds ==
    \A s, t \in Specs : \A x \in Wanted(s) : ShouldKeep(x, Wanted(t)) => x \in Wanted(t)

\* Nothing is there that no specification asks for.
RBACKnown == \A a \in Accesses : \A x \in rbac[a] : \E s \in Specs : x \in Wanted(s)

\* A pass that may succeed leaves what its specification asks for, or less.
LeavesWanted ==
    LET w == accessWorker IN
    /\ w.pc = "check" \/ (w.pc = "resolve" /\ w.granted /\ ~w.deleting)
          \/ (w.pc = "status" /\ ~w.failed) =>
        rbac[w.key] \subseteq Wanted(w.spec)
    /\ w.pc = "purge" /\ ~w.failed /\ ~w.deleting =>
        rbac[w.key] \subseteq Wanted(w.spec) \cup UNION w.todo

\* A pass makes nothing else.
MakesWantedOnly ==
    LET w == accessWorker IN
    /\ w.pc = "account" => w.spec.kind = "token"
    /\ w.pc = "grant" => UNION w.todo \subseteq Wanted(w.spec)

StaleInv == RBACKnown /\ LeavesWanted /\ MakesWantedOnly /\ NothingStale

-----------------------------------------------------------------------------
(***************************************************************************)
(* Types.                                                                  *)
(***************************************************************************)
\* The absent AccessRequest is one, as far as types go.
LEMMA NoAccessTyped == NoAccess \in AccessObject
  BY SpecsAssumption DEF NoAccess, AccessObject, Operations

\* A new Secret is a Secret.
LEMMA NewSecretTyped == \A kind \in {"absent", "token", "oidc"} : NewSecret(kind) \in SecretObject
  BY RenewalAssumption DEF NewSecret, SecretObject

\* Storing an AccessRequest changes that one only.
LEMMA StoreAccessEffect ==
    ASSUME access \in [Accesses -> AccessObject], NEW a \in Accesses, NEW obj \in AccessObject,
           StoreAccess(a, obj)
    PROVE  /\ access' \in [Accesses -> AccessObject]
           /\ \A b \in Accesses \ {a} : access'[b] = access[b]
           /\ access'[a] = IF obj.deleting /\ ~obj.own THEN NoAccess ELSE obj
  BY NoAccessTyped DEF StoreAccess

\* So does storing a Secret.
LEMMA StoreSecretEffect ==
    ASSUME secret \in [Accesses -> SecretObject], NEW a \in Accesses, NEW obj \in SecretObject,
           StoreSecret(a, obj)
    PROVE  /\ secret' \in [Accesses -> SecretObject]
           /\ \A b \in Accesses \ {a} : secret'[b] = secret[b]
           /\ secret'[a] = IF access'[a].exists THEN obj ELSE NewSecret("absent")
  BY NewSecretTyped DEF StoreSecret

\* Times are numbers, and Never is the latest.
LEMMA TimesTyped ==
    /\ RenewAge \in Nat /\ RenewAge >= 1 /\ Never = RenewAge + 1
    /\ 0 \in 0..Never /\ Never \in 0..Never /\ RenewAge \in 0..Never
    /\ \A age \in 0..RenewAge : UntilRenewal(age) \in 0..Never /\ UntilRenewal(age) = RenewAge - age
  BY RenewalAssumption DEF Never, UntilRenewal

\* Putting keys in the queue keeps its type.
LEMMA EnqueueTyped ==
    ASSUME due \in [Accesses -> 0..Never], NEW keys, Enqueue(keys)
    PROVE  due' \in [Accesses -> 0..Never]
  BY TimesTyped DEF Enqueue

\* A pass goes on or reports with the same request.
LEMMA GoTyped ==
    ASSUME NEW w \in AccessPass, NEW pc \in AccessPCs, Go(w, pc)
    PROVE  accessWorker' \in AccessPass /\ accessWorker'.key = w.key /\ accessWorker'.pc = pc
  BY DEF Go, AccessPass

\* See GoTyped.
LEMMA ReportTyped ==
    ASSUME NEW w \in AccessPass, NEW failed \in BOOLEAN, AccessReport(w, failed)
    PROVE  /\ accessWorker' \in AccessPass /\ accessWorker'.key = w.key
           /\ accessWorker'.pc = "status" /\ accessWorker'.failed = failed
  BY DEF AccessReport, AccessPass, AccessPCs

\* No pass is in progress.
LEMMA IdleTyped == IdleAccessWorker \in AccessPass /\ IdleAccessWorker.pc = "idle"
<1>1. NoAccess.spec \in Specs /\ Never \in 0..Never
  BY NoAccessTyped, TimesTyped DEF AccessObject
<1>2. QED
  BY <1>1, NoAccessTyped DEF IdleAccessWorker, AccessPass, AccessPCs

\* Reconcile returns.
LEMMA AccessLeaveTyped ==
    ASSUME due \in [Accesses -> 0..Never], Runtime!RuntimeType,
           NEW again, NEW renew \in 0..Never, AccessLeave(again, renew), UNCHANGED profiles
    PROVE  /\ due' \in [Accesses -> 0..Never]
           /\ accessWorker' = IdleAccessWorker
           /\ Runtime!RuntimeType'
  BY TimesTyped DEF AccessLeave, Runtime!RUnlock, Runtime!RuntimeType

\* Reading an AccessRequest, or having it returned, keeps the pass one.
LEMMA SnapshotTyped ==
    ASSUME NEW w \in AccessPass, NEW obj \in AccessObject, NEW granted \in BOOLEAN
    PROVE  /\ AccessSnapshot(w, obj, granted) \in AccessPass
           /\ AccessSnapshot(w, obj, granted).key = w.key
           /\ AccessSnapshot(w, obj, granted).spec = obj.spec
           /\ AccessSnapshot(w, obj, granted).generation = obj.generation
           /\ AccessSnapshot(w, obj, granted).own = obj.own
           /\ AccessSnapshot(w, obj, granted).deleting = obj.deleting
           /\ AccessSnapshot(w, obj, granted).granted = (granted /\ Granted(obj))
           /\ AccessSnapshot(w, obj, granted).connected = w.connected
  BY DEF AccessSnapshot, AccessPass, AccessObject, Granted

\* The handlers up to their first call.
LEMMA ProceedTyped ==
    ASSUME NEW w \in AccessPass, Proceed(w)
    PROVE  accessWorker' \in AccessPass /\ accessWorker'.key = w.key
  BY GoTyped, ReportTyped DEF Proceed, AccessPCs

\* See ProceedTyped.
LEMMA DispatchTyped ==
    ASSUME NEW w \in AccessPass, Dispatch(w)
    PROVE  accessWorker' \in AccessPass /\ accessWorker'.key = w.key
  BY GoTyped, ProceedTyped DEF Dispatch, AccessPCs

\* What specifications ask for are objects.
LEMMA WantedTyped ==
    ASSUME NEW spec \in Specs
    PROVE  Units(spec) \subseteq SUBSET RBACObject /\ Wanted(spec) \subseteq RBACObject
<1>1. spec.roles \subseteq RoleNames /\ spec.bindings \subseteq RoleNames
  BY SpecsAssumption
<1>2. \A n \in RoleNames : Object("Role", n) \in RBACObject /\ Object("Binding", n) \in RBACObject
  BY DEF Object, RBACObject
<1>3. Units(spec) \subseteq SUBSET RBACObject
  BY <1>1, <1>2 DEF Units, TokenUnits, OIDCUnits
<1>4. QED
  BY <1>3 DEF Wanted, Accounts, RBACObject

\* Changes of the platform by its users.
LEMMA AccessUserTyped ==
    ASSUME AccessTypeInv, AccessUser
    PROVE  AccessPlatformType'
<1>1. AccessPlatformType
  BY DEF AccessTypeInv, AccessTypeOK
<1>2. ASSUME NEW a \in Accesses, NEW obj \in AccessObject, Submit(a, obj)
      PROVE  AccessPlatformType'
  <2>1. access' \in [Accesses -> AccessObject]
    BY <1>1, <1>2, StoreAccessEffect DEF Submit, AccessPlatformType
  <2>2. secret' \in [Accesses -> SecretObject]
    BY <1>1, <1>2, StoreSecretEffect DEF Submit, AccessPlatformType
  <2>3. QED
    BY <2>1, <2>2 DEF AccessPlatformType
<1>3. ASSUME NEW a \in Accesses, NEW spec \in Specs, CreateAccess(a, spec)
      PROVE  AccessPlatformType'
  <2>1. [NoAccess EXCEPT !.exists = TRUE, !.spec = spec] \in AccessObject
    BY NoAccessTyped DEF AccessObject
  <2>2. QED
    BY <1>2, <1>3, <2>1 DEF CreateAccess
<1>4. ASSUME NEW a \in Accesses, NEW spec \in Specs, ChangeSpec(a, spec)
      PROVE  AccessPlatformType'
  <2>1. access[a] \in AccessObject /\ access[a].generation + 1 \in Nat
    BY <1>1 DEF AccessPlatformType, AccessObject
  <2>2. [access[a] EXCEPT !.spec = spec, !.generation = @ + 1] \in AccessObject
    BY <2>1 DEF AccessObject
  <2>3. QED
    BY <1>2, <1>4, <2>2 DEF ChangeSpec
<1>5. ASSUME NEW a \in Accesses, NEW op \in AccessOps \cup {"none"}, AnnotateAccess(a, op)
      PROVE  AccessPlatformType'
  <2>1. [access[a] EXCEPT !.op = op] \in AccessObject
    BY <1>1, SpecsAssumption DEF AccessPlatformType, AccessObject, Operations
  <2>2. QED
    BY <1>2, <1>5, <2>1 DEF AnnotateAccess
<1>6. ASSUME NEW a \in Accesses, DeleteAccess(a) PROVE AccessPlatformType'
  <2>1. [access[a] EXCEPT !.deleting = TRUE] \in AccessObject
    BY <1>1 DEF AccessPlatformType, AccessObject
  <2>2. QED
    BY <1>2, <1>6, <2>1 DEF DeleteAccess
<1>7. ASSUME NEW a \in Accesses, DeleteSecret(a) PROVE AccessPlatformType'
  BY <1>1, <1>7, NewSecretTyped DEF DeleteSecret, AccessPlatformType
<1>8. QED
  BY <1>3, <1>4, <1>5, <1>6, <1>7 DEF AccessUser, AccessUserNext

\* Changes of the neighbours.
LEMMA NeighbourTyped ==
    ASSUME AccessTypeInv, NeighboursStep \/ Forget
    PROVE  NeighboursType'
<1>1. Runtime!RuntimeType /\ live \subseteq Clusters /\ api \in [Clusters -> ApiStates]
  BY DEF AccessTypeInv, AccessTypeOK, NeighboursType
<1>2. CASE Announce \/ Publish \/ Forget
  BY <1>1, <1>2 DEF Announce, Publish, Forget, NeighboursType, Runtime!RuntimeType,
     Runtime!AnnounceWriter, Runtime!Unlock, Runtime!SetProfile, Runtime!NewRwlock,
     Runtime!NewProfiles
<1>3. ASSUME NEW c \in Clusters, Appear(c) \/ Withdraw(c) PROVE NeighboursType'
  BY <1>1, <1>3 DEF Appear, Withdraw, NeighboursType, Runtime!RuntimeType
<1>4. ASSUME NEW c \in Clusters, NEW from, NEW to \in ApiStates, ApiBecomes(c, from, to)
      PROVE  NeighboursType'
  BY <1>1, <1>4 DEF ApiBecomes, NeighboursType, Runtime!RuntimeType
<1>5. QED
  BY <1>2, <1>3, <1>4 DEF NeighboursStep, Created, Serves, Falters, Vanishes, ApiStates

-----------------------------------------------------------------------------
\* The types of what a pass may change.
LEMMA AccessTypes ==
    ASSUME AccessTypeInv
    PROVE  /\ access \in [Accesses -> AccessObject] /\ secret \in [Accesses -> SecretObject]
           /\ due \in [Accesses -> 0..Never] /\ rbac \in [Accesses -> SUBSET RBACObject]
           /\ accessWorker \in AccessPass /\ Runtime!RuntimeType /\ faults \in Nat
           /\ api \in [Clusters -> ApiStates]
           /\ accessWorker.pc # "idle" => /\ accessWorker.key \in Accesses
                                          /\ access[accessWorker.key] \in AccessObject
                                          /\ secret[accessWorker.key] \in SecretObject
  BY DEF AccessTypeInv, AccessTypeOK, PassKey, AccessPlatformType, AccessControllerType,
         NeighboursType, FaultsType

\* A call, successful or not, counts its fault.
LEMMA CallTyped ==
    ASSUME AccessTypeInv,
           \/ UNCHANGED faults \/ \E mode : Fault(mode)
           \/ \E outcome : Read(outcome) \/ Write(outcome)
           \/ Fails \/ \E objects, done, failed : Effect(objects, done, failed)
    PROVE  FaultsType'
  BY AccessTypes DEF Fault, Read, Write, Fails, Effect, Succeeds, FaultsType

\* The parts of AccessTypeInv', for a step of a pass.
LEMMA PassTyped ==
    ASSUME AccessTypeInv, FaultsType', UNCHANGED neighbourhood, Runtime!RuntimeType',
           access' \in [Accesses -> AccessObject], secret' \in [Accesses -> SecretObject],
           due' \in [Accesses -> 0..Never], rbac' \in [Accesses -> SUBSET RBACObject],
           accessWorker' \in AccessPass,
           accessWorker'.pc = "idle" \/ accessWorker'.key = accessWorker.key,
           accessWorker.pc # "idle"
    PROVE  AccessTypeInv'
  BY DEF AccessTypeInv, AccessTypeOK, PassKey, AccessPlatformType, AccessControllerType,
         NeighboursType, neighbourhood

\* The pass after a turn of a loop.
Turned(unit, failed) ==
    [accessWorker EXCEPT !.todo = accessWorker.todo \ {unit},
                         !.failed = accessWorker.failed \/ failed]

\* It is still one, and the loop has less left.
LEMMA TurnTyped ==
    ASSUME accessWorker \in AccessPass, NEW unit, NEW failed \in BOOLEAN
    PROVE  LET w == accessWorker
               v == Turned(unit, failed) IN
           /\ v \in AccessPass /\ v.key = w.key /\ v.spec = w.spec /\ v.deleting = w.deleting
           /\ v.generation = w.generation /\ v.connected = w.connected /\ v.renew = w.renew
           /\ v.todo = w.todo \ {unit} /\ v.failed = (w.failed \/ failed)
<1>1. accessWorker.failed \in BOOLEAN /\ accessWorker.todo \in SUBSET SUBSET RBACObject
  BY DEF AccessPass
<1>2. (accessWorker.failed \/ failed) \in BOOLEAN
            /\ accessWorker.todo \ {unit} \in SUBSET SUBSET RBACObject
  BY <1>1
<1>3. QED
  BY <1>2 DEF Turned, AccessPass

\* The two loops, and the cleanup before the second.
LEMMA GrantEffect ==
    ASSUME AccessGrant
    PROVE  \E unit \in accessWorker.todo : \E done \in SUBSET unit, failed \in BOOLEAN :
              /\ Effect(unit, done, failed)
              /\ rbac' = [rbac EXCEPT ![accessWorker.key] = @ \cup done]
              /\ IF accessWorker.todo \ {unit} # {} THEN Go(Turned(unit, failed), "grant")
                 ELSE IF Turned(unit, failed).failed
                 THEN AccessReport(Turned(unit, failed), TRUE)
                 ELSE Go(Turned(unit, failed), "store")
  BY Zenon DEF AccessGrant, Turned

\* See GrantEffect.
LEMMA PurgeEffect ==
    ASSUME AccessPurge
    PROVE  \E unit \in accessWorker.todo : \E done \in SUBSET unit, failed \in BOOLEAN :
              /\ Effect(unit, done, failed)
              /\ rbac' = [rbac EXCEPT ![accessWorker.key] = @ \ done]
              /\ IF accessWorker.todo \ {unit} = {} THEN AfterCleanup(Turned(unit, failed))
                                                   ELSE Go(Turned(unit, failed), "purge")
  BY Zenon DEF AccessPurge, Turned

\* Steps of a pass until the finalizer is set.
LEMMA EarlyStepTyped ==
    ASSUME AccessTypeInv, AccessGet \/ AccessUnannotate \/ AccessResolve \/ AccessFinalize
    PROVE  AccessTypeInv'
<1> DEFINE a == accessWorker.key
           w == accessWorker
<1>1. /\ access \in [Accesses -> AccessObject] /\ secret \in [Accesses -> SecretObject]
      /\ due \in [Accesses -> 0..Never] /\ rbac \in [Accesses -> SUBSET RBACObject]
      /\ w \in AccessPass /\ Runtime!RuntimeType
  BY AccessTypes
<1>2. w.pc # "idle" /\ a \in Accesses /\ access[a] \in AccessObject /\ w.granted \in BOOLEAN
  BY AccessTypes DEF AccessGet, AccessUnannotate, AccessResolve, AccessFinalize, AccessPass
<1>3. FaultsType' /\ UNCHANGED neighbourhood /\ UNCHANGED <<secret, rbac>>
  BY CallTyped DEF AccessGet, AccessUnannotate, AccessResolve, AccessFinalize, accessPlatformVars
<1>4. ASSUME NEW again, AccessLeave(again, Never)
      PROVE  /\ due' \in [Accesses -> 0..Never] /\ Runtime!RuntimeType'
             /\ accessWorker' \in AccessPass /\ accessWorker'.pc = "idle"
  BY <1>1, <1>3, <1>4, AccessLeaveTyped, IdleTyped, TimesTyped DEF neighbourhood
<1>5. ASSUME UNCHANGED rwlock PROVE Runtime!RuntimeType'
  BY <1>1, <1>3, <1>5 DEF Runtime!RuntimeType, neighbourhood
<1>6. CASE AccessGet
  <2>1. UNCHANGED access
    BY <1>6 DEF AccessGet, accessPlatformVars
  <2>2. CASE \E again : AccessLeave(again, Never)
    BY <1>1, <1>2, <1>3, <1>4, <2>1, <2>2, PassTyped
  <2>3. ASSUME NEW pc \in {"unannotate", "resolve"}, Go(AccessSnapshot(w, access[a], TRUE), pc),
               Runtime!RLock("AccessRequest"), UNCHANGED due
        PROVE  AccessTypeInv'
    <3>1. AccessSnapshot(w, access[a], TRUE) \in AccessPass
            /\ AccessSnapshot(w, access[a], TRUE).key = a
      BY <1>1, <1>2, SnapshotTyped
    <3>2. accessWorker' \in AccessPass /\ accessWorker'.key = a
      BY <2>3, <3>1, GoTyped DEF AccessPCs
    <3>3. Runtime!RuntimeType'
      BY <1>1, <1>3, <2>3, AccessAssumption DEF Runtime!RLock, Runtime!RuntimeType, neighbourhood
    <3>4. QED
      BY <1>1, <1>2, <1>3, <2>1, <2>3, <3>2, <3>3, PassTyped
  <2>4. QED
    BY <1>6, <2>2, <2>3 DEF AccessGet
<1>7. CASE AccessUnannotate
  <2> DEFINE obj == [access[a] EXCEPT !.op = "none"]
  <2>1. obj \in AccessObject
    BY <1>2 DEF AccessObject, Operations
  <2>2. UNCHANGED access \/ StoreAccess(a, obj)
    BY <1>7 DEF AccessUnannotate
  <2>3. access' \in [Accesses -> AccessObject]
    BY <1>1, <1>2, <2>1, <2>2, StoreAccessEffect
  <2>4. \/ AccessLeave(TRUE, Never)
        \/ /\ Go(AccessSnapshot(w, obj, FALSE), "resolve")
           /\ Enqueue(AccessEvents) /\ UNCHANGED rwlock
    BY <1>7 DEF AccessUnannotate
  <2> HIDE DEF obj
  <2>5. CASE AccessLeave(TRUE, Never)
    BY <1>1, <1>2, <1>3, <1>4, <2>3, <2>5, PassTyped
  <2>6. CASE Go(AccessSnapshot(w, obj, FALSE), "resolve") /\ Enqueue(AccessEvents) /\ UNCHANGED rwlock
    <3>1. AccessSnapshot(w, obj, FALSE) \in AccessPass /\ AccessSnapshot(w, obj, FALSE).key = a
      <4>1. FALSE \in BOOLEAN
        OBVIOUS
      <4>2. QED
        BY <1>1, <2>1, <4>1, SnapshotTyped
    <3>2. accessWorker' \in AccessPass /\ accessWorker'.key = a
      BY <2>6, <3>1, GoTyped DEF AccessPCs
    <3>3. QED
      BY <1>1, <1>2, <1>3, <1>5, <2>3, <2>6, <3>2, EnqueueTyped, PassTyped
  <2>7. QED
    BY <2>4, <2>5, <2>6
<1>8. CASE AccessResolve
  <2>1. UNCHANGED <<access, due, rwlock>> /\ (Dispatch(w) \/ AccessReport(w, TRUE))
    BY <1>8 DEF AccessResolve, accessPlatformVars
  <2>2. accessWorker' \in AccessPass /\ accessWorker'.key = a
    BY <1>1, <2>1, DispatchTyped, ReportTyped
  <2>3. QED
    BY <1>1, <1>2, <1>3, <1>5, <2>1, <2>2, PassTyped
<1>9. CASE AccessFinalize
  <2> DEFINE obj == [access[a] EXCEPT !.own = TRUE]
             snapshot == AccessSnapshot(w, obj, w.granted)
  <2>1. obj \in AccessObject
    BY <1>2 DEF AccessObject
  <2>2. UNCHANGED access \/ StoreAccess(a, obj)
    BY <1>9 DEF AccessFinalize
  <2>3. access' \in [Accesses -> AccessObject]
    BY <1>1, <1>2, <2>1, <2>2, StoreAccessEffect
  <2>4. /\ Enqueue(AccessEvents) /\ UNCHANGED rwlock
        /\ Proceed([snapshot EXCEPT !.patched = obj]) \/ AccessReport(w, TRUE)
    BY <1>9 DEF AccessFinalize
  <2> HIDE DEF obj
  <2>5. [snapshot EXCEPT !.patched = obj] \in AccessPass /\ [snapshot EXCEPT !.patched = obj].key = a
    <3>1. snapshot \in AccessPass /\ snapshot.key = a
      BY <1>1, <1>2, <2>1, SnapshotTyped
    <3> HIDE DEF snapshot
    <3>2. QED
      BY <2>1, <3>1 DEF AccessPass
  <2> HIDE DEF snapshot
  <2>6. accessWorker' \in AccessPass /\ accessWorker'.key = a
    BY <1>1, <2>4, <2>5, ProceedTyped, ReportTyped
  <2>7. QED
    BY <1>1, <1>2, <1>3, <1>5, <2>3, <2>4, <2>6, EnqueueTyped, PassTyped
<1>10. QED
  BY <1>6, <1>7, <1>8, <1>9

\* Steps of a pass on the GKE cluster.
LEMMA MiddleStepTyped ==
    ASSUME AccessTypeInv,
           AccessCheck \/ AccessConnect \/ AccessAccount \/ AccessGrant \/ AccessList \/ AccessPurge
    PROVE  AccessTypeInv'
<1> DEFINE a == accessWorker.key
           w == accessWorker
<1>1. /\ access \in [Accesses -> AccessObject] /\ secret \in [Accesses -> SecretObject]
      /\ due \in [Accesses -> 0..Never] /\ rbac \in [Accesses -> SUBSET RBACObject]
      /\ w \in AccessPass /\ Runtime!RuntimeType
  BY AccessTypes
<1>2. w.pc # "idle" /\ a \in Accesses /\ secret[a].age \in 0..RenewAge
  BY AccessTypes DEF AccessCheck, AccessConnect, AccessAccount, AccessGrant, AccessList, AccessPurge,
     SecretObject
<1>3. FaultsType' /\ UNCHANGED neighbourhood /\ UNCHANGED <<access, due, rwlock>>
  <2>1. UNCHANGED neighbourhood /\ UNCHANGED <<access, due, rwlock>>
    BY DEF AccessCheck, AccessConnect, AccessAccount, AccessGrant, AccessList, AccessPurge,
       accessPlatformVars
  <2>2. QED
    BY <2>1, CallTyped DEF AccessCheck, AccessConnect, AccessAccount, AccessGrant, AccessList,
       AccessPurge, Succeeds
<1>4. Runtime!RuntimeType'
  BY <1>1, <1>3 DEF Runtime!RuntimeType, neighbourhood
<1>5. ASSUME secret' \in [Accesses -> SecretObject], rbac' \in [Accesses -> SUBSET RBACObject],
             NEW v \in AccessPass, v.key = a,
             \/ \E pc \in AccessPCs : Go(v, pc)
             \/ \E failed \in BOOLEAN : AccessReport(v, failed)
             \/ AfterCleanup(v)
      PROVE  AccessTypeInv'
  <2>1. v.failed \in BOOLEAN /\ "release" \in AccessPCs
    BY <1>5 DEF AccessPass, AccessPCs
  <2>2. accessWorker' \in AccessPass /\ accessWorker'.key = a
    BY <1>5, <2>1, GoTyped, ReportTyped DEF AfterCleanup
  <2>3. QED
    BY <1>1, <1>2, <1>3, <1>4, <1>5, <2>2, PassTyped
<1>6. w.spec \in Specs /\ Units(w.spec) \subseteq SUBSET RBACObject /\ w.todo \subseteq SUBSET RBACObject
  BY <1>1, WantedTyped DEF AccessPass
<1>7. CASE AccessCheck
  <2> DEFINE left == UntilRenewal(secret[a].age)
  <2>1. UNCHANGED rbac /\ secret' \in [Accesses -> SecretObject]
    <3>1. UNCHANGED secret \/ secret' = [secret EXCEPT ![a].age = RenewAge]
      BY <1>7 DEF AccessCheck
    <3>2. [secret[a] EXCEPT !.age = RenewAge] \in SecretObject
      BY <1>1, <1>2, TimesTyped DEF SecretObject
    <3>3. QED
      BY <1>1, <1>2, <1>7, <3>1, <3>2 DEF AccessCheck
  <2>2. [w EXCEPT !.renew = left] \in AccessPass /\ [w EXCEPT !.renew = left].key = a
    <3>1. left \in 0..Never
      BY <1>2, TimesTyped
    <3> HIDE DEF left
    <3>2. QED
      BY <1>1, <3>1 DEF AccessPass
  <2>3. \/ AccessReport([w EXCEPT !.renew = left], FALSE)
        \/ Go(w, "connect") \/ AccessReport(w, FALSE)
    BY <1>7 DEF AccessCheck
  <2> HIDE DEF left
  <2>4. QED
    BY <1>1, <1>5, <2>1, <2>2, <2>3 DEF AccessPCs
<1>8. CASE AccessConnect
  <2> DEFINE v == [w EXCEPT !.connected = TRUE]
             u == [v EXCEPT !.todo = Units(v.spec)]
  <2>1. v \in AccessPass /\ v.key = a /\ v.spec = w.spec
    BY <1>1 DEF AccessPass
  <2>2. u \in AccessPass /\ u.key = a
    <3> HIDE DEF v
    <3>1. QED
      BY <1>6, <2>1 DEF AccessPass
  <2>3. UNCHANGED <<rbac, secret>>
    BY <1>8 DEF AccessConnect, accessPlatformVars
  <2>4. \/ AccessReport(w, TRUE) \/ Go(v, "list") \/ Go(v, "account")
        \/ Go(u, "store") \/ Go(u, "grant")
    BY <1>8 DEF AccessConnect
  <2> HIDE DEF u, v
  <2>5. QED
    BY <1>1, <1>5, <2>1, <2>2, <2>3, <2>4 DEF AccessPCs
<1>9. CASE AccessAccount
  <2> DEFINE v == [w EXCEPT !.todo = Units(w.spec)]
  <2>1. v \in AccessPass /\ v.key = a
    BY <1>1, <1>6 DEF AccessPass
  <2>2. UNCHANGED secret /\ rbac' \in [Accesses -> SUBSET RBACObject]
    BY <1>1, <1>2, <1>9 DEF AccessAccount, accessPlatformVars, RBACObject
  <2>3. AccessReport(w, TRUE) \/ Go(v, "store") \/ Go(v, "grant")
    BY <1>9 DEF AccessAccount
  <2> HIDE DEF v
  <2>4. QED
    BY <1>1, <1>5, <2>1, <2>2, <2>3 DEF AccessPCs
<1>10. ASSUME NEW rest \in SUBSET SUBSET RBACObject, NEW failed \in BOOLEAN
       PROVE  /\ [w EXCEPT !.todo = rest, !.failed = failed] \in AccessPass
              /\ [w EXCEPT !.todo = rest, !.failed = failed].key = a
  BY <1>1, <1>10 DEF AccessPass
<1>11. CASE AccessGrant
  <2>1. PICK unit \in w.todo : \E done \in SUBSET unit, failed \in BOOLEAN :
           /\ rbac' = [rbac EXCEPT ![a] = @ \cup done]
           /\ \/ \E pc \in AccessPCs : Go(Turned(unit, failed), pc)
              \/ AccessReport(Turned(unit, failed), TRUE)
    BY <1>11, GrantEffect DEF AccessPCs
  <2>2. PICK done \in SUBSET unit, failed \in BOOLEAN :
           /\ rbac' = [rbac EXCEPT ![a] = @ \cup done]
           /\ \/ \E pc \in AccessPCs : Go(Turned(unit, failed), pc)
              \/ AccessReport(Turned(unit, failed), TRUE)
    BY <2>1
  <2>3. UNCHANGED secret /\ rbac' \in [Accesses -> SUBSET RBACObject]
    BY <1>1, <1>2, <1>6, <1>11, <2>2 DEF AccessGrant, accessPlatformVars
  <2> DEFINE v == Turned(unit, failed)
  <2>4. v \in AccessPass /\ v.key = a
    BY <1>1, TurnTyped
  <2>5. (\E pc \in AccessPCs : Go(v, pc)) \/ AccessReport(v, TRUE)
    BY <2>2
  <2> HIDE DEF v
  <2>6. QED
    BY <1>1, <1>5, <2>3, <2>4, <2>5
<1>12. CASE AccessList
  <2>1. PICK listed \in SUBSET rbac[a], failed \in BOOLEAN :
           LET v == [w EXCEPT !.todo = {{x} : x \in listed}, !.failed = failed] IN
           AfterCleanup(v) \/ Go(v, "purge")
    <3>1. PICK listed \in SUBSET {x \in rbac[a] : ~ShouldKeep(x, Keep(w))}, failed \in BOOLEAN :
             LET v == [w EXCEPT !.failed = failed, !.todo = {{x} : x \in listed}] IN
             AfterCleanup(v) \/ Go(v, "purge")
      BY <1>12 DEF AccessList
    <3>2. /\ listed \in SUBSET rbac[a]
          /\ [w EXCEPT !.failed = failed, !.todo = {{x} : x \in listed}]
                = [w EXCEPT !.todo = {{x} : x \in listed}, !.failed = failed]
      BY <1>1 DEF AccessPass
    <3>3. QED
      BY <3>1, <3>2
  <2>2. UNCHANGED <<secret, rbac>>
    BY <1>12 DEF AccessList, accessPlatformVars
  <2>3. {{x} : x \in listed} \in SUBSET SUBSET RBACObject
    BY <1>1, <1>2, <2>1
  <2>4. QED
    BY <1>1, <1>5, <1>10, <2>1, <2>2, <2>3 DEF AccessPCs
<1>13. CASE AccessPurge
  <2>1. PICK unit \in w.todo : \E done \in SUBSET unit, failed \in BOOLEAN :
           /\ rbac' = [rbac EXCEPT ![a] = @ \ done]
           /\ Go(Turned(unit, failed), "purge") \/ AfterCleanup(Turned(unit, failed))
    BY <1>13, PurgeEffect
  <2>2. PICK done \in SUBSET unit, failed \in BOOLEAN :
           /\ rbac' = [rbac EXCEPT ![a] = @ \ done]
           /\ Go(Turned(unit, failed), "purge") \/ AfterCleanup(Turned(unit, failed))
    BY <2>1
  <2>3. UNCHANGED secret /\ rbac' \in [Accesses -> SUBSET RBACObject]
    BY <1>1, <1>2, <1>6, <1>13, <2>2 DEF AccessPurge, accessPlatformVars
  <2> DEFINE v == Turned(unit, failed)
  <2>4. v \in AccessPass /\ v.key = a
    BY <1>1, TurnTyped
  <2>5. Go(v, "purge") \/ AfterCleanup(v)
    BY <2>2
  <2> HIDE DEF v
  <2>6. QED
    BY <1>1, <1>5, <2>3, <2>4, <2>5 DEF AccessPCs
<1>14. QED
  BY <1>7, <1>8, <1>9, <1>11, <1>12, <1>13

\* The last steps of a pass.
LEMMA LateStepTyped ==
    ASSUME AccessTypeInv, AccessStoreToken \/ AccessStoreOIDC \/ AccessRelease \/ AccessStatus
    PROVE  AccessTypeInv'
<1> DEFINE a == accessWorker.key
           w == accessWorker
<1>1. /\ access \in [Accesses -> AccessObject] /\ secret \in [Accesses -> SecretObject]
      /\ due \in [Accesses -> 0..Never] /\ rbac \in [Accesses -> SUBSET RBACObject]
      /\ w \in AccessPass /\ Runtime!RuntimeType
  BY AccessTypes
<1>2. /\ w.pc # "idle" /\ a \in Accesses /\ access[a] \in AccessObject /\ secret[a] \in SecretObject
      /\ w.renew \in 0..Never /\ w.generation \in Nat
  BY AccessTypes DEF AccessStoreToken, AccessStoreOIDC, AccessRelease, AccessStatus, AccessPass
<1>3. FaultsType' /\ UNCHANGED neighbourhood /\ UNCHANGED rbac
  BY CallTyped DEF AccessStoreToken, AccessStoreOIDC, StoreKubeconfig, AccessRelease, AccessStatus
<1>4. ASSUME NEW again, NEW renew \in 0..Never, AccessLeave(again, renew)
      PROVE  /\ due' \in [Accesses -> 0..Never] /\ Runtime!RuntimeType'
             /\ accessWorker' \in AccessPass /\ accessWorker'.pc = "idle"
  BY <1>1, <1>3, <1>4, AccessLeaveTyped, IdleTyped DEF neighbourhood
<1>5. ASSUME UNCHANGED rwlock PROVE Runtime!RuntimeType'
  BY <1>1, <1>3, <1>5 DEF Runtime!RuntimeType, neighbourhood
<1>6. ASSUME AccessStoreToken \/ AccessStoreOIDC PROVE AccessTypeInv'
  <2>1. UNCHANGED <<access, rwlock>> /\ Enqueue(SecretEvents)
    BY <1>6 DEF AccessStoreToken, AccessStoreOIDC
  <2>2. ASSUME NEW renew \in 0..Never, NEW kind \in {"token", "oidc"}, StoreKubeconfig(kind, renew)
        PROVE  /\ secret' \in [Accesses -> SecretObject]
               /\ accessWorker' \in AccessPass /\ accessWorker'.key = a
    <3>1. UNCHANGED secret \/ StoreSecret(a, NewSecret(kind))
      BY <2>2 DEF StoreKubeconfig
    <3>2. secret' \in [Accesses -> SecretObject]
      BY <1>1, <1>2, <3>1, NewSecretTyped, StoreSecretEffect
    <3> DEFINE v == [w EXCEPT !.renew = renew]
    <3>3. v \in AccessPass /\ v.key = a
      BY <1>1 DEF AccessPass
    <3>4. Go(v, "list") \/ AccessReport(w, TRUE)
      BY <2>2 DEF StoreKubeconfig
    <3> HIDE DEF v
    <3>5. QED
      BY <1>1, <3>2, <3>3, <3>4, GoTyped, ReportTyped DEF AccessPCs
  <2>3. UntilRenewal(0) \in 0..Never /\ Never \in 0..Never
    BY TimesTyped DEF UntilRenewal
  <2>4. /\ secret' \in [Accesses -> SecretObject]
        /\ accessWorker' \in AccessPass /\ accessWorker'.key = a
    <3>1. \/ StoreKubeconfig("token", UntilRenewal(0)) \/ StoreKubeconfig("oidc", Never)
          \/ UNCHANGED secret /\ AccessReport(w, TRUE)
      BY <1>6 DEF AccessStoreToken, AccessStoreOIDC
    <3>2. QED
      BY <1>1, <2>2, <2>3, <3>1, ReportTyped
  <2>5. QED
    BY <1>1, <1>2, <1>3, <1>5, <2>1, <2>4, EnqueueTyped, PassTyped
<1>7. ASSUME AccessRelease PROVE AccessTypeInv'
  <2> DEFINE obj == [access[a] EXCEPT !.own = FALSE]
  <2>1. obj \in AccessObject
    BY <1>2 DEF AccessObject
  <2>2. UNCHANGED access \/ StoreAccess(a, obj)
    BY <1>7 DEF AccessRelease
  <2>3. access' \in [Accesses -> AccessObject]
    BY <1>1, <1>2, <2>1, <2>2, StoreAccessEffect
  <2>4. secret' \in [Accesses -> SecretObject]
    BY <1>1, <1>2, <1>7, StoreSecretEffect DEF AccessRelease
  <2>5. \/ AccessLeave(FALSE, Never)
        \/ AccessReport(w, TRUE) /\ Enqueue(AccessEvents \cup SecretEvents) /\ UNCHANGED rwlock
    BY <1>7 DEF AccessRelease
  <2>6. /\ due' \in [Accesses -> 0..Never] /\ Runtime!RuntimeType'
        /\ accessWorker' \in AccessPass
        /\ accessWorker'.pc = "idle" \/ accessWorker'.key = a
    BY <1>1, <1>4, <1>5, <2>5, TimesTyped, EnqueueTyped, ReportTyped
  <2>7. QED
    BY <1>1, <1>2, <1>3, <2>3, <2>4, <2>6, PassTyped
<1>8. ASSUME AccessStatus PROVE AccessTypeInv'
  <2> DEFINE obj == [access[a] EXCEPT !.phase = IF w.failed THEN "Pending" ELSE "Granted",
                                      !.observed = w.generation]
  <2>1. obj \in AccessObject
    BY <1>2 DEF AccessObject
  <2>2. UNCHANGED access \/ StoreAccess(a, obj)
    BY <1>8 DEF AccessStatus
  <2>3. access' \in [Accesses -> AccessObject]
    BY <1>1, <1>2, <2>1, <2>2, StoreAccessEffect
  <2>4. UNCHANGED secret /\ \E again : AccessLeave(again, IF again THEN Never ELSE w.renew)
    BY <1>8 DEF AccessStatus
  <2>5. \A again : (IF again THEN Never ELSE w.renew) \in 0..Never
    BY <1>2, TimesTyped
  <2>6. QED
    BY <1>1, <1>2, <1>3, <1>4, <2>3, <2>4, <2>5, PassTyped
<1>9. QED
  BY <1>6, <1>7, <1>8

\* Every step keeps the types.
LEMMA AccessTypeInductive == AccessTypeInv /\ [AccessNext]_accessVars => AccessTypeInv'
<1> SUFFICES ASSUME AccessTypeInv, [AccessNext]_accessVars PROVE AccessTypeInv'
  OBVIOUS
<1>1. /\ access \in [Accesses -> AccessObject] /\ secret \in [Accesses -> SecretObject]
      /\ due \in [Accesses -> 0..Never] /\ rbac \in [Accesses -> SUBSET RBACObject]
      /\ accessWorker \in AccessPass /\ NeighboursType /\ FaultsType
  BY AccessTypes DEF AccessTypeInv, AccessTypeOK
<1>2. CASE AccessUser
  BY <1>1, <1>2, AccessUserTyped, EnqueueTyped
     DEF AccessUser, AccessUserNext, neighbourVars, AccessTypeInv, AccessTypeOK, PassKey,
         AccessControllerType, NeighboursType, Runtime!RuntimeType, FaultsType
<1>3. CASE Neighbour
  <2>1. NeighboursType' /\ UNCHANGED <<faults, access, secret, due>>
    BY <1>3, NeighbourTyped DEF Neighbour, Surroundings, accessPlatformVars
  <2>2. rbac' \in [Accesses -> SUBSET RBACObject]
    BY <1>1, <1>3 DEF Neighbour, Surroundings
  <2>3. /\ accessWorker' \in AccessPass
        /\ accessWorker'.pc = accessWorker.pc /\ accessWorker'.key = accessWorker.key
    BY <1>1, <1>3 DEF Neighbour, Surroundings, AccessPass
  <2>4. QED
    BY <1>1, <2>1, <2>2, <2>3 DEF AccessTypeInv, AccessTypeOK, PassKey, AccessPlatformType,
       AccessControllerType, FaultsType
<1>4. CASE AccessStep
  BY <1>4, EarlyStepTyped, MiddleStepTyped, LateStepTyped DEF AccessStep
<1>5. ASSUME NEW a \in Accesses, AccessDequeue(a) PROVE AccessTypeInv'
  <2>1. accessWorker' \in AccessPass /\ accessWorker'.key = a
    BY <1>5, IdleTyped DEF AccessDequeue, AccessPass, AccessPCs
  <2>2. due' \in [Accesses -> 0..Never]
    BY <1>1, <1>5, TimesTyped DEF AccessDequeue
  <2>3. QED
    BY <1>1, <1>5, <2>1, <2>2 DEF AccessDequeue, accessPlatformVars, neighbourhood, AccessTypeInv,
       AccessTypeOK, PassKey, AccessPlatformType, AccessControllerType, FaultsType, NeighboursType,
       Runtime!RuntimeType
<1>6. ASSUME NEW a \in Accesses, Resync(a) PROVE AccessTypeInv'
  BY <1>1, <1>6, EnqueueTyped DEF Resync, accessPlatformVars, neighbourhood, AccessTypeInv,
     AccessTypeOK, PassKey, AccessPlatformType, AccessControllerType, FaultsType, NeighboursType,
     Runtime!RuntimeType
<1>7. CASE Tick
  <2>1. \A a \in Accesses : secret[a].age < RenewAge =>
            [secret[a] EXCEPT !.age = secret[a].age + 1] \in SecretObject
    <3>1. ASSUME NEW a \in Accesses, secret[a].age < RenewAge
          PROVE  [secret[a] EXCEPT !.age = secret[a].age + 1] \in SecretObject
      <4>1. secret[a] \in SecretObject /\ secret[a].age + 1 \in 0..RenewAge
        BY <1>1, <3>1, TimesTyped DEF SecretObject
      <4>2. QED
        BY <4>1 DEF SecretObject
    <3>2. QED
      BY <3>1
  <2>2. secret' \in [Accesses -> SecretObject]
    BY <1>1, <1>7, <2>1 DEF Tick
  <2>3. due' \in [Accesses -> 0..Never]
    BY <1>1, <1>7, TimesTyped DEF Tick
  <2>4. QED
    BY <1>1, <1>7, <2>2, <2>3 DEF Tick, neighbourVars, AccessTypeInv,
       AccessTypeOK, PassKey, AccessPlatformType, AccessControllerType, FaultsType, NeighboursType,
       Runtime!RuntimeType
<1>8. CASE AccessRestart
  <2>1. NeighboursType' /\ FaultsType'
    BY <1>8, NeighbourTyped, CallTyped DEF AccessRestart
  <2>2. due' \in [Accesses -> 0..Never]
    BY <1>1, <1>8, TimesTyped DEF AccessRestart
  <2>3. QED
    BY <1>1, <1>8, <2>1, <2>2, IdleTyped DEF AccessRestart, accessPlatformVars, AccessTypeInv,
       AccessTypeOK, PassKey, AccessPlatformType, AccessControllerType
<1>9. CASE UNCHANGED accessVars
  BY <1>1, <1>9 DEF accessVars, neighbourVars, accessPlatformVars, accessControllerVars,
     AccessTypeInv, AccessTypeOK, PassKey, AccessPlatformType, AccessControllerType, FaultsType,
     NeighboursType, Runtime!RuntimeType
<1>10. QED
  BY <1>2, <1>3, <1>4, <1>5, <1>6, <1>7, <1>8, <1>9 DEF AccessNext, AccessControllerNext

\* The first states are typed.
LEMMA AccessTypeInitial == ASSUME AccessInit PROVE AccessTypeInv
<1>1. FaultsType /\ NeighboursType
  BY DEF AccessInit, FaultsInit, FaultsType, NeighboursInit, NeighboursType, ApiStates,
     Runtime!RuntimeInit, Runtime!RuntimeType, Runtime!NewRwlock, Runtime!NewProfiles
<1>2. AccessPlatformType
  BY NoAccessTyped, NewSecretTyped DEF AccessInit, AccessPlatformInit, AccessPlatformType
<1>3. AccessControllerType /\ PassKey
  BY IdleTyped, TimesTyped DEF AccessInit, AccessControllerInit, AccessControllerType, PassKey
<1>4. QED
  BY <1>1, <1>2, <1>3 DEF AccessTypeInv, AccessTypeOK

\* Types hold in every reachable state.
LEMMA AccessTypeInvAlways == AccessSpec => []AccessTypeInv
<1>1. AccessInit => AccessTypeInv
  BY AccessTypeInitial
<1>2. QED
  BY <1>1, AccessTypeInductive, PTL DEF AccessSpec

\* Every variable keeps its type, for any neighbours, requests and failures.
THEOREM AccessTypeCorrect == AccessSpec => []AccessTypeOK
<1>1. AccessTypeInv => AccessTypeOK
  BY DEF AccessTypeInv
<1>2. QED
  BY <1>1, AccessTypeInvAlways, PTL

-----------------------------------------------------------------------------
(***************************************************************************)
(* Nothing is left behind.                                                 *)
(***************************************************************************)
\* The pass goes on with what it has read.
Continues(w) ==
    /\ accessWorker'.key = w.key
    /\ accessWorker'.deleting = w.deleting
    /\ accessWorker'.own = w.own
    /\ accessWorker'.spec = w.spec
    /\ accessWorker'.generation = w.generation

\* What the ends of the handlers' steps do to the pass.
LEMMA GoEffect ==
    ASSUME NEW w \in AccessPass, NEW pc, Go(w, pc)
    PROVE  /\ Continues(w) /\ accessWorker'.pc = pc /\ accessWorker'.failed = w.failed
           /\ accessWorker'.todo = w.todo /\ accessWorker'.connected = w.connected
           /\ accessWorker'.granted = w.granted /\ accessWorker'.renew = w.renew
  BY DEF Go, AccessPass, Continues

\* See GoEffect.
LEMMA ReportEffect ==
    ASSUME NEW w \in AccessPass, NEW failed \in BOOLEAN, AccessReport(w, failed)
    PROVE  /\ Continues(w) /\ accessWorker'.pc = "status" /\ accessWorker'.failed = failed
           /\ accessWorker'.renew = w.renew /\ accessWorker'.connected = w.connected
  BY DEF AccessReport, AccessPass, Continues

\* See GoEffect.
LEMMA ProceedEffect ==
    ASSUME NEW w \in AccessPass, Proceed(w)
    PROVE  /\ Continues(w)
           /\ \/ accessWorker'.pc = "connect"
              \/ accessWorker'.pc = "check" /\ w.granted
              \/ /\ accessWorker'.pc = "status" /\ w.granted /\ w.spec.kind # "token"
                 /\ ~accessWorker'.failed
  BY GoEffect, ReportEffect DEF Proceed

\* See GoEffect.
LEMMA CleanupEffect ==
    ASSUME NEW w \in AccessPass, AfterCleanup(w)
    PROVE  /\ Continues(w)
           /\ \/ accessWorker'.pc = "release" /\ w.deleting /\ ~w.failed
              \/ /\ accessWorker'.pc = "status" /\ accessWorker'.failed = w.failed
                 /\ accessWorker'.renew = w.renew /\ accessWorker'.connected = w.connected
                 /\ w.failed \/ ~w.deleting
<1>1. w.failed \in BOOLEAN
  BY DEF AccessPass
<1>2. QED
  BY <1>1, GoEffect, ReportEffect DEF AfterCleanup

\* The AccessRequest a, if guarded, stays so, and is not granted.
Persists(a) ==
    /\ access[a].own =>
        /\ access'[a].own
        /\ access[a].deleting => access'[a].deleting
        /\ access[a].generation <= access'[a].generation
        /\ access[a].generation = access'[a].generation => access'[a].spec = access[a].spec
    /\ access'[a].phase = "Granted" =>
        access[a].phase = "Granted" /\ access'[a].observed = access[a].observed

\* Storing an AccessRequest that is not granted by it, and keeps its finalizer.
LEMMA StoreAccessKeeps ==
    ASSUME AccessTypeInv, ObjectsOK, NEW a \in Accesses, NEW obj \in AccessObject,
           StoreAccess(a, obj),
           obj.own => obj.exists,
           access[a].own => obj.own,
           access[a].deleting => obj.deleting,
           access[a].own => access[a].generation <= obj.generation,
           access[a].own /\ access[a].generation = obj.generation => obj.spec = access[a].spec,
           obj.phase = "Granted" => /\ access[a].phase = "Granted"
                                   /\ obj.observed = access[a].observed
                                   /\ access[a].generation <= obj.generation
    PROVE  ObjectsOK' /\ \A b \in Accesses : Persists(b)
<1>1. /\ access \in [Accesses -> AccessObject] /\ access' \in [Accesses -> AccessObject]
      /\ \A b \in Accesses \ {a} : access'[b] = access[b]
      /\ access'[a] = IF obj.deleting /\ ~obj.own THEN NoAccess ELSE obj
  BY AccessTypes, StoreAccessEffect
<1>2. /\ NoAccess.own = FALSE /\ NoAccess.deleting = FALSE /\ NoAccess.phase = "None"
  BY DEF NoAccess
<1>3. \A b \in Accesses : access[b].generation \in Nat /\ access[b].observed \in Nat
  BY <1>1 DEF AccessObject
<1>4. obj.generation \in Nat /\ obj.observed \in Nat
  BY DEF AccessObject
<1>5. \A b \in Accesses : Persists(b)
  <2>1. ASSUME NEW b \in Accesses \ {a} PROVE Persists(b)
    BY <1>1, <1>3, <2>1 DEF Persists
  <2>2. Persists(a)
    BY <1>1, <1>2, <1>3, <1>4 DEF Persists
  <2>3. QED
    BY <2>1, <2>2
<1>6. ObjectsOK'
  <2>1. ASSUME NEW b \in Accesses
        PROVE  /\ access'[b].own => access'[b].exists
               /\ access'[b].deleting => access'[b].own
               /\ access'[b].phase = "Granted" =>
                    access'[b].own /\ access'[b].observed <= access'[b].generation
    <3>1. CASE b # a
      BY <1>1, <2>1, <3>1 DEF ObjectsOK
    <3>2. CASE b = a /\ obj.deleting /\ ~obj.own
      BY <1>1, <1>2, <3>2
    <3>3. CASE b = a /\ ~(obj.deleting /\ ~obj.own)
      <4>1. obj.phase = "Granted" => access[a].own /\ access[a].observed <= access[a].generation
        BY DEF ObjectsOK
      <4>2. obj.phase = "Granted" => obj.observed <= obj.generation
        BY <1>3, <1>4, <4>1
      <4>3. QED
        BY <1>1, <3>3, <4>1, <4>2
    <3>4. QED
      BY <3>1, <3>2, <3>3
  <2>2. QED
    BY <2>1 DEF ObjectsOK
<1>7. QED
  BY <1>5, <1>6

\* AccessRequests that do not change.
LEMMA AccessUnchanged ==
    ASSUME AccessTypeInv, ObjectsOK, UNCHANGED access
    PROVE  ObjectsOK' /\ \A b \in Accesses : Persists(b)
<1>1. \A b \in Accesses : access[b].generation <= access[b].generation
  BY AccessTypes DEF AccessObject
<1>2. QED
  BY <1>1 DEF ObjectsOK, Persists

\* The pass keeps knowing what it has read.
LEMMA SameObjectKept ==
    ASSUME AccessTypeInv, AccessTypeInv', SameObject, accessWorker.pc # "idle",
           Persists(accessWorker.key), Continues(accessWorker)
    PROVE  SameObject'
<1> DEFINE a == accessWorker.key
<1>1. a \in Accesses /\ access[a] \in AccessObject /\ access'[a] \in AccessObject
  BY AccessTypes DEF AccessTypeInv, AccessTypeOK, AccessPlatformType
<1>2. accessWorker.generation \in Nat
  BY AccessTypes DEF AccessPass
<1>3. /\ access[a].generation \in Nat /\ access'[a].generation \in Nat
  BY <1>1 DEF AccessObject
<1>4. QED
  BY <1>2, <1>3 DEF SameObject, Persists, Continues

\* The pass knows what it has just read.
LEMMA JustRead ==
    ASSUME AccessTypeInv', ObjectsOK', accessWorker'.key \in Accesses,
           accessWorker'.deleting = access'[accessWorker'.key].deleting,
           accessWorker'.spec = access'[accessWorker'.key].spec,
           accessWorker'.generation = access'[accessWorker'.key].generation,
           access'[accessWorker'.key].own \/ access'[accessWorker'.key].deleting
    PROVE  SameObject'
<1>1. access'[accessWorker'.key].generation \in Nat
  BY DEF AccessTypeInv, AccessTypeOK, AccessPlatformType, AccessObject
<1>2. QED
  BY <1>1 DEF SameObject, ObjectsOK

\* A pass that has not read yet, is over, or has failed needs to know nothing.
LEMMA Quiet ==
    ASSUME \/ accessWorker'.pc \in {"idle", "locking", "unannotate", "finalize"}
           \/ accessWorker'.pc = "status" /\ accessWorker'.failed
    PROVE  KnowsObject' /\ Removed'
  BY DEF KnowsObject, Guarding, Removed

\* Steps of others, who take no finalizer away and add nothing to a GKE cluster.
LEMMA OthersGuarded ==
    ASSUME AccessInv, AccessTypeInv', ObjectsOK', \A b \in Accesses : Persists(b),
           \A b \in Accesses : rbac'[b] \subseteq rbac[b],
           Continues(accessWorker), accessWorker'.pc = accessWorker.pc,
           accessWorker'.failed = accessWorker.failed, accessWorker'.todo = accessWorker.todo
    PROVE  GuardedAccess'
<1>1. RBACGuarded'
  BY DEF AccessInv, GuardedAccess, RBACGuarded, Persists
<1>2. accessWorker.pc # "idle" => accessWorker.key \in Accesses
  BY DEF AccessInv, AccessTypeInv, PassKey
<1>3. KnowsObject'
  <2>1. SUFFICES ASSUME Guarding' PROVE SameObject'
    BY DEF KnowsObject
  <2>2. Guarding /\ accessWorker.pc # "idle"
    BY <2>1 DEF Guarding, Continues
  <2>3. QED
    BY <1>2, <2>2, SameObjectKept DEF AccessInv, GuardedAccess, KnowsObject
<1>4. Removed'
  BY <1>2 DEF AccessInv, GuardedAccess, Removed, Continues
<1>5. QED
  BY <1>1, <1>3, <1>4 DEF GuardedAccess

\* What users do.
LEMMA AccessUserGuarded ==
    ASSUME AccessInv, AccessTypeInv', AccessUser
    PROVE  GuardedAccess' /\ \A b \in Accesses : Persists(b)
<1> DEFINE Goal == ObjectsOK' /\ \A b \in Accesses : Persists(b)
<1>1. /\ access \in [Accesses -> AccessObject] /\ AccessTypeInv /\ ObjectsOK
      /\ \A a \in Accesses : access[a].generation \in Nat /\ access[a].own \in BOOLEAN
  BY AccessTypes DEF AccessInv, GuardedAccess, AccessObject
<1>2. ASSUME NEW a \in Accesses, NEW spec \in Specs, CreateAccess(a, spec) PROVE Goal
  <2> DEFINE obj == [NoAccess EXCEPT !.exists = TRUE, !.spec = spec]
  <2>1. obj \in AccessObject
    BY NoAccessTyped DEF AccessObject
  <2>2. obj.own = FALSE /\ obj.phase = "None" /\ StoreAccess(a, obj)
    BY <1>2 DEF NoAccess, CreateAccess, Submit
  <2>3. ~access[a].own /\ ~access[a].deleting
    BY <1>1, <1>2 DEF CreateAccess, ObjectsOK
  <2> HIDE DEF obj
  <2>4. QED
    BY <1>1, <2>1, <2>2, <2>3, StoreAccessKeeps
<1>3. ASSUME NEW a \in Accesses, NEW obj \in AccessObject, StoreAccess(a, obj), access[a].exists,
             obj.exists = access[a].exists, obj.own = access[a].own, obj.phase = access[a].phase,
             obj.observed = access[a].observed, access[a].deleting => obj.deleting,
             \/ obj.generation = access[a].generation /\ obj.spec = access[a].spec
             \/ obj.generation = access[a].generation + 1
      PROVE  Goal
  <2>1. /\ access[a].generation <= obj.generation
        /\ access[a].generation = obj.generation => obj.spec = access[a].spec
    BY <1>1, <1>3
  <2>2. QED
    BY <1>1, <1>3, <2>1, StoreAccessKeeps
<1>4. ASSUME NEW a \in Accesses, NEW spec \in Specs, ChangeSpec(a, spec) PROVE Goal
  <2> DEFINE obj == [access[a] EXCEPT !.spec = spec, !.generation = @ + 1]
  <2>1. access[a] \in AccessObject /\ access[a].generation + 1 \in Nat
    BY <1>1
  <2>2. /\ obj \in AccessObject /\ obj.exists = access[a].exists /\ obj.own = access[a].own
        /\ obj.phase = access[a].phase /\ obj.observed = access[a].observed
        /\ obj.deleting = access[a].deleting /\ obj.generation = access[a].generation + 1
    BY <2>1 DEF AccessObject
  <2>3. StoreAccess(a, obj) /\ access[a].exists
    BY <1>4 DEF ChangeSpec, Submit
  <2> HIDE DEF obj
  <2>4. QED
    BY <1>3, <2>2, <2>3
<1>5. ASSUME NEW a \in Accesses, NEW op \in AccessOps \cup {"none"}, AnnotateAccess(a, op) PROVE Goal
  <2> DEFINE obj == [access[a] EXCEPT !.op = op]
  <2>1. /\ obj \in AccessObject /\ obj.exists = access[a].exists /\ obj.own = access[a].own
        /\ obj.phase = access[a].phase /\ obj.observed = access[a].observed
        /\ obj.deleting = access[a].deleting /\ obj.generation = access[a].generation
        /\ obj.spec = access[a].spec
    BY <1>1, SpecsAssumption DEF AccessObject, Operations
  <2>2. StoreAccess(a, obj) /\ access[a].exists
    BY <1>5 DEF AnnotateAccess, Submit
  <2> HIDE DEF obj
  <2>3. QED
    BY <1>3, <2>1, <2>2
<1>6. ASSUME NEW a \in Accesses, DeleteAccess(a) PROVE Goal
  <2> DEFINE obj == [access[a] EXCEPT !.deleting = TRUE]
  <2>1. /\ obj \in AccessObject /\ obj.exists = access[a].exists /\ obj.own = access[a].own
        /\ obj.phase = access[a].phase /\ obj.observed = access[a].observed
        /\ obj.deleting /\ obj.generation = access[a].generation
        /\ obj.spec = access[a].spec
    BY <1>1 DEF AccessObject
  <2>2. StoreAccess(a, obj) /\ access[a].exists
    BY <1>6 DEF DeleteAccess, Submit
  <2> HIDE DEF obj
  <2>3. QED
    BY <1>3, <2>1, <2>2
<1>7. Goal
  BY <1>1, <1>2, <1>4, <1>5, <1>6, AccessUnchanged DEF AccessUser, AccessUserNext, DeleteSecret
<1>8. UNCHANGED <<rbac, accessWorker>>
  BY DEF AccessUser
<1>9. QED
  BY <1>7, <1>8, OthersGuarded DEF Continues

\* A step of a pass that has seen the finalizer.
LEMMA GuardKept ==
    ASSUME AccessInv, AccessTypeInv', ObjectsOK', \A b \in Accesses : Persists(b),
           accessWorker.pc # "idle", Guarding, Continues(accessWorker),
           \A b \in Accesses : b = accessWorker.key \/ rbac'[b] \subseteq rbac[b],
           Removed'
    PROVE  GuardedAccess'
<1>1. accessWorker.key \in Accesses
  BY DEF AccessInv, AccessTypeInv, PassKey
<1>2. SameObject
  BY DEF AccessInv, GuardedAccess, KnowsObject
<1>3. SameObject'
  BY <1>1, <1>2, SameObjectKept DEF AccessInv
<1>4. RBACGuarded'
  <2>1. access[accessWorker.key].own
    BY <1>2 DEF SameObject
  <2>2. QED
    BY <1>1, <2>1 DEF AccessInv, GuardedAccess, RBACGuarded, Persists
<1>5. QED
  BY <1>3, <1>4 DEF GuardedAccess, KnowsObject

\* A step of a pass that has nothing to know afterwards, or has just read it.
LEMMA GuardRead ==
    ASSUME AccessInv, AccessTypeInv', ObjectsOK', \A b \in Accesses : Persists(b),
           UNCHANGED rbac, KnowsObject', Removed'
    PROVE  GuardedAccess'
  BY DEF AccessInv, GuardedAccess, RBACGuarded, Persists

\* Until the finalizer is set.
LEMMA EarlyGuarded ==
    ASSUME AccessInv, AccessTypeInv',
           AccessGet \/ AccessUnannotate \/ AccessResolve \/ AccessFinalize
    PROVE  GuardedAccess' /\ \A b \in Accesses : Persists(b)
<1> DEFINE a == accessWorker.key
           w == accessWorker
<1>1. /\ AccessTypeInv /\ ObjectsOK /\ access \in [Accesses -> AccessObject] /\ w \in AccessPass
      /\ access' \in [Accesses -> AccessObject]
  BY AccessTypes DEF AccessInv, GuardedAccess, AccessTypeInv, AccessTypeOK, AccessPlatformType
<1>2. /\ w.pc # "idle" /\ a \in Accesses /\ access[a] \in AccessObject /\ w.granted \in BOOLEAN
      /\ access[a].generation \in Nat /\ access[a].own \in BOOLEAN
  BY <1>1, AccessTypes DEF AccessGet, AccessUnannotate, AccessResolve, AccessFinalize, AccessPass,
     AccessObject
<1>3. UNCHANGED rbac
  BY DEF AccessGet, AccessUnannotate, AccessResolve, AccessFinalize
<1>4. ASSUME NEW again, NEW renew, AccessLeave(again, renew) PROVE KnowsObject' /\ Removed'
  BY <1>4, IdleTyped, Quiet DEF AccessLeave
<1>5. ASSUME NEW obj \in AccessObject, NEW granted \in BOOLEAN, NEW pc \in {"unannotate", "resolve"},
             Go(AccessSnapshot(w, obj, granted), pc), ObjectsOK', access'[a] = obj
      PROVE  KnowsObject' /\ Removed'
  <2>1. AccessSnapshot(w, obj, granted) \in AccessPass
    BY <1>1, SnapshotTyped
  <2>2. /\ accessWorker'.key = a /\ accessWorker'.pc = pc
        /\ accessWorker'.deleting = obj.deleting /\ accessWorker'.own = obj.own
        /\ accessWorker'.spec = obj.spec /\ accessWorker'.generation = obj.generation
    BY <1>1, <1>5, <2>1, SnapshotTyped, GoEffect DEF Continues
  <2>3. Guarding' => access'[a].own \/ access'[a].deleting
    BY <1>5, <2>2 DEF Guarding
  <2>4. KnowsObject'
    BY <1>2, <1>5, <2>2, <2>3, JustRead DEF KnowsObject
  <2>5. QED
    BY <2>2, <2>4 DEF Removed
<1>6. CASE AccessGet
  <2>1. UNCHANGED access
    BY <1>6 DEF AccessGet, accessPlatformVars
  <2>2. ObjectsOK' /\ \A b \in Accesses : Persists(b)
    BY <1>1, <2>1, AccessUnchanged
  <2>3. \/ \E again : AccessLeave(again, Never)
        \/ \E pc \in {"unannotate", "resolve"} : Go(AccessSnapshot(w, access[a], TRUE), pc)
    BY <1>6 DEF AccessGet
  <2>4. TRUE \in BOOLEAN
    OBVIOUS
  <2>5. KnowsObject' /\ Removed'
    BY <1>2, <1>4, <1>5, <2>1, <2>2, <2>3, <2>4
  <2>6. QED
    BY <1>3, <2>2, <2>5, GuardRead
<1>7. CASE AccessUnannotate
  <2> DEFINE obj == [access[a] EXCEPT !.op = "none"]
  <2>1. /\ obj \in AccessObject /\ obj.exists = access[a].exists /\ obj.own = access[a].own
        /\ obj.phase = access[a].phase /\ obj.observed = access[a].observed
        /\ obj.deleting = access[a].deleting /\ obj.generation = access[a].generation
        /\ obj.spec = access[a].spec
    BY <1>2 DEF AccessObject, Operations
  <2>2. UNCHANGED access \/ StoreAccess(a, obj)
    BY <1>7 DEF AccessUnannotate
  <2>3. \/ AccessLeave(TRUE, Never)
        \/ Go(AccessSnapshot(w, obj, FALSE), "resolve") /\ StoreAccess(a, obj)
    BY <1>7 DEF AccessUnannotate, Applied
  <2> HIDE DEF obj
  <2>4. /\ obj.own => obj.exists
        /\ obj.phase = "Granted" => access[a].generation <= obj.generation
    BY <1>1, <1>2, <2>1 DEF ObjectsOK
  <2>5. access[a].generation <= obj.generation
    BY <1>2, <2>1
  <2>6. ASSUME StoreAccess(a, obj) PROVE ObjectsOK' /\ \A b \in Accesses : Persists(b)
    BY <1>1, <1>2, <2>1, <2>4, <2>5, <2>6, StoreAccessKeeps
  <2>7. ObjectsOK' /\ \A b \in Accesses : Persists(b)
    BY <1>1, <2>2, <2>6, AccessUnchanged
  <2>8. ASSUME Go(AccessSnapshot(w, obj, FALSE), "resolve"), StoreAccess(a, obj)
        PROVE  KnowsObject' /\ Removed'
    <3>1. obj.deleting => obj.own
      BY <1>1, <1>2, <2>1 DEF ObjectsOK
    <3>2. access'[a] = obj
      BY <1>1, <1>2, <2>1, <2>8, <3>1, StoreAccessEffect
    <3>3. FALSE \in BOOLEAN
      OBVIOUS
    <3>4. QED
      BY <1>5, <2>1, <2>7, <2>8, <3>2, <3>3
  <2>9. QED
    BY <1>3, <1>4, <2>3, <2>7, <2>8, GuardRead
<1>8. CASE AccessResolve
  <2>1. UNCHANGED access /\ (Dispatch(w) \/ AccessReport(w, TRUE)) /\ w.pc = "resolve"
    BY <1>8 DEF AccessResolve, accessPlatformVars
  <2>2. ObjectsOK' /\ \A b \in Accesses : Persists(b)
    BY <1>1, <2>1, AccessUnchanged
  <2>3. CASE AccessReport(w, TRUE)
    <3>1. KnowsObject' /\ Removed'
      BY <1>1, <2>3, ReportEffect, Quiet
    <3>2. QED
      BY <1>3, <2>2, <3>1, GuardRead
  <2>4. CASE Dispatch(w) /\ ~w.deleting /\ ~w.own
    <3>1. Go(w, "finalize")
      BY <2>4 DEF Dispatch
    <3>2. KnowsObject' /\ Removed'
      BY <1>1, <3>1, GoEffect, Quiet
    <3>3. QED
      BY <1>3, <2>2, <3>2, GuardRead
  <2>5. CASE Dispatch(w) /\ (w.deleting \/ w.own)
    <3>1. Go(w, "connect") \/ Proceed(w)
      BY <2>5 DEF Dispatch
    <3>2. Continues(w) /\ accessWorker'.pc \in {"connect", "check", "status"}
      BY <1>1, <3>1, GoEffect, ProceedEffect
    <3>3. Guarding /\ Removed'
      BY <2>1, <2>5, <3>2 DEF Guarding, Removed
    <3>4. QED
      BY <1>2, <1>3, <2>2, <3>2, <3>3, GuardKept
  <2>6. QED
    BY <2>1, <2>3, <2>4, <2>5
<1>9. CASE AccessFinalize
  <2> DEFINE obj == [access[a] EXCEPT !.own = TRUE]
             snapshot == AccessSnapshot(w, obj, w.granted)
             v == [snapshot EXCEPT !.patched = obj]
  <2>1. /\ obj \in AccessObject /\ obj.exists = access[a].exists /\ obj.own
        /\ obj.phase = access[a].phase /\ obj.observed = access[a].observed
        /\ obj.deleting = access[a].deleting /\ obj.generation = access[a].generation
        /\ obj.spec = access[a].spec
    BY <1>2 DEF AccessObject
  <2>2. UNCHANGED access \/ (StoreAccess(a, obj) /\ obj.exists)
    BY <1>9 DEF AccessFinalize
  <2>3. \/ AccessReport(w, TRUE)
        \/ Proceed(v) /\ StoreAccess(a, obj)
    BY <1>9 DEF AccessFinalize, Applied
  <2> HIDE DEF obj
  <2>4. access[a].generation <= obj.generation
    BY <1>2, <2>1
  <2>5. ASSUME StoreAccess(a, obj), obj.exists PROVE ObjectsOK' /\ \A b \in Accesses : Persists(b)
    BY <1>1, <1>2, <2>1, <2>4, <2>5, StoreAccessKeeps
  <2>6. ObjectsOK' /\ \A b \in Accesses : Persists(b)
    BY <1>1, <2>2, <2>5, AccessUnchanged
  <2>7. CASE AccessReport(w, TRUE)
    <3>1. KnowsObject' /\ Removed'
      BY <1>1, <2>7, ReportEffect, Quiet
    <3>2. QED
      BY <1>3, <2>6, <3>1, GuardRead
  <2>8. ASSUME Proceed(v), StoreAccess(a, obj) PROVE KnowsObject' /\ Removed'
    <3>1. access'[a] = obj
      BY <1>1, <1>2, <2>1, <2>8, StoreAccessEffect
    <3>2. /\ snapshot \in AccessPass /\ snapshot.key = a /\ snapshot.spec = obj.spec
          /\ snapshot.generation = obj.generation /\ snapshot.deleting = obj.deleting
      BY <1>1, <1>2, <2>1, SnapshotTyped
    <3> HIDE DEF snapshot
    <3>3. /\ v \in AccessPass /\ v.key = a /\ v.spec = obj.spec
          /\ v.generation = obj.generation /\ v.deleting = obj.deleting
      BY <2>1, <3>2 DEF AccessPass
    <3> HIDE DEF v
    <3>4. Continues(v) /\ accessWorker'.pc \in {"connect", "check", "status"}
      BY <2>8, <3>3, ProceedEffect
    <3>5. SameObject'
      BY <1>2, <2>1, <2>6, <3>1, <3>3, <3>4, JustRead DEF Continues
    <3>6. QED
      BY <3>4, <3>5 DEF KnowsObject, Removed
  <2>9. QED
    BY <1>3, <2>3, <2>6, <2>7, <2>8, GuardRead
<1>10. QED
  BY <1>6, <1>7, <1>8, <1>9

\* What the cleanup starts with, and what a turn of its loop does.
LEMMA ListEffect ==
    ASSUME AccessTypeInv, AccessList
    PROVE  \E listed \in SUBSET rbac[accessWorker.key], v \in AccessPass :
              LET w == accessWorker IN
              /\ v.key = w.key /\ v.spec = w.spec /\ v.deleting = w.deleting /\ v.own = w.own
              /\ v.generation = w.generation /\ v.renew = w.renew /\ v.connected = w.connected
              /\ v.todo = {{x} : x \in listed}
              /\ \A x \in listed : ~ShouldKeep(x, Keep(w))
              /\ ~v.failed => listed = {x \in rbac[w.key] : ~ShouldKeep(x, Keep(w))}
              /\ IF listed = {} THEN AfterCleanup(v) ELSE Go(v, "purge")
<1> DEFINE w == accessWorker
           stale == {x \in rbac[w.key] : ~ShouldKeep(x, Keep(w))}
<1>1. w \in AccessPass /\ w.key \in Accesses /\ rbac[w.key] \subseteq RBACObject
  BY AccessTypes DEF AccessList
<1>2. PICK listed \in SUBSET stale, failed \in BOOLEAN :
         LET v == [w EXCEPT !.failed = failed, !.todo = {{x} : x \in listed}] IN
         /\ ~failed => listed = stale
         /\ IF listed = {} THEN AfterCleanup(v) ELSE Go(v, "purge")
  BY DEF AccessList
<1> DEFINE v == [w EXCEPT !.failed = failed, !.todo = {{x} : x \in listed}]
<1>3. {{x} : x \in listed} \in SUBSET SUBSET RBACObject
  BY <1>1
<1>4. /\ v \in AccessPass /\ v.key = w.key /\ v.spec = w.spec /\ v.deleting = w.deleting
      /\ v.own = w.own /\ v.generation = w.generation /\ v.renew = w.renew
      /\ v.todo = {{x} : x \in listed} /\ v.failed = failed /\ v.connected = w.connected
  BY <1>1, <1>3 DEF AccessPass
<1>5. IF listed = {} THEN AfterCleanup(v) ELSE Go(v, "purge")
  BY <1>2
<1> HIDE DEF v
<1>6. QED
  BY <1>2, <1>4, <1>5

\* See ListEffect.
LEMMA PurgeTurn ==
    ASSUME AccessTypeInv, AccessPurge
    PROVE  \E unit \in accessWorker.todo, v \in AccessPass, done \in SUBSET UNION accessWorker.todo :
              LET w == accessWorker IN
              /\ v.key = w.key /\ v.spec = w.spec /\ v.deleting = w.deleting /\ v.own = w.own
              /\ v.generation = w.generation /\ v.renew = w.renew /\ v.connected = w.connected
              /\ v.todo = w.todo \ {unit} /\ rbac' = [rbac EXCEPT ![w.key] = @ \ done]
              /\ ~v.failed => ~w.failed /\ done = unit
              /\ IF v.todo = {} THEN AfterCleanup(v) ELSE Go(v, "purge")
<1> DEFINE w == accessWorker
<1>1. w \in AccessPass
  BY AccessTypes
<1>2. PICK unit \in w.todo : \E done \in SUBSET unit, failed \in BOOLEAN :
         /\ Effect(unit, done, failed)
         /\ rbac' = [rbac EXCEPT ![w.key] = @ \ done]
         /\ IF w.todo \ {unit} = {} THEN AfterCleanup(Turned(unit, failed))
                                   ELSE Go(Turned(unit, failed), "purge")
  BY PurgeEffect
<1>3. PICK done \in SUBSET unit, failed \in BOOLEAN :
         /\ Effect(unit, done, failed)
         /\ rbac' = [rbac EXCEPT ![w.key] = @ \ done]
         /\ IF w.todo \ {unit} = {} THEN AfterCleanup(Turned(unit, failed))
                                   ELSE Go(Turned(unit, failed), "purge")
  BY <1>2
<1> DEFINE v == Turned(unit, failed)
<1>4. /\ v \in AccessPass /\ v.key = w.key /\ v.spec = w.spec /\ v.deleting = w.deleting
      /\ v.generation = w.generation /\ v.renew = w.renew /\ v.connected = w.connected
      /\ v.todo = w.todo \ {unit} /\ v.failed = (w.failed \/ failed)
  BY <1>1, TurnTyped
<1>5. v.own = w.own
  BY <1>1 DEF Turned, AccessPass
<1>6. ~v.failed => ~w.failed /\ done = unit
  BY <1>3, <1>4 DEF Effect
<1>7. IF v.todo = {} THEN AfterCleanup(v) ELSE Go(v, "purge")
  BY <1>3, <1>4
<1> HIDE DEF v
<1>8. QED
  BY <1>3, <1>4, <1>5, <1>6, <1>7

\* A deletion keeps nothing.
LEMMA KeepsNothing ==
    ASSUME NEW w, w.deleting, NEW objects
    PROVE  {x \in objects : ~ShouldKeep(x, Keep(w))} = objects
  BY DEF Keep, ShouldKeep

\* The pass goes on to make objects, or has failed.
OnTheWay ==
    \/ accessWorker'.pc \in {"account", "grant", "store", "list"}
    \/ accessWorker'.pc = "status" /\ accessWorker'.failed

\* The calls that make objects, up to the Secret.
LEMMA MakingEffect ==
    ASSUME AccessTypeInv,
           AccessCheck \/ AccessConnect \/ AccessAccount \/ AccessGrant \/ AccessStoreToken
              \/ AccessStoreOIDC
    PROVE  /\ Continues(accessWorker)
           /\ AccessCheck \/ OnTheWay
           /\ AccessCheck => accessWorker'.pc \in {"connect", "status"}
           /\ UNCHANGED access
           /\ \A b \in Accesses : b = accessWorker.key \/ rbac'[b] = rbac[b]
<1> DEFINE w == accessWorker
<1>1. /\ w \in AccessPass /\ rbac \in [Accesses -> SUBSET RBACObject]
      /\ w.spec \in Specs /\ Units(w.spec) \in SUBSET SUBSET RBACObject
  BY AccessTypes, WantedTyped DEF AccessPass
<1>2. UNCHANGED access
  BY DEF AccessCheck, AccessConnect, AccessAccount, AccessGrant, AccessStoreToken, AccessStoreOIDC,
     accessPlatformVars
<1>3. ASSUME NEW v \in AccessPass, v.key = w.key, v.deleting = w.deleting, v.own = w.own,
             v.spec = w.spec, v.generation = w.generation,
             \/ \E pc \in {"account", "grant", "store", "list"} : Go(v, pc)
             \/ AccessReport(v, TRUE)
      PROVE  Continues(w) /\ OnTheWay
  BY <1>3, GoEffect, ReportEffect DEF Continues, OnTheWay
<1>4. \A renew \in 0..Never :
         LET v == [w EXCEPT !.renew = renew] IN
         /\ v \in AccessPass /\ v.key = w.key /\ v.deleting = w.deleting /\ v.own = w.own
         /\ v.spec = w.spec /\ v.generation = w.generation
  BY <1>1 DEF AccessPass
<1>5. CASE AccessCheck
  <2> DEFINE v == [w EXCEPT !.renew = UntilRenewal(secret[w.key].age)]
  <2>1. UntilRenewal(secret[w.key].age) \in 0..Never
    BY <1>5, AccessTypes, TimesTyped DEF AccessCheck, SecretObject
  <2>2. AccessReport(v, FALSE) \/ Go(w, "connect") \/ AccessReport(w, FALSE)
    BY <1>5 DEF AccessCheck
  <2>3. /\ v \in AccessPass /\ v.key = w.key /\ v.deleting = w.deleting /\ v.own = w.own
        /\ v.spec = w.spec /\ v.generation = w.generation
    BY <1>4, <2>1
  <2> HIDE DEF v
  <2>4. QED
    BY <1>1, <1>2, <1>5, <2>2, <2>3, GoEffect, ReportEffect DEF AccessCheck, Continues
<1>6. CASE AccessConnect
  <2> DEFINE v == [w EXCEPT !.connected = TRUE]
             u == [v EXCEPT !.todo = Units(v.spec)]
  <2>1. /\ v \in AccessPass /\ v.key = w.key /\ v.deleting = w.deleting /\ v.own = w.own
        /\ v.spec = w.spec /\ v.generation = w.generation
    BY <1>1 DEF AccessPass
  <2>2. /\ u \in AccessPass /\ u.key = w.key /\ u.deleting = w.deleting /\ u.own = w.own
        /\ u.spec = w.spec /\ u.generation = w.generation
    <3> HIDE DEF v
    <3>1. QED
      BY <1>1, <2>1 DEF AccessPass
  <2>3. \/ AccessReport(w, TRUE) \/ Go(v, "list") \/ Go(v, "account")
        \/ Go(u, "store") \/ Go(u, "grant")
    BY <1>6 DEF AccessConnect
  <2> HIDE DEF u, v
  <2>4. QED
    BY <1>1, <1>2, <1>3, <1>6, <2>1, <2>2, <2>3 DEF AccessConnect, AccessCheck
<1>7. CASE AccessAccount
  <2> DEFINE v == [w EXCEPT !.todo = Units(w.spec)]
  <2>1. /\ v \in AccessPass /\ v.key = w.key /\ v.deleting = w.deleting /\ v.own = w.own
        /\ v.spec = w.spec /\ v.generation = w.generation
    BY <1>1 DEF AccessPass
  <2>2. AccessReport(w, TRUE) \/ Go(v, "store") \/ Go(v, "grant")
    BY <1>7 DEF AccessAccount
  <2>3. \A b \in Accesses : b = w.key \/ rbac'[b] = rbac[b]
    BY <1>1, <1>7 DEF AccessAccount
  <2> HIDE DEF v
  <2>4. QED
    BY <1>1, <1>2, <1>3, <1>7, <2>1, <2>2, <2>3 DEF AccessAccount, AccessCheck
<1>8. CASE AccessGrant
  <2>1. PICK unit \in w.todo : \E done \in SUBSET unit, failed \in BOOLEAN :
           /\ rbac' = [rbac EXCEPT ![w.key] = @ \cup done]
           /\ \/ Go(Turned(unit, failed), "grant") \/ Go(Turned(unit, failed), "store")
              \/ AccessReport(Turned(unit, failed), TRUE)
    BY <1>8, GrantEffect
  <2>2. PICK done \in SUBSET unit, failed \in BOOLEAN :
           /\ rbac' = [rbac EXCEPT ![w.key] = @ \cup done]
           /\ \/ Go(Turned(unit, failed), "grant") \/ Go(Turned(unit, failed), "store")
              \/ AccessReport(Turned(unit, failed), TRUE)
    BY <2>1
  <2> DEFINE v == Turned(unit, failed)
  <2>3. /\ v \in AccessPass /\ v.key = w.key /\ v.deleting = w.deleting
        /\ v.spec = w.spec /\ v.generation = w.generation
    BY <1>1, TurnTyped
  <2>4. v.own = w.own
    BY <1>1 DEF Turned, AccessPass
  <2>5. Go(v, "grant") \/ Go(v, "store") \/ AccessReport(v, TRUE)
    BY <2>2
  <2>6. \A b \in Accesses : b = w.key \/ rbac'[b] = rbac[b]
    BY <1>1, <2>2
  <2> HIDE DEF v
  <2>7. QED
    BY <1>1, <1>2, <1>3, <1>8, <2>3, <2>4, <2>5, <2>6 DEF AccessGrant, AccessCheck
<1>9. CASE AccessStoreToken \/ AccessStoreOIDC
  <2>1. \/ StoreKubeconfig("token", UntilRenewal(0)) \/ StoreKubeconfig("oidc", Never)
        \/ AccessReport(w, TRUE)
    BY <1>9 DEF AccessStoreToken, AccessStoreOIDC
  <2>2. AccessReport(w, TRUE) \/ \E renew \in 0..Never : Go([w EXCEPT !.renew = renew], "list")
    <3>1. UntilRenewal(0) \in 0..Never /\ Never \in 0..Never
      BY TimesTyped DEF UntilRenewal
    <3>2. ASSUME NEW kind, NEW renew \in 0..Never, StoreKubeconfig(kind, renew)
          PROVE  AccessReport(w, TRUE) \/ Go([w EXCEPT !.renew = renew], "list")
      BY <3>2 DEF StoreKubeconfig
    <3>3. QED
      BY <2>1, <3>1, <3>2
  <2>3. CASE AccessReport(w, TRUE)
    BY <1>1, <1>2, <1>3, <1>9, <2>3 DEF AccessStoreToken, AccessStoreOIDC, AccessCheck
  <2>4. ASSUME NEW renew \in 0..Never, Go([w EXCEPT !.renew = renew], "list")
        PROVE  Continues(w) /\ OnTheWay
    <3> DEFINE v == [w EXCEPT !.renew = renew]
    <3>1. /\ v \in AccessPass /\ v.key = w.key /\ v.deleting = w.deleting /\ v.own = w.own
          /\ v.spec = w.spec /\ v.generation = w.generation
      BY <1>4
    <3>2. Go(v, "list")
      BY <2>4
    <3> HIDE DEF v
    <3>3. QED
      BY <1>3, <3>1, <3>2
  <2>5. QED
    BY <1>2, <1>9, <2>2, <2>3, <2>4 DEF AccessStoreToken, AccessStoreOIDC, AccessCheck
<1>10. QED
  BY <1>5, <1>6, <1>7, <1>8, <1>9

\* On the GKE cluster.
LEMMA MiddleGuarded ==
    ASSUME AccessInv, AccessTypeInv',
           \/ AccessCheck \/ AccessConnect \/ AccessAccount \/ AccessGrant \/ AccessStoreToken
           \/ AccessStoreOIDC \/ AccessList \/ AccessPurge
    PROVE  GuardedAccess'
<1> DEFINE a == accessWorker.key
           w == accessWorker
<1>1. AccessTypeInv /\ ObjectsOK /\ rbac \in [Accesses -> SUBSET RBACObject]
  BY AccessTypes DEF AccessInv, GuardedAccess
<1>2. w.pc # "idle" /\ a \in Accesses /\ Guarding
  BY <1>1, AccessTypes DEF AccessCheck, AccessConnect, AccessAccount, AccessGrant, AccessStoreToken,
     AccessStoreOIDC, AccessList, AccessPurge, Guarding
<1>3. UNCHANGED access
  BY DEF AccessCheck, AccessConnect, AccessAccount, AccessGrant, AccessStoreToken, AccessStoreOIDC,
     AccessList, AccessPurge, accessPlatformVars
<1>4. ObjectsOK' /\ \A b \in Accesses : Persists(b)
  BY <1>1, <1>3, AccessUnchanged
<1>5. CASE \/ AccessCheck \/ AccessConnect \/ AccessAccount \/ AccessGrant \/ AccessStoreToken
           \/ AccessStoreOIDC
  <2>1. /\ Continues(w) /\ accessWorker'.pc \notin {"purge", "release"}
        /\ \A b \in Accesses : b = a \/ rbac'[b] = rbac[b]
    BY <1>1, <1>5, MakingEffect DEF OnTheWay
  <2>2. QED
    BY <1>2, <1>4, <2>1, GuardKept DEF Removed
<1>6. CASE AccessList
  <2>1. PICK listed \in SUBSET rbac[a], v \in AccessPass :
           /\ v.key = w.key /\ v.spec = w.spec /\ v.deleting = w.deleting /\ v.own = w.own
           /\ v.generation = w.generation /\ v.todo = {{x} : x \in listed}
           /\ ~v.failed => listed = {x \in rbac[w.key] : ~ShouldKeep(x, Keep(w))}
           /\ IF listed = {} THEN AfterCleanup(v) ELSE Go(v, "purge")
    BY <1>1, <1>6, ListEffect
  <2>2. /\ Continues(w)
        /\ \/ accessWorker'.pc = "purge" /\ accessWorker'.failed = v.failed
              /\ accessWorker'.todo = v.todo
           \/ accessWorker'.pc = "release" /\ v.deleting /\ ~v.failed /\ listed = {}
           \/ accessWorker'.pc = "status"
    BY <2>1, GoEffect, CleanupEffect DEF Continues
  <2>3. v.deleting /\ ~v.failed => listed = rbac[a]
    BY <2>1, KeepsNothing
  <2>4. UNCHANGED rbac
    BY <1>6 DEF AccessList
  <2>5. Removed'
    BY <2>1, <2>2, <2>3, <2>4 DEF Removed, Continues
  <2>6. QED
    BY <1>2, <1>4, <2>2, <2>4, <2>5, GuardKept
<1>7. CASE AccessPurge
  <2>1. PICK unit \in w.todo, v \in AccessPass, done \in SUBSET UNION w.todo :
           /\ v.key = w.key /\ v.spec = w.spec /\ v.deleting = w.deleting /\ v.own = w.own
           /\ v.generation = w.generation
           /\ v.todo = w.todo \ {unit} /\ rbac' = [rbac EXCEPT ![w.key] = @ \ done]
           /\ ~v.failed => ~w.failed /\ done = unit
           /\ IF v.todo = {} THEN AfterCleanup(v) ELSE Go(v, "purge")
    BY <1>1, <1>7, PurgeTurn
  <2>2. /\ Continues(w)
        /\ \/ accessWorker'.pc = "purge" /\ accessWorker'.failed = v.failed
              /\ accessWorker'.todo = v.todo
           \/ accessWorker'.pc = "release" /\ v.deleting /\ ~v.failed /\ v.todo = {}
           \/ accessWorker'.pc = "status"
    BY <2>1, GoEffect, CleanupEffect DEF Continues
  <2>3. v.deleting /\ ~v.failed => rbac'[a] \subseteq UNION v.todo
    <3>1. v.deleting /\ ~v.failed => rbac[a] \subseteq UNION w.todo
      BY <1>7, <2>1 DEF AccessPurge, AccessInv, GuardedAccess, Removed
    <3>2. rbac'[a] = rbac[a] \ done
      BY <1>1, <1>2, <2>1
    <3>3. QED
      BY <2>1, <3>1, <3>2
  <2>4. Removed'
    BY <2>1, <2>2, <2>3 DEF Removed, Continues
  <2>5. \A b \in Accesses : b = a \/ rbac'[b] = rbac[b]
    BY <1>1, <2>1
  <2>6. QED
    BY <1>2, <1>4, <2>2, <2>4, <2>5, GuardKept
<1>8. QED
  BY <1>5, <1>6, <1>7

\* The finalizer goes only after everything it guards; a status grants only what
\* the pass knows.
LEMMA LateGuarded ==
    ASSUME AccessInv, AccessTypeInv', AccessRelease \/ AccessStatus
    PROVE  GuardedAccess'
<1> DEFINE a == accessWorker.key
           w == accessWorker
<1>1. /\ AccessTypeInv /\ ObjectsOK /\ w \in AccessPass
      /\ access \in [Accesses -> AccessObject] /\ access' \in [Accesses -> AccessObject]
  BY AccessTypes DEF AccessInv, GuardedAccess, AccessTypeInv, AccessTypeOK, AccessPlatformType
<1>2. /\ w.pc # "idle" /\ a \in Accesses /\ access[a] \in AccessObject /\ UNCHANGED rbac
      /\ w.generation \in Nat /\ access[a].generation \in Nat
  BY <1>1, AccessTypes DEF AccessRelease, AccessStatus, AccessPass, AccessObject
<1>3. KnowsObject' /\ Removed'
  <2>1. \/ \E again, renew : AccessLeave(again, renew)
        \/ AccessReport(w, TRUE)
    BY DEF AccessRelease, AccessStatus
  <2>2. accessWorker'.pc = "idle" \/ (accessWorker'.pc = "status" /\ accessWorker'.failed)
    BY <1>1, <2>1, IdleTyped, ReportEffect DEF AccessLeave
  <2>3. QED
    BY <2>2, Quiet
<1>4. CASE AccessRelease
  <2> DEFINE obj == [access[a] EXCEPT !.own = FALSE]
  <2>1. SameObject /\ w.deleting /\ rbac[a] = {}
    BY <1>4 DEF AccessRelease, AccessInv, GuardedAccess, KnowsObject, Guarding, Removed
  <2>2. obj \in AccessObject /\ obj.own = FALSE /\ obj.deleting
    BY <1>2, <2>1 DEF AccessObject, SameObject
  <2>3. UNCHANGED access \/ StoreAccess(a, obj)
    BY <1>4 DEF AccessRelease
  <2> HIDE DEF obj
  <2>4. /\ \A b \in Accesses \ {a} : access'[b] = access[b]
        /\ access'[a] \in {access[a], NoAccess}
    BY <1>1, <1>2, <2>2, <2>3, StoreAccessEffect
  <2>5. ObjectsOK' /\ RBACGuarded'
    BY <1>1, <1>2, <2>1, <2>4 DEF NoAccess, ObjectsOK, AccessInv, GuardedAccess, RBACGuarded
  <2>6. QED
    BY <1>3, <2>5 DEF GuardedAccess
<1>5. CASE AccessStatus
  <2> DEFINE obj == [access[a] EXCEPT !.phase = IF w.failed THEN "Pending" ELSE "Granted",
                                      !.observed = w.generation]
  <2>1. /\ obj \in AccessObject /\ obj.exists = access[a].exists /\ obj.own = access[a].own
        /\ obj.deleting = access[a].deleting /\ obj.generation = access[a].generation
        /\ obj.phase = "Granted" => ~w.failed
        /\ obj.observed = w.generation
    BY <1>2 DEF AccessObject
  <2>2. UNCHANGED access \/ StoreAccess(a, obj)
    BY <1>5 DEF AccessStatus
  <2> HIDE DEF obj
  <2>3. obj.deleting => obj.own
    BY <1>1, <1>2, <2>1 DEF ObjectsOK
  <2>4. /\ \A b \in Accesses \ {a} : access'[b] = access[b]
        /\ access'[a] \in {access[a], obj}
    BY <1>1, <1>2, <2>1, <2>2, <2>3, StoreAccessEffect
  <2>5. ~w.failed => SameObject
    BY <1>5 DEF AccessStatus, AccessInv, GuardedAccess, KnowsObject, Guarding
  <2>6. obj.phase = "Granted" => obj.own /\ obj.observed <= obj.generation
    BY <1>2, <2>1, <2>5 DEF SameObject
  <2>7. ObjectsOK' /\ RBACGuarded'
    BY <1>1, <1>2, <2>1, <2>3, <2>4, <2>6 DEF ObjectsOK, AccessInv, GuardedAccess, RBACGuarded
  <2>8. QED
    BY <1>3, <2>7 DEF GuardedAccess
<1>6. QED
  BY <1>4, <1>5

\* Every step keeps what is guarded.
LEMMA GuardedInductive ==
    ASSUME AccessInv, AccessTypeInv', [AccessNext]_accessVars
    PROVE  GuardedAccess'
<1>1. AccessTypeInv /\ ObjectsOK
  BY DEF AccessInv, GuardedAccess
<1>2. ASSUME UNCHANGED <<access, rbac>>, accessWorker'.pc \in {"idle", "locking"}
      PROVE  GuardedAccess'
  BY <1>1, <1>2, AccessUnchanged, Quiet, GuardRead
<1>3. ASSUME UNCHANGED <<access, rbac, accessWorker>> PROVE GuardedAccess'
  BY <1>1, <1>3, AccessUnchanged, OthersGuarded DEF Continues
<1>4. CASE AccessUser
  BY <1>4, AccessUserGuarded
<1>5. CASE Neighbour
  <2>1. /\ UNCHANGED access
        /\ \A b \in Accesses : rbac'[b] \subseteq rbac[b]
    BY <1>5 DEF Neighbour, Surroundings, accessPlatformVars
  <2>2. /\ Continues(accessWorker) /\ accessWorker'.pc = accessWorker.pc
        /\ accessWorker'.failed = accessWorker.failed /\ accessWorker'.todo = accessWorker.todo
    BY <1>1, <1>5, AccessTypes DEF Neighbour, Surroundings, Continues, AccessPass
  <2>3. QED
    BY <1>1, <2>1, <2>2, AccessUnchanged, OthersGuarded
<1>6. CASE AccessStep
  BY <1>6, EarlyGuarded, MiddleGuarded, LateGuarded DEF AccessStep
<1>7. ASSUME NEW a \in Accesses, AccessDequeue(a) PROVE GuardedAccess'
  BY <1>2, <1>7, IdleTyped DEF AccessDequeue, accessPlatformVars, AccessPass
<1>8. ASSUME NEW a \in Accesses, Resync(a) PROVE GuardedAccess'
  BY <1>3, <1>8 DEF Resync, accessPlatformVars
<1>9. CASE Tick
  BY <1>3, <1>9 DEF Tick
<1>10. CASE AccessRestart
  BY <1>2, <1>10, IdleTyped DEF AccessRestart, accessPlatformVars
<1>11. CASE UNCHANGED accessVars
  BY <1>3, <1>11 DEF accessVars, accessPlatformVars, accessControllerVars
<1>12. QED
  BY <1>4, <1>5, <1>6, <1>7, <1>8, <1>9, <1>10, <1>11 DEF AccessNext, AccessControllerNext

\* The invariant holds in every reachable state.
LEMMA AccessInvAlways == AccessSpec => []AccessInv
<1>1. AccessInit => AccessInv
  <2> SUFFICES ASSUME AccessInit PROVE AccessInv
    OBVIOUS
  <2>1. AccessTypeInv
    BY AccessTypeInitial
  <2>2. ObjectsOK /\ RBACGuarded
    BY DEF AccessInit, AccessPlatformInit, AccessControllerInit, ObjectsOK, RBACGuarded, NoAccess
  <2>3. KnowsObject /\ Removed
    BY IdleTyped DEF AccessInit, AccessControllerInit, KnowsObject, Guarding, Removed
  <2>4. QED
    BY <2>1, <2>2, <2>3 DEF AccessInv, GuardedAccess
<1>2. AccessInv /\ [AccessNext]_accessVars => AccessInv'
  BY AccessTypeInductive, GuardedInductive DEF AccessInv
<1>3. QED
  BY <1>1, <1>2, PTL DEF AccessSpec

\* While a service account, a role or a binding of an AccessRequest is on its GKE
\* cluster, the AccessRequest exists and carries the finalizer, whatever fails,
\* changes or restarts on the way.
THEOREM AccessNeverOrphaned == AccessSpec => []AccessGuarded
<1>1. AccessInv => AccessGuarded
  BY DEF AccessInv, GuardedAccess, ObjectsOK, RBACGuarded, AccessGuarded
<1>2. QED
  BY <1>1, AccessInvAlways, PTL

-----------------------------------------------------------------------------
(***************************************************************************)
(* No kubeconfig is handed out half made.                                  *)
(***************************************************************************)
\* Points of a pass at which something is made.
Makes(pc) == pc \in {"account", "grant", "store"}

\* Steps of a pass before and after it makes something.
LEMMA MakesNothing ==
    ASSUME AccessTypeInv,
           \/ AccessGet \/ AccessUnannotate \/ AccessResolve \/ AccessFinalize \/ AccessCheck
           \/ AccessStoreToken \/ AccessStoreOIDC \/ AccessList \/ AccessPurge \/ AccessRelease
           \/ AccessStatus
    PROVE  ~Makes(accessWorker'.pc)
<1> DEFINE a == accessWorker.key
           w == accessWorker
<1>1. w \in AccessPass /\ IdleAccessWorker.pc = "idle"
  BY AccessTypes, IdleTyped
<1>2. ASSUME NEW again, NEW renew, AccessLeave(again, renew) PROVE ~Makes(accessWorker'.pc)
  BY <1>1, <1>2 DEF AccessLeave, Makes
<1>3. ASSUME NEW v \in AccessPass, NEW pc, ~Makes(pc), Go(v, pc) PROVE ~Makes(accessWorker'.pc)
  BY <1>3, GoEffect
<1>4. ASSUME NEW v \in AccessPass, NEW failed \in BOOLEAN, AccessReport(v, failed)
      PROVE  ~Makes(accessWorker'.pc)
  BY <1>4, ReportEffect DEF Makes
<1>5. ASSUME NEW v \in AccessPass, Proceed(v) PROVE ~Makes(accessWorker'.pc)
  BY <1>5, ProceedEffect DEF Makes
<1>6. ASSUME NEW v \in AccessPass, AfterCleanup(v) PROVE ~Makes(accessWorker'.pc)
  BY <1>6, CleanupEffect DEF Makes
<1>7. \A pc \in {"unannotate", "resolve", "finalize", "connect", "list", "purge"} : ~Makes(pc)
  BY DEF Makes
<1>8. CASE AccessGet
  <2>1. access[a] \in AccessObject /\ TRUE \in BOOLEAN
    BY <1>8, AccessTypes DEF AccessGet
  <2>2. AccessSnapshot(w, access[a], TRUE) \in AccessPass
    BY <1>1, <2>1, SnapshotTyped
  <2>3. \/ \E again : AccessLeave(again, Never)
        \/ \E pc \in {"unannotate", "resolve"} : Go(AccessSnapshot(w, access[a], TRUE), pc)
    BY <1>8 DEF AccessGet
  <2>4. QED
    BY <1>2, <1>3, <1>7, <2>2, <2>3
<1>9. CASE AccessUnannotate
  <2> DEFINE obj == [access[a] EXCEPT !.op = "none"]
  <2>1. obj \in AccessObject /\ FALSE \in BOOLEAN
    BY <1>9, AccessTypes DEF AccessUnannotate, AccessObject, Operations
  <2>2. AccessLeave(TRUE, Never) \/ Go(AccessSnapshot(w, obj, FALSE), "resolve")
    BY <1>9 DEF AccessUnannotate
  <2> HIDE DEF obj
  <2>3. AccessSnapshot(w, obj, FALSE) \in AccessPass
    BY <1>1, <2>1, SnapshotTyped
  <2>4. QED
    BY <1>2, <1>3, <1>7, <2>2, <2>3
<1>10. CASE AccessResolve
  BY <1>1, <1>3, <1>4, <1>5, <1>7, <1>10 DEF AccessResolve, Dispatch
<1>11. CASE AccessFinalize
  <2> DEFINE obj == [access[a] EXCEPT !.own = TRUE]
             snapshot == AccessSnapshot(w, obj, w.granted)
             v == [snapshot EXCEPT !.patched = obj]
  <2>1. obj \in AccessObject /\ w.granted \in BOOLEAN
    BY <1>1, <1>11, AccessTypes DEF AccessFinalize, AccessObject, AccessPass
  <2>2. AccessReport(w, TRUE) \/ Proceed(v)
    BY <1>11 DEF AccessFinalize
  <2> HIDE DEF obj
  <2>3. snapshot \in AccessPass
    BY <1>1, <2>1, SnapshotTyped
  <2> HIDE DEF snapshot
  <2>4. v \in AccessPass
    BY <2>1, <2>3 DEF AccessPass
  <2> HIDE DEF v
  <2>5. QED
    BY <1>1, <1>4, <1>5, <2>2, <2>4
<1>12. CASE AccessCheck
  <2> DEFINE v == [w EXCEPT !.renew = UntilRenewal(secret[a].age)]
  <2>1. UntilRenewal(secret[a].age) \in 0..Never
    BY <1>12, AccessTypes, TimesTyped DEF AccessCheck, SecretObject
  <2>2. v \in AccessPass
    BY <1>1, <2>1 DEF AccessPass
  <2>3. AccessReport(v, FALSE) \/ Go(w, "connect") \/ AccessReport(w, FALSE)
    BY <1>12 DEF AccessCheck
  <2> HIDE DEF v
  <2>4. QED
    BY <1>1, <1>3, <1>4, <1>7, <2>2, <2>3
<1>13. CASE AccessStoreToken \/ AccessStoreOIDC
  <2>1. UntilRenewal(0) \in 0..Never /\ Never \in 0..Never
    BY TimesTyped DEF UntilRenewal
  <2>2. ASSUME NEW kind, NEW renew \in 0..Never, StoreKubeconfig(kind, renew)
        PROVE  ~Makes(accessWorker'.pc)
    <3> DEFINE v == [w EXCEPT !.renew = renew]
    <3>1. v \in AccessPass
      BY <1>1 DEF AccessPass
    <3>2. Go(v, "list") \/ AccessReport(w, TRUE)
      BY <2>2 DEF StoreKubeconfig
    <3> HIDE DEF v
    <3>3. QED
      BY <1>1, <1>3, <1>4, <1>7, <3>1, <3>2
  <2>3. \/ StoreKubeconfig("token", UntilRenewal(0)) \/ StoreKubeconfig("oidc", Never)
        \/ AccessReport(w, TRUE)
    BY <1>13 DEF AccessStoreToken, AccessStoreOIDC
  <2>4. QED
    BY <1>1, <1>4, <2>1, <2>2, <2>3
<1>14. CASE AccessList
  <2>1. \E v \in AccessPass : AfterCleanup(v) \/ Go(v, "purge")
    BY <1>14, ListEffect
  <2>2. QED
    BY <1>3, <1>6, <1>7, <2>1
<1>15. CASE AccessPurge
  <2>1. \E v \in AccessPass : AfterCleanup(v) \/ Go(v, "purge")
    BY <1>15, PurgeTurn
  <2>2. QED
    BY <1>3, <1>6, <1>7, <2>1
<1>16. CASE AccessRelease \/ AccessStatus
  BY <1>1, <1>2, <1>4, <1>16 DEF AccessRelease, AccessStatus
<1>17. QED
  BY <1>8, <1>9, <1>10, <1>11, <1>12, <1>13, <1>14, <1>15, <1>16

\* Steps of a pass that make something.
LEMMA MakesWanted ==
    ASSUME AccessTypeInv, Made, AccessConnect \/ AccessAccount \/ AccessGrant
    PROVE  Made'
<1> DEFINE a == accessWorker.key
           w == accessWorker
<1>1. /\ w \in AccessPass /\ a \in Accesses /\ rbac \in [Accesses -> SUBSET RBACObject]
      /\ w.spec \in Specs /\ Units(w.spec) \in SUBSET SUBSET RBACObject
  BY AccessTypes, WantedTyped DEF AccessConnect, AccessAccount, AccessGrant, AccessPass
<1>2. ASSUME ~Makes(accessWorker'.pc) PROVE Made'
  BY <1>2 DEF Makes, Made
<1>3. ASSUME NEW v \in AccessPass, AccessReport(v, TRUE) PROVE Made'
  BY <1>2, <1>3, ReportEffect DEF Makes
<1>4. CASE AccessConnect
  <2> DEFINE v == [w EXCEPT !.connected = TRUE]
             u == [v EXCEPT !.todo = Units(v.spec)]
  <2>1. v \in AccessPass /\ v.key = a /\ v.spec = w.spec
    BY <1>1 DEF AccessPass
  <2>2. u \in AccessPass /\ u.key = a /\ u.spec = w.spec /\ u.todo = Units(w.spec)
    <3> HIDE DEF v
    <3>1. QED
      BY <1>1, <2>1 DEF AccessPass
  <2>3. \/ AccessReport(w, TRUE) \/ Go(v, "list") \/ Go(v, "account")
        \/ /\ v.spec.kind # "token"
           /\ Go(u, IF Units(v.spec) = {} THEN "store" ELSE "grant")
    BY <1>4 DEF AccessConnect
  <2> HIDE DEF u, v
  <2>4. CASE AccessReport(w, TRUE)
    BY <1>1, <1>3, <2>4
  <2>5. CASE Go(v, "list") \/ Go(v, "account")
    BY <2>1, <2>5, GoEffect DEF Made
  <2>6. CASE w.spec.kind # "token" /\ Go(u, IF Units(w.spec) = {} THEN "store" ELSE "grant")
    <3>1. Wanted(w.spec) = UNION Units(w.spec)
      BY <2>6 DEF Wanted, Accounts
    <3>2. /\ Continues(u) /\ accessWorker'.todo = Units(w.spec)
          /\ accessWorker'.pc = IF Units(w.spec) = {} THEN "store" ELSE "grant"
      BY <2>2, <2>6, GoEffect
    <3>3. QED
      BY <2>2, <3>1, <3>2 DEF Made, Continues
  <2>7. QED
    BY <2>1, <2>3, <2>4, <2>5, <2>6
<1>5. CASE AccessAccount
  <2> DEFINE v == [w EXCEPT !.todo = Units(w.spec)]
  <2>1. v \in AccessPass /\ v.key = a /\ v.spec = w.spec /\ v.todo = Units(w.spec)
    BY <1>1 DEF AccessPass
  <2>2. PICK done \in SUBSET {Account}, failed \in BOOLEAN :
           /\ Effect({Account}, done, failed)
           /\ rbac' = [rbac EXCEPT ![a] = @ \cup done]
           /\ IF failed THEN AccessReport(w, TRUE)
              ELSE Go(v, IF Units(w.spec) = {} THEN "store" ELSE "grant")
    BY <1>5 DEF AccessAccount
  <2> HIDE DEF v
  <2>3. CASE failed
    BY <1>1, <1>3, <2>2, <2>3
  <2>4. CASE ~failed
    <3>1. Account \in rbac'[a]
      BY <1>1, <2>2, <2>4 DEF Effect
    <3>2. Wanted(w.spec) \subseteq {Account} \cup UNION Units(w.spec)
      BY DEF Wanted, Accounts
    <3>3. /\ Continues(v) /\ accessWorker'.todo = Units(w.spec)
          /\ accessWorker'.pc = IF Units(w.spec) = {} THEN "store" ELSE "grant"
      BY <2>1, <2>2, <2>4, GoEffect
    <3>4. QED
      BY <2>1, <3>1, <3>2, <3>3 DEF Made, Continues
  <2>5. QED
    BY <2>3, <2>4
<1>6. CASE AccessGrant
  <2>1. PICK unit \in w.todo : \E done \in SUBSET unit, failed \in BOOLEAN :
           /\ Effect(unit, done, failed)
           /\ rbac' = [rbac EXCEPT ![a] = @ \cup done]
           /\ IF w.todo \ {unit} # {} THEN Go(Turned(unit, failed), "grant")
              ELSE IF Turned(unit, failed).failed THEN AccessReport(Turned(unit, failed), TRUE)
              ELSE Go(Turned(unit, failed), "store")
    BY <1>6, GrantEffect
  <2>2. PICK done \in SUBSET unit, failed \in BOOLEAN :
           /\ Effect(unit, done, failed)
           /\ rbac' = [rbac EXCEPT ![a] = @ \cup done]
           /\ IF w.todo \ {unit} # {} THEN Go(Turned(unit, failed), "grant")
              ELSE IF Turned(unit, failed).failed THEN AccessReport(Turned(unit, failed), TRUE)
              ELSE Go(Turned(unit, failed), "store")
    BY <2>1
  <2> DEFINE v == Turned(unit, failed)
  <2>3. /\ v \in AccessPass /\ v.key = a /\ v.spec = w.spec /\ v.connected = w.connected
        /\ v.todo = w.todo \ {unit} /\ v.failed = (w.failed \/ failed)
    BY <1>1, TurnTyped
  <2>4. IF v.todo # {} THEN Go(v, "grant")
        ELSE IF v.failed THEN AccessReport(v, TRUE) ELSE Go(v, "store")
    BY <2>2, <2>3
  <2>5. ~v.failed /\ w.connected => Wanted(w.spec) \subseteq rbac'[a] \cup UNION v.todo
    <3>1. ~v.failed => done = unit
      BY <2>2, <2>3 DEF Effect
    <3>2. ~v.failed /\ w.connected => Wanted(w.spec) \subseteq rbac[a] \cup UNION w.todo
      BY <1>6, <2>3 DEF AccessGrant, Made
    <3>3. rbac'[a] = rbac[a] \cup done
      BY <1>1, <2>2
    <3>4. QED
      BY <2>3, <3>1, <3>2, <3>3
  <2> HIDE DEF v
  <2>6. CASE AccessReport(v, TRUE)
    BY <1>3, <2>3, <2>6
  <2>7. CASE Go(v, "grant") \/ (Go(v, "store") /\ v.todo = {} /\ ~v.failed)
    <3>1. /\ Continues(v) /\ accessWorker'.todo = v.todo /\ accessWorker'.connected = v.connected
          /\ accessWorker'.failed = v.failed
          /\ \/ accessWorker'.pc = "grant"
             \/ accessWorker'.pc = "store" /\ v.todo = {} /\ ~v.failed
      BY <2>3, <2>7, GoEffect
    <3>2. QED
      BY <2>3, <2>5, <3>1 DEF Made, Continues
  <2>8. QED
    BY <2>4, <2>6, <2>7
<1>7. QED
  BY <1>4, <1>5, <1>6

\* Every step keeps what a pass has made.
LEMMA MadeInductive ==
    ASSUME AccessTypeInv, Made, [AccessNext]_accessVars
    PROVE  Made'
<1>1. ASSUME ~Makes(accessWorker'.pc) PROVE Made'
  BY <1>1 DEF Makes, Made
<1>2. ASSUME UNCHANGED <<rbac, accessWorker>> PROVE Made'
  BY <1>2 DEF Made
<1>3. CASE AccessStep
  BY <1>1, <1>3, MakesNothing, MakesWanted DEF AccessStep
<1>4. CASE Neighbour
  <2>1. accessWorker \in AccessPass /\ (accessWorker.pc # "idle" => accessWorker.key \in Accesses)
    BY AccessTypes
  <2>2. /\ accessWorker'.pc = accessWorker.pc /\ accessWorker'.key = accessWorker.key
        /\ accessWorker'.failed = accessWorker.failed /\ accessWorker'.todo = accessWorker.todo
        /\ accessWorker'.spec = accessWorker.spec
        /\ accessWorker'.connected => accessWorker.connected
                                      /\ api'[ClusterOf[accessWorker.key]] # "absent"
    BY <1>4, <2>1 DEF Neighbour, Surroundings, AccessPass
  <2>3. Makes(accessWorker.pc) /\ accessWorker'.connected => rbac'[accessWorker.key] = rbac[accessWorker.key]
    BY <1>4, <2>1, <2>2 DEF Neighbour, Surroundings, Makes
  <2>4. QED
    BY <2>2, <2>3 DEF Made, Makes
<1>5. ASSUME NEW a \in Accesses, AccessDequeue(a) PROVE Made'
  BY <1>1, <1>5, IdleTyped DEF AccessDequeue, AccessPass, Makes
<1>6. CASE AccessRestart
  BY <1>1, <1>6, IdleTyped DEF AccessRestart, Makes
<1>7. QED
  BY <1>2, <1>3, <1>4, <1>5, <1>6 DEF AccessNext, AccessControllerNext, AccessUser, Resync, Tick,
     accessVars, accessControllerVars

\* A kubeconfig for a gets into its Secret.
HandsOut(a) ==
    /\ secret'[a].kind # "absent"
    /\ secret[a].kind # secret'[a].kind \/ secret'[a].age < secret[a].age

\* Only storing a kubeconfig does that.
LEMMA OnlyStoresHandOut ==
    ASSUME AccessTypeInv, [AccessNext]_accessVars, NEW a \in Accesses, HandsOut(a)
    PROVE  (AccessStoreToken \/ AccessStoreOIDC) /\ accessWorker.key = a
<1>1. /\ secret \in [Accesses -> SecretObject] /\ RenewAge \in Nat
      /\ secret[a].age \in 0..RenewAge /\ \A b \in Accesses : secret[b] \in SecretObject
  BY AccessTypes, TimesTyped DEF SecretObject
<1>2. ~UNCHANGED secret /\ secret'[a] # secret[a]
  BY <1>1 DEF HandsOut
<1>3. ASSUME NEW b \in Accesses, StoreSecret(b, secret[b]) PROVE FALSE
  BY <1>1, <1>2, <1>3, StoreSecretEffect DEF HandsOut, NewSecret
<1>4. CASE AccessUser
  <2>1. \E b \in Accesses : StoreSecret(b, secret[b]) \/ DeleteSecret(b)
    BY <1>4
       DEF AccessUser, AccessUserNext, CreateAccess, ChangeSpec, AnnotateAccess, DeleteAccess, Submit
  <2>2. ASSUME NEW b \in Accesses, DeleteSecret(b) PROVE FALSE
    BY <1>1, <1>2, <2>2 DEF DeleteSecret, HandsOut, NewSecret
  <2>3. QED
    BY <1>3, <2>1, <2>2
<1>5. CASE Tick
  <2>1. secret'[a].kind = secret[a].kind /\ secret'[a].age \in {secret[a].age, secret[a].age + 1}
    BY <1>1, <1>5 DEF Tick, SecretObject
  <2>2. QED
    BY <1>1, <2>1 DEF HandsOut
<1>6. CASE AccessCheck
  <2>1. secret'[a].kind = secret[a].kind /\ secret'[a].age \in {secret[a].age, RenewAge}
    BY <1>1, <1>6 DEF AccessCheck, SecretObject
  <2>2. QED
    BY <1>1, <2>1 DEF HandsOut
<1>7. CASE AccessRelease
  BY <1>3, <1>7, AccessTypes DEF AccessRelease
<1>8. CASE AccessStoreToken \/ AccessStoreOIDC
  <2>1. accessWorker.key \in Accesses
    BY <1>8, AccessTypes DEF AccessStoreToken, AccessStoreOIDC
  <2>2. \E kind \in {"token", "oidc"} : StoreSecret(accessWorker.key, NewSecret(kind))
    BY <1>2, <1>8 DEF AccessStoreToken, AccessStoreOIDC, StoreKubeconfig
  <2>3. \A b \in Accesses \ {accessWorker.key} : secret'[b] = secret[b]
    BY <1>1, <2>1, <2>2, NewSecretTyped, StoreSecretEffect
  <2>4. QED
    BY <1>2, <1>8, <2>3
<1>9. QED
  BY <1>2, <1>4, <1>5, <1>6, <1>7, <1>8
     DEF AccessNext, AccessControllerNext, AccessStep, AccessGet, AccessUnannotate, AccessResolve,
         AccessFinalize, AccessConnect, AccessAccount, AccessGrant, AccessList, AccessPurge,
         AccessStatus, AccessDequeue, Resync, AccessRestart, Neighbour, Surroundings,
         accessPlatformVars, accessVars

\* A kubeconfig is handed out only when all it stands for is on the GKE cluster, if
\* that is still there, for any number of roles and any failures of the calls.
THEOREM HandedOut == AccessSpec => HandedOutComplete
<1> DEFINE Complete == \A a \in Accesses :
               HandsOut(a) => \/ Wanted(accessWorker.spec) \subseteq rbac[a]
                              \/ ~accessWorker.connected
<1>1. AccessInit => Made
  BY IdleTyped DEF AccessInit, AccessControllerInit, Made
<1>2. AccessTypeInv /\ Made /\ [AccessNext]_accessVars => Made'
  BY MadeInductive
<1>3. AccessTypeInv /\ Made /\ [AccessNext]_accessVars => [Complete]_accessVars
  BY OnlyStoresHandOut DEF Made, AccessStoreToken, AccessStoreOIDC
<1>4. AccessSpec => [][Complete]_accessVars
  BY <1>1, <1>2, <1>3, AccessTypeInvAlways, PTL DEF AccessSpec
<1>5. [Complete]_accessVars =>
         [\A a \in Accesses :
             secret'[a].kind # "absent" /\ (secret[a].kind # secret'[a].kind \/ secret'[a].age < secret[a].age)
                 => \/ Wanted(accessWorker.spec) \subseteq rbac[a]
                    \/ ~accessWorker.connected]_accessVars
  BY DEF HandsOut
<1>6. QED
  BY <1>4, <1>5, PTL DEF HandedOutComplete

-----------------------------------------------------------------------------
(***************************************************************************)
(* Nothing stale remains.                                                  *)
(***************************************************************************)
\* What persists is settled only if it was.
LEMMA PersistsSettled ==
    ASSUME AccessInv, AccessTypeInv', NEW a \in Accesses, Persists(a), Settles(a)'
    PROVE  Settles(a) /\ access'[a].spec = access[a].spec
<1>1. /\ access[a].generation \in Nat /\ access'[a].generation \in Nat /\ access[a].observed \in Nat
      /\ access[a].deleting \in BOOLEAN
  BY DEF AccessInv, AccessTypeInv, AccessTypeOK, AccessPlatformType, AccessObject
<1>2. access'[a].phase = "Granted" /\ access'[a].observed = access'[a].generation /\ ~access'[a].deleting
  BY DEF Settles, Granted
<1>3. access[a].phase = "Granted" /\ access'[a].observed = access[a].observed
  BY <1>2 DEF Persists
<1>4. access[a].own /\ access[a].exists /\ access[a].observed <= access[a].generation
  BY <1>3 DEF AccessInv, GuardedAccess, ObjectsOK
<1>5. access[a].generation = access'[a].generation
  BY <1>1, <1>2, <1>3, <1>4 DEF Persists
<1>6. QED
  BY <1>1, <1>2, <1>3, <1>4, <1>5 DEF Persists, Settles, Granted

\* Only a status update settles an AccessRequest.
LEMMA OnlyStatusSettles ==
    ASSUME AccessInv, AccessTypeInv', [AccessNext]_accessVars, NEW a \in Accesses, Settles(a)'
    PROVE  \/ Settles(a) /\ access'[a].spec = access[a].spec
           \/ AccessStatus /\ a = accessWorker.key
<1>1. AccessTypeInv /\ access \in [Accesses -> AccessObject]
  BY AccessTypes DEF AccessInv
<1>2. ASSUME access'[a] = access[a] PROVE Settles(a) /\ access'[a].spec = access[a].spec
  BY <1>2 DEF Settles, Granted
<1>3. CASE AccessUser \/ AccessGet \/ AccessUnannotate \/ AccessResolve \/ AccessFinalize
  BY <1>3, AccessUserGuarded, EarlyGuarded, PersistsSettled
<1>4. CASE AccessRelease
  <2> DEFINE b == accessWorker.key
             obj == [access[b] EXCEPT !.own = FALSE]
  <2>1. b \in Accesses /\ obj \in AccessObject /\ access[b].deleting /\ obj.deleting /\ obj.own = FALSE
    BY <1>1, <1>4, AccessTypes
       DEF AccessRelease, AccessInv, GuardedAccess, KnowsObject, Guarding, SameObject, Removed,
           AccessObject
  <2>2. UNCHANGED access \/ StoreAccess(b, obj)
    BY <1>4 DEF AccessRelease
  <2> HIDE DEF obj
  <2>3. access'[a] = access[a] \/ (access'[a] = NoAccess /\ a = b)
    BY <1>1, <2>1, <2>2, StoreAccessEffect
  <2>4. NoAccess.exists = FALSE
    BY DEF NoAccess
  <2>5. QED
    BY <1>2, <2>3, <2>4 DEF Settles
<1>5. CASE AccessStatus
  <2> DEFINE b == accessWorker.key
             obj == [access[b] EXCEPT !.phase = IF accessWorker.failed THEN "Pending" ELSE "Granted",
                                      !.observed = accessWorker.generation]
  <2>1. b \in Accesses /\ obj \in AccessObject
    BY <1>1, <1>5, AccessTypes DEF AccessStatus, AccessObject, AccessPass
  <2>2. UNCHANGED access \/ StoreAccess(b, obj)
    BY <1>5 DEF AccessStatus
  <2> HIDE DEF obj
  <2>3. access'[a] = access[a] \/ a = b
    BY <1>1, <2>1, <2>2, StoreAccessEffect
  <2>4. QED
    BY <1>2, <1>5, <2>3
<1>6. QED
  BY <1>2, <1>3, <1>4, <1>5
     DEF AccessNext, AccessControllerNext, AccessStep, AccessCheck, AccessConnect, AccessAccount,
         AccessGrant, AccessStoreToken, AccessStoreOIDC, AccessList, AccessPurge, AccessDequeue,
         Resync, Tick, AccessRestart, Neighbour, Surroundings, accessPlatformVars, accessVars

\* What a status update settles is what the pass has read.
LEMMA StatusSettles ==
    ASSUME AccessInv, AccessTypeInv', AccessStatus, NEW a \in Accesses, a = accessWorker.key,
           Settles(a)'
    PROVE  /\ access'[a].spec = access[a].spec
           /\ \/ Settles(a)
              \/ /\ ~accessWorker.failed /\ ~accessWorker.deleting
                 /\ accessWorker.spec = access[a].spec
                 /\ accessWorker.generation = access[a].generation
                 /\ access[a].exists /\ ~access[a].deleting
<1> DEFINE w == accessWorker
           obj == [access[a] EXCEPT !.phase = IF w.failed THEN "Pending" ELSE "Granted",
                                    !.observed = w.generation]
<1>1. /\ access \in [Accesses -> AccessObject] /\ a \in Accesses /\ access[a] \in AccessObject
      /\ w \in AccessPass
  BY AccessTypes DEF AccessInv, AccessStatus
<1>2. /\ obj \in AccessObject /\ obj.own = access[a].own /\ obj.deleting = access[a].deleting
      /\ obj.spec = access[a].spec /\ obj.generation = access[a].generation
      /\ obj.observed = w.generation
      /\ obj.phase = "Granted" => ~w.failed
  BY <1>1 DEF AccessObject, AccessPass
<1>3. UNCHANGED access \/ StoreAccess(a, obj)
  BY DEF AccessStatus
<1>4. UNCHANGED access => Settles(a) /\ access'[a].spec = access[a].spec
  BY DEF Settles, Granted
<1> HIDE DEF obj
<1>5. obj.deleting => obj.own
  BY <1>1, <1>2 DEF AccessInv, GuardedAccess, ObjectsOK
<1>6. ASSUME StoreAccess(a, obj)
      PROVE  /\ obj.spec = access'[a].spec /\ ~w.failed /\ ~w.deleting /\ w.spec = access[a].spec
             /\ w.generation = access[a].generation /\ access[a].exists /\ ~access[a].deleting
  <2>1. access'[a] = obj
    BY <1>1, <1>2, <1>5, <1>6, StoreAccessEffect
  <2>2. obj.observed = obj.generation /\ ~w.failed /\ ~obj.deleting
    BY <1>2, <2>1 DEF Settles, Granted
  <2>3. SameObject
    BY <2>2 DEF AccessStatus, AccessInv, GuardedAccess, KnowsObject, Guarding
  <2>4. access[a].exists
    BY <1>1, <2>3 DEF SameObject, AccessInv, GuardedAccess, ObjectsOK
  <2>5. QED
    BY <1>2, <2>1, <2>2, <2>3, <2>4 DEF SameObject
<1>7. QED
  BY <1>2, <1>3, <1>4, <1>6

\* What is settled while a pass knows the AccessRequest is what the pass has read.
LEMMA SettledIsRead ==
    ASSUME AccessInv, Guarding, accessWorker.pc # "idle", Settles(accessWorker.key)
    PROVE  access[accessWorker.key].spec = accessWorker.spec
<1>1. accessWorker.generation \in Nat /\ access[accessWorker.key].generation \in Nat
  BY AccessTypes DEF AccessInv, AccessPass, AccessObject
<1>2. SameObject
  BY DEF AccessInv, GuardedAccess, KnowsObject
<1>3. QED
  BY <1>1, <1>2 DEF SameObject, Settles, Granted

\* What the loops make is what the specification asks for ...
LEMMA OnlyWantedMade ==
    ASSUME AccessTypeInv, MakesWantedOnly, [AccessNext]_accessVars
    PROVE  MakesWantedOnly'
<1> DEFINE w == accessWorker
<1>1. /\ w \in AccessPass /\ w.spec \in Specs /\ Units(w.spec) \in SUBSET SUBSET RBACObject
      /\ UNION Units(w.spec) \subseteq Wanted(w.spec)
  BY AccessTypes, WantedTyped DEF AccessPass, Wanted
<1>2. ASSUME ~Makes(accessWorker'.pc) PROVE MakesWantedOnly'
  BY <1>2 DEF Makes, MakesWantedOnly
<1>3. ASSUME accessWorker'.pc = w.pc, accessWorker'.spec = w.spec, accessWorker'.todo = w.todo
      PROVE  MakesWantedOnly'
  BY <1>3 DEF MakesWantedOnly
<1>4. ASSUME NEW v \in AccessPass, v.spec = w.spec,
             \/ v.spec.kind = "token" /\ Go(v, "account")
             \/ UNION v.todo \subseteq Wanted(v.spec) /\ Go(v, "grant")
             \/ Go(v, "list") \/ Go(v, "store") \/ AccessReport(v, TRUE)
      PROVE  MakesWantedOnly'
  <2>1. CASE AccessReport(v, TRUE)
    BY <1>2, <2>1, ReportEffect DEF Makes
  <2>2. CASE Go(v, "list") \/ Go(v, "store")
    BY <2>2, GoEffect DEF MakesWantedOnly
  <2>3. CASE v.spec.kind = "token" /\ Go(v, "account")
    BY <2>3, GoEffect DEF MakesWantedOnly, Continues
  <2>4. CASE UNION v.todo \subseteq Wanted(v.spec) /\ Go(v, "grant")
    BY <2>4, GoEffect DEF MakesWantedOnly, Continues
  <2>5. QED
    BY <1>4, <2>1, <2>2, <2>3, <2>4
<1>5. CASE AccessConnect
  <2> DEFINE v == [w EXCEPT !.connected = TRUE]
             u == [v EXCEPT !.todo = Units(v.spec)]
  <2>1. v \in AccessPass /\ v.spec = w.spec
    BY <1>1 DEF AccessPass
  <2>2. u \in AccessPass /\ u.spec = w.spec /\ u.todo = Units(w.spec)
    <3> HIDE DEF v
    <3>1. QED
      BY <1>1, <2>1 DEF AccessPass
  <2>3. \/ AccessReport(w, TRUE) \/ Go(v, "list") \/ (v.spec.kind = "token" /\ Go(v, "account"))
        \/ Go(u, "store") \/ Go(u, "grant")
    BY <1>5 DEF AccessConnect
  <2> HIDE DEF u, v
  <2>4. QED
    BY <1>1, <1>4, <2>1, <2>2, <2>3
<1>6. CASE AccessAccount
  <2> DEFINE v == [w EXCEPT !.todo = Units(w.spec)]
  <2>1. v \in AccessPass /\ v.spec = w.spec /\ v.todo = Units(w.spec)
    BY <1>1 DEF AccessPass
  <2>2. AccessReport(w, TRUE) \/ Go(v, "store") \/ Go(v, "grant")
    BY <1>6 DEF AccessAccount
  <2> HIDE DEF v
  <2>3. QED
    BY <1>1, <1>4, <2>1, <2>2
<1>7. CASE AccessGrant
  <2>1. PICK unit \in w.todo : \E done \in SUBSET unit, failed \in BOOLEAN :
           \/ Go(Turned(unit, failed), "grant") \/ Go(Turned(unit, failed), "store")
           \/ AccessReport(Turned(unit, failed), TRUE)
    BY <1>7, GrantEffect
  <2>2. PICK failed \in BOOLEAN :
           \/ Go(Turned(unit, failed), "grant") \/ Go(Turned(unit, failed), "store")
           \/ AccessReport(Turned(unit, failed), TRUE)
    BY <2>1
  <2> DEFINE v == Turned(unit, failed)
  <2>3. v \in AccessPass /\ v.spec = w.spec /\ v.todo = w.todo \ {unit}
    BY <1>1, TurnTyped
  <2>4. UNION v.todo \subseteq Wanted(w.spec)
    BY <1>7, <2>3 DEF AccessGrant, MakesWantedOnly
  <2>5. Go(v, "grant") \/ Go(v, "store") \/ AccessReport(v, TRUE)
    BY <2>2
  <2> HIDE DEF v
  <2>6. QED
    BY <1>4, <2>3, <2>4, <2>5
<1>8. CASE AccessStep
  BY <1>2, <1>5, <1>6, <1>7, <1>8, MakesNothing DEF AccessStep
<1>9. CASE Neighbour
  BY <1>1, <1>3, <1>9 DEF Neighbour, Surroundings, AccessPass
<1>10. ASSUME NEW a \in Accesses, AccessDequeue(a) PROVE MakesWantedOnly'
  BY <1>2, <1>10, IdleTyped DEF AccessDequeue, AccessPass, Makes
<1>11. CASE AccessRestart
  BY <1>2, <1>11, IdleTyped DEF AccessRestart, Makes
<1>12. QED
  BY <1>3, <1>8, <1>9, <1>10, <1>11 DEF AccessNext, AccessControllerNext, AccessUser, Resync, Tick,
     accessVars, accessControllerVars

\* ... and nothing else comes to a GKE cluster.
LEMMA GrowsByWanted ==
    ASSUME AccessTypeInv, MakesWantedOnly, [AccessNext]_accessVars, NEW a \in Accesses
    PROVE  \/ rbac'[a] \subseteq rbac[a]
           \/ /\ AccessAccount \/ AccessGrant
              /\ a = accessWorker.key
              /\ rbac'[a] \subseteq rbac[a] \cup Wanted(accessWorker.spec)
<1> DEFINE w == accessWorker
<1>1. rbac \in [Accesses -> SUBSET RBACObject]
  BY AccessTypes
<1>2. CASE AccessAccount
  <2>1. \E done \in SUBSET {Account} : rbac' = [rbac EXCEPT ![w.key] = @ \cup done]
    BY <1>2 DEF AccessAccount
  <2>2. Account \in Wanted(w.spec)
    BY <1>2 DEF AccessAccount, MakesWantedOnly, Wanted, Accounts
  <2>3. QED
    BY <1>1, <1>2, <2>1, <2>2
<1>3. CASE AccessGrant
  <2>1. \E unit \in w.todo : \E done \in SUBSET unit : rbac' = [rbac EXCEPT ![w.key] = @ \cup done]
    BY <1>3, GrantEffect
  <2>2. UNION w.todo \subseteq Wanted(w.spec)
    BY <1>3 DEF AccessGrant, MakesWantedOnly
  <2>3. QED
    BY <1>1, <1>3, <2>1, <2>2
<1>4. CASE AccessPurge
  <2>1. \E done : rbac' = [rbac EXCEPT ![w.key] = @ \ done]
    BY <1>4 DEF AccessPurge
  <2>2. QED
    BY <1>1, <2>1
<1>5. CASE Neighbour
  BY <1>5 DEF Neighbour, Surroundings
<1>6. QED
  BY <1>2, <1>3, <1>4, <1>5
     DEF AccessNext, AccessControllerNext, AccessStep, AccessGet, AccessUnannotate, AccessResolve,
         AccessFinalize, AccessCheck, AccessConnect, AccessStoreToken, AccessStoreOIDC, AccessList,
         AccessRelease, AccessStatus, AccessDequeue, Resync, Tick, AccessRestart, AccessUser, accessVars,
         accessControllerVars

\* What the cleanup keeps is asked for.
LEMMA KeptIsWanted ==
    ASSUME NamesTellKinds, RBACKnown, NEW a \in Accesses, NEW spec \in Specs
    PROVE  rbac[a] \subseteq Wanted(spec) \cup {x \in rbac[a] : ~ShouldKeep(x, Wanted(spec))}
  BY DEF NamesTellKinds, RBACKnown

\* A pass that is not about to succeed, or does not take a grant for given.
LEMMA LeavesNothing ==
    ASSUME \/ accessWorker'.pc \notin {"check", "resolve", "status", "purge"}
           \/ accessWorker'.pc = "status" /\ accessWorker'.failed
           \/ accessWorker'.pc = "resolve" /\ ~accessWorker'.granted
    PROVE  LeavesWanted'
  BY DEF LeavesWanted

\* A pass that has read a granted AccessRequest.
LEMMA LeavesEarly ==
    ASSUME AccessInv, AccessTypeInv', StaleInv,
           AccessGet \/ AccessUnannotate \/ AccessResolve \/ AccessFinalize
    PROVE  LeavesWanted'
<1> DEFINE a == accessWorker.key
           w == accessWorker
<1>1. /\ w \in AccessPass /\ a \in Accesses /\ access[a] \in AccessObject /\ UNCHANGED rbac
      /\ IdleAccessWorker.pc = "idle" /\ w.granted \in BOOLEAN
  BY AccessTypes, IdleTyped DEF AccessInv, AccessGet, AccessUnannotate, AccessResolve, AccessFinalize,
     AccessPass
<1>2. ASSUME NEW again, NEW renew, AccessLeave(again, renew) PROVE LeavesWanted'
  BY <1>1, <1>2, LeavesNothing DEF AccessLeave
<1>3. CASE AccessGet
  <2> DEFINE v == AccessSnapshot(w, access[a], TRUE)
  <2>1. TRUE \in BOOLEAN
    OBVIOUS
  <2>2. /\ v \in AccessPass /\ v.key = a /\ v.spec = access[a].spec
        /\ v.deleting = access[a].deleting /\ v.granted = (TRUE /\ Granted(access[a]))
    BY <1>1, <2>1, SnapshotTyped
  <2>3. \/ \E again : AccessLeave(again, Never)
        \/ access[a].exists /\ \E pc \in {"unannotate", "resolve"} : Go(v, pc)
    BY <1>3 DEF AccessGet
  <2> HIDE DEF v
  <2>4. ASSUME NEW pc \in {"unannotate", "resolve"}, Go(v, pc), access[a].exists PROVE LeavesWanted'
    <3>1. Continues(v) /\ accessWorker'.pc = pc /\ accessWorker'.granted = v.granted
      BY <2>2, <2>4, GoEffect
    <3>2. v.granted /\ ~v.deleting => rbac[a] \subseteq Wanted(v.spec)
      BY <1>1, <2>2, <2>4 DEF StaleInv, NothingStale, Settles
    <3>3. QED
      BY <1>1, <2>2, <3>1, <3>2 DEF LeavesWanted, Continues
  <2>5. QED
    BY <1>2, <2>3, <2>4
<1>4. CASE AccessUnannotate
  <2> DEFINE obj == [access[a] EXCEPT !.op = "none"]
             v == AccessSnapshot(w, obj, FALSE)
  <2>1. obj \in AccessObject /\ FALSE \in BOOLEAN
    BY <1>1 DEF AccessObject, Operations
  <2>2. AccessLeave(TRUE, Never) \/ Go(v, "resolve")
    BY <1>4 DEF AccessUnannotate
  <2> HIDE DEF obj
  <2>3. v \in AccessPass /\ v.granted = (FALSE /\ Granted(obj))
    BY <1>1, <2>1, SnapshotTyped
  <2> HIDE DEF v
  <2>4. ASSUME Go(v, "resolve") PROVE LeavesWanted'
    BY <2>3, <2>4, GoEffect, LeavesNothing
  <2>5. QED
    BY <1>2, <2>2, <2>4
<1>5. ASSUME NEW v \in AccessPass, v.key = a, Proceed(v),
             v.granted => rbac[a] \subseteq Wanted(v.spec)
      PROVE  LeavesWanted'
  <2>1. /\ Continues(v)
        /\ \/ accessWorker'.pc = "connect"
           \/ accessWorker'.pc \in {"check", "status"} /\ v.granted
    BY <1>5, ProceedEffect
  <2>2. QED
    BY <1>1, <1>5, <2>1 DEF LeavesWanted, Continues
<1>6. CASE AccessResolve
  <2>1. \/ AccessReport(w, TRUE) \/ Go(w, "connect") \/ Go(w, "finalize")
        \/ ~w.deleting /\ Proceed(w)
    BY <1>6 DEF AccessResolve, Dispatch
  <2>2. ~w.deleting /\ w.granted => rbac[a] \subseteq Wanted(w.spec)
    BY <1>6 DEF AccessResolve, StaleInv, LeavesWanted
  <2>3. CASE AccessReport(w, TRUE)
    BY <1>1, <2>3, ReportEffect, LeavesNothing
  <2>4. CASE Go(w, "connect") \/ Go(w, "finalize")
    BY <1>1, <2>4, GoEffect, LeavesNothing
  <2>5. QED
    BY <1>1, <1>5, <2>1, <2>2, <2>3, <2>4
<1>7. CASE AccessFinalize
  <2> DEFINE obj == [access[a] EXCEPT !.own = TRUE]
             snapshot == AccessSnapshot(w, obj, w.granted)
             v == [snapshot EXCEPT !.patched = obj]
  <2>1. /\ obj \in AccessObject /\ obj.spec = access[a].spec
        /\ obj.exists = access[a].exists /\ obj.deleting = access[a].deleting
        /\ Granted(obj) = Granted(access[a])
    BY <1>1 DEF AccessObject, Granted
  <2>2. \/ AccessReport(w, TRUE)
        \/ Proceed(v) /\ obj.exists /\ ~obj.deleting
    BY <1>7 DEF AccessFinalize
  <2> HIDE DEF obj
  <2>3. /\ snapshot \in AccessPass /\ snapshot.key = a /\ snapshot.spec = obj.spec
        /\ snapshot.granted = (w.granted /\ Granted(obj))
    BY <1>1, <2>1, SnapshotTyped
  <2> HIDE DEF snapshot
  <2>4. /\ v \in AccessPass /\ v.key = a /\ v.spec = obj.spec
        /\ v.granted = (w.granted /\ Granted(obj))
    BY <2>1, <2>3 DEF AccessPass
  <2> HIDE DEF v
  <2>5. obj.exists /\ ~obj.deleting /\ v.granted => rbac[a] \subseteq Wanted(v.spec)
    BY <1>1, <2>1, <2>4 DEF StaleInv, NothingStale, Settles
  <2>6. CASE AccessReport(w, TRUE)
    BY <1>1, <2>6, ReportEffect, LeavesNothing
  <2>7. QED
    BY <1>5, <2>2, <2>4, <2>5, <2>6
<1>8. QED
  BY <1>3, <1>4, <1>6, <1>7

\* A pass after its cleanup.
LEMMA LeavesLate ==
    ASSUME NamesTellKinds, AccessInv, AccessTypeInv', StaleInv,
           \/ AccessCheck \/ AccessConnect \/ AccessAccount \/ AccessGrant \/ AccessStoreToken
           \/ AccessStoreOIDC \/ AccessList \/ AccessPurge \/ AccessRelease \/ AccessStatus
    PROVE  LeavesWanted'
<1> DEFINE a == accessWorker.key
           w == accessWorker
<1>1. /\ AccessTypeInv /\ w \in AccessPass /\ a \in Accesses /\ w.spec \in Specs
      /\ rbac \in [Accesses -> SUBSET RBACObject] /\ IdleAccessWorker.pc = "idle"
  BY AccessTypes, IdleTyped DEF AccessInv, AccessCheck, AccessConnect, AccessAccount, AccessGrant,
     AccessStoreToken, AccessStoreOIDC, AccessList, AccessPurge, AccessRelease, AccessStatus, AccessPass
<1>2. CASE AccessConnect \/ AccessAccount \/ AccessGrant \/ AccessStoreToken \/ AccessStoreOIDC
  <2>1. OnTheWay
    BY <1>1, <1>2, MakingEffect DEF AccessCheck, AccessConnect, AccessAccount, AccessGrant,
       AccessStoreToken, AccessStoreOIDC
  <2>2. QED
    BY <2>1, LeavesNothing DEF OnTheWay
<1>3. CASE AccessCheck
  <2>1. Continues(w) /\ accessWorker'.pc \in {"connect", "status"} /\ UNCHANGED rbac
    BY <1>1, <1>3, MakingEffect DEF AccessCheck
  <2>2. rbac[a] \subseteq Wanted(w.spec)
    BY <1>3 DEF AccessCheck, StaleInv, LeavesWanted
  <2>3. QED
    BY <2>1, <2>2 DEF LeavesWanted, Continues
<1>4. CASE AccessRelease \/ AccessStatus
  <2>1. (\E again, renew : AccessLeave(again, renew)) \/ AccessReport(w, TRUE)
    BY <1>4 DEF AccessRelease, AccessStatus
  <2>2. QED
    BY <1>1, <2>1, ReportEffect, LeavesNothing DEF AccessLeave
<1>5. CASE AccessList
  <2>1. PICK listed \in SUBSET rbac[a], v \in AccessPass :
           /\ v.key = w.key /\ v.spec = w.spec /\ v.deleting = w.deleting
           /\ v.todo = {{x} : x \in listed}
           /\ ~v.failed => listed = {x \in rbac[w.key] : ~ShouldKeep(x, Keep(w))}
           /\ IF listed = {} THEN AfterCleanup(v) ELSE Go(v, "purge")
    BY <1>1, <1>5, ListEffect
  <2>2. ~w.deleting /\ ~v.failed => rbac[a] \subseteq Wanted(w.spec) \cup listed
    BY <1>1, <2>1, KeptIsWanted DEF Keep, StaleInv
  <2>3. listed = UNION v.todo
    BY <2>1
  <2>4. /\ Continues(v)
        /\ \/ accessWorker'.pc = "purge" /\ accessWorker'.failed = v.failed
              /\ accessWorker'.todo = v.todo
           \/ accessWorker'.pc = "release"
           \/ /\ accessWorker'.pc = "status" /\ accessWorker'.failed = v.failed
              /\ v.failed \/ ~v.deleting
              /\ listed = {}
    BY <2>1, GoEffect, CleanupEffect
  <2>5. UNCHANGED rbac
    BY <1>5 DEF AccessList
  <2>6. QED
    BY <2>1, <2>2, <2>3, <2>4, <2>5 DEF LeavesWanted, Continues
<1>6. CASE AccessPurge
  <2>1. PICK unit \in w.todo, v \in AccessPass, done \in SUBSET UNION w.todo :
           /\ v.key = w.key /\ v.spec = w.spec /\ v.deleting = w.deleting
           /\ v.todo = w.todo \ {unit} /\ rbac' = [rbac EXCEPT ![w.key] = @ \ done]
           /\ ~v.failed => ~w.failed /\ done = unit
           /\ IF v.todo = {} THEN AfterCleanup(v) ELSE Go(v, "purge")
    BY <1>1, <1>6, PurgeTurn
  <2>2. ~w.deleting /\ ~v.failed => rbac'[a] \subseteq Wanted(w.spec) \cup UNION v.todo
    <3>1. ~w.deleting /\ ~v.failed => rbac[a] \subseteq Wanted(w.spec) \cup UNION w.todo
      BY <1>6, <2>1 DEF AccessPurge, StaleInv, LeavesWanted
    <3>2. rbac'[a] = rbac[a] \ done
      BY <1>1, <2>1
    <3>3. QED
      BY <2>1, <3>1, <3>2
  <2>3. /\ Continues(v)
        /\ \/ accessWorker'.pc = "purge" /\ accessWorker'.failed = v.failed
              /\ accessWorker'.todo = v.todo
           \/ accessWorker'.pc = "release"
           \/ /\ accessWorker'.pc = "status" /\ accessWorker'.failed = v.failed
              /\ v.failed \/ ~v.deleting
              /\ v.todo = {}
    BY <2>1, GoEffect, CleanupEffect
  <2>4. QED
    BY <2>1, <2>2, <2>3 DEF LeavesWanted, Continues
<1>7. QED
  BY <1>2, <1>3, <1>4, <1>5, <1>6

\* Every step keeps what is stale away from what is settled.
LEMMA StaleInductive ==
    ASSUME NamesTellKinds, AccessInv, AccessTypeInv', StaleInv, [AccessNext]_accessVars
    PROVE  StaleInv'
<1> DEFINE w == accessWorker
<1>1. AccessTypeInv /\ MakesWantedOnly /\ w \in AccessPass
  BY AccessTypes DEF AccessInv, StaleInv
<1>2. MakesWantedOnly'
  BY <1>1, OnlyWantedMade
<1>3. RBACKnown'
  <2>1. ASSUME NEW a \in Accesses, NEW x \in rbac'[a] PROVE \E s \in Specs : x \in Wanted(s)
    <3>1. x \in rbac[a] \/ x \in Wanted(w.spec)
      BY <1>1, GrowsByWanted
    <3>2. w.spec \in Specs
      BY <1>1 DEF AccessPass
    <3>3. QED
      BY <3>1, <3>2 DEF StaleInv, RBACKnown
  <2>2. QED
    BY <2>1 DEF RBACKnown
<1>4. NothingStale'
  <2>1. ASSUME NEW a \in Accesses, Settles(a)' PROVE rbac'[a] \subseteq Wanted(access'[a].spec)
    <3>1. CASE AccessStatus /\ a = w.key
      <4>1. UNCHANGED rbac /\ w.pc = "status"
        BY <3>1 DEF AccessStatus
      <4>2. /\ access'[a].spec = access[a].spec
            /\ Settles(a) \/ (~w.failed /\ w.spec = access[a].spec)
        BY <2>1, <3>1, StatusSettles
      <4>3. ~w.failed => rbac[a] \subseteq Wanted(w.spec)
        BY <3>1, <4>1 DEF StaleInv, LeavesWanted
      <4>4. QED
        BY <4>1, <4>2, <4>3 DEF StaleInv, NothingStale
    <3>2. CASE Settles(a) /\ access'[a].spec = access[a].spec
      <4>1. rbac[a] \subseteq Wanted(access[a].spec)
        BY <3>2 DEF StaleInv, NothingStale
      <4>2. CASE rbac'[a] \subseteq rbac[a]
        BY <3>2, <4>1, <4>2
      <4>3. CASE /\ AccessAccount \/ AccessGrant
                 /\ a = w.key
                 /\ rbac'[a] \subseteq rbac[a] \cup Wanted(w.spec)
        <5>1. Guarding /\ w.pc # "idle"
          BY <4>3 DEF AccessAccount, AccessGrant, Guarding
        <5>2. access[a].spec = w.spec
          BY <3>2, <4>3, <5>1, SettledIsRead
        <5>3. QED
          BY <3>2, <4>1, <4>3, <5>2
      <4>4. QED
        BY <1>1, <4>2, <4>3, GrowsByWanted
    <3>3. QED
      BY <2>1, <3>1, <3>2, OnlyStatusSettles
  <2>2. QED
    BY <2>1 DEF NothingStale
<1>5. LeavesWanted'
  <2>1. CASE AccessStep
    BY <2>1, LeavesEarly, LeavesLate DEF AccessStep
  <2>2. ASSUME accessWorker'.pc \in {"idle", "locking"} PROVE LeavesWanted'
    BY <2>2, LeavesNothing
  <2>3. ASSUME accessWorker'.pc = w.pc, accessWorker'.failed = w.failed, accessWorker'.todo = w.todo,
               accessWorker'.granted = w.granted, Continues(w),
               \A b \in Accesses : rbac'[b] \subseteq rbac[b]
        PROVE  LeavesWanted'
    <3>1. w.pc # "idle" => w.key \in Accesses
      BY <1>1, AccessTypes
    <3>2. QED
      BY <2>3, <3>1 DEF StaleInv, LeavesWanted, Continues
  <2>4. ASSUME UNCHANGED <<rbac, accessWorker>> PROVE LeavesWanted'
    BY <2>3, <2>4 DEF Continues
  <2>5. CASE Neighbour
    BY <1>1, <2>3, <2>5 DEF Neighbour, Surroundings, Continues, AccessPass
  <2>6. ASSUME NEW a \in Accesses, AccessDequeue(a) PROVE LeavesWanted'
    BY <2>2, <2>6, IdleTyped DEF AccessDequeue, AccessPass
  <2>7. CASE AccessRestart
    BY <2>2, <2>7, IdleTyped DEF AccessRestart
  <2>8. QED
    BY <2>1, <2>4, <2>5, <2>6, <2>7 DEF AccessNext, AccessControllerNext, AccessUser, Resync, Tick,
       accessVars, accessControllerVars
<1>6. QED
  BY <1>2, <1>3, <1>4, <1>5 DEF StaleInv

\* A granted AccessRequest has nothing on its GKE cluster that its present
\* specification does not ask for, whatever it asked for before and whatever failed,
\* when no specification uses a name for two kinds.
THEOREM StaleRemoved ==
    ASSUME NamesTellKinds
    PROVE  AccessSpec => []NothingStale
<1>1. AccessInit => StaleInv
  BY IdleTyped
     DEF AccessInit, AccessPlatformInit, AccessControllerInit, StaleInv, RBACKnown, LeavesWanted,
         MakesWantedOnly, NothingStale
<1>2. AccessInv /\ AccessInv' /\ StaleInv /\ [AccessNext]_accessVars => StaleInv'
  BY StaleInductive DEF AccessInv
<1>3. StaleInv => NothingStale
  BY DEF StaleInv
<1>4. QED
  BY <1>1, <1>2, <1>3, AccessInvAlways, PTL DEF AccessSpec

-----------------------------------------------------------------------------
(***************************************************************************)
(* Tokens are renewed in time.                                             *)
(***************************************************************************)
\* a's Secret and its timer stay as they are, or a is put in the queue.
Waits(a) == due'[a] = 0 \/ (due'[a] = due[a] /\ secret'[a] = secret[a])

\* An AccessRequest no pass is about remains in time.
LEMMA WaitingInTime ==
    ASSUME AccessInv, AccessTypeInv', [AccessNext]_accessVars, NoneAttended, RenewalInTime,
           NEW a \in Accesses, Settles(a)', access'[a].spec.kind = "token", Waits(a),
           ~(AccessStatus /\ a = accessWorker.key),
           accessWorker.key = a => accessWorker'.key = a,
           access[a].op = "ignore" => access'[a].op = "ignore" \/ due'[a] = 0
    PROVE  \/ Attended(a)'
           \/ secret'[a].kind = "token" /\ secret'[a].age + due'[a] <= RenewAge
<1>1. Settles(a) /\ access'[a].spec = access[a].spec
  BY OnlyStatusSettles
<1>2. Attended(a) \/ (secret[a].kind = "token" /\ secret[a].age + due[a] <= RenewAge)
  BY <1>1 DEF RenewalInTime
<1>3. QED
  BY <1>2 DEF Attended, Waits

\* Those that a pass is about are attended, until it is over.
LEMMA PassInTime ==
    ASSUME AccessInv, AccessTypeInv', [AccessNext]_accessVars, RenewalInv,
           accessWorker.pc # "idle", accessWorker'.key = accessWorker.key,
           \A a \in Accesses : a = accessWorker.key \/ (Waits(a) /\ access'[a] = access[a])
    PROVE  RenewalInTime'
<1> SUFFICES ASSUME NEW a \in Accesses, Settles(a)', access'[a].spec.kind = "token"
             PROVE  \/ Attended(a)'
                    \/ secret'[a].kind = "token" /\ secret'[a].age + due'[a] <= RenewAge
  BY DEF RenewalInTime
<1>1. CASE a = accessWorker.key
  BY <1>1 DEF Attended
<1>2. CASE a # accessWorker.key
  BY <1>2, WaitingInTime DEF RenewalInv
<1>3. QED
  BY <1>1, <1>2

\* The queue only takes what has changed.
LEMMA EnqueueWaits ==
    ASSUME due \in [Accesses -> 0..Never], NEW keys, Enqueue(keys), NEW a \in Accesses
    PROVE  /\ due'[a] \in {0, due[a]}
           /\ a \in keys => due'[a] = 0
  BY DEF Enqueue

\* When a pass is over, its AccessRequest comes back in time.
LEMMA LeaveInTime ==
    ASSUME AccessInv, AccessTypeInv', [AccessNext]_accessVars, RenewalInv,
           accessWorker.pc # "idle", NEW again, NEW renew \in 0..Never, AccessLeave(again, renew),
           \A a \in Accesses :
              a = accessWorker.key \/ (secret'[a] = secret[a] /\ access'[a] = access[a]),
           \/ again
           \/ access'[accessWorker.key].op = "ignore"
           \/ ~access'[accessWorker.key].exists
           \/ AccessStatus /\ ~accessWorker.failed /\ renew = accessWorker.renew
    PROVE  RenewalInv'
<1> DEFINE key == accessWorker.key
           w == accessWorker
<1>1. /\ due \in [Accesses -> 0..Never] /\ secret \in [Accesses -> SecretObject] /\ w \in AccessPass
      /\ key \in Accesses /\ RenewAge \in Nat /\ key # Nobody
  BY AccessTypes, TimesTyped, AccessAssumption DEF AccessInv
<1>2. accessWorker' = IdleAccessWorker /\ accessWorker'.pc = "idle" /\ accessWorker'.key = Nobody
  BY DEF AccessLeave, IdleAccessWorker
<1>3. \A a \in Accesses : a # key => due'[a] \in {0, due[a]}
  BY <1>1 DEF AccessLeave
<1>4. due'[key] \in {0, due[key], renew} /\ (again => due'[key] = 0)
      /\ (due'[key] = 0 \/ due'[key] <= renew)
  <2>1. due[key] \in 0..Never
    BY <1>1
  <2>2. QED
    BY <1>1, <2>1, TimesTyped DEF AccessLeave
<1>5. RenewalInTime'
  <2> SUFFICES ASSUME NEW a \in Accesses, Settles(a)', access'[a].spec.kind = "token"
               PROVE  \/ Attended(a)'
                      \/ secret'[a].kind = "token" /\ secret'[a].age + due'[a] <= RenewAge
    BY DEF RenewalInTime
  <2>1. CASE a # key
    BY <1>3, <2>1, WaitingInTime DEF RenewalInv, Waits
  <2>2. CASE a = key
    <3>1. access'[a].exists /\ ~access'[a].deleting /\ access'[a].observed = access'[a].generation
      BY DEF Settles, Granted
    <3>2. CASE again \/ access'[a].op = "ignore"
      BY <1>4, <2>2, <3>2 DEF Attended
    <3>3. CASE AccessStatus /\ ~w.failed /\ renew = w.renew
      <4>1. \/ due[a] = 0
            \/ secret[a].kind = "token" /\ secret[a].age + renew <= RenewAge
        <5>1. Settles(a) => access[a].spec = w.spec /\ ~w.deleting
          <6>1. Guarding
            BY <3>3 DEF AccessStatus, Guarding
          <6>2. SameObject
            BY <6>1 DEF AccessInv, GuardedAccess, KnowsObject
          <6>3. QED
            BY <2>2, <6>1, <6>2, SettledIsRead DEF Settles, SameObject
        <5>2. w.spec.kind = "token" /\ ~w.deleting
          BY <2>2, <3>3, <5>1, StatusSettles
        <5>3. QED
          BY <2>2, <3>3, <5>2 DEF RenewalInv, Renews, AccessStatus
      <4>2. secret[a].age \in Nat /\ renew \in Nat /\ due'[a] \in Nat /\ due[a] \in Nat
        BY <1>1, <1>4, <2>2, TimesTyped DEF SecretObject
      <4>3. CASE due[a] = 0
        BY <1>1, <2>2, <4>3, <4>2 DEF AccessLeave, Attended
      <4>4. CASE secret[a].kind = "token" /\ secret[a].age + renew <= RenewAge
        <5>1. UNCHANGED secret
          BY <3>3 DEF AccessStatus
        <5>2. due'[a] = 0 \/ secret[a].age + due'[a] <= RenewAge
          BY <1>1, <1>4, <2>2, <4>2, <4>4
        <5>3. QED
          BY <4>4, <5>1, <5>2 DEF Attended
      <4>5. QED
        BY <4>1, <4>3, <4>4
    <3>4. QED
      BY <2>2, <3>1, <3>2, <3>3
  <2>3. QED
    BY <2>1, <2>2
<1>6. QED
  BY <1>2, <1>5 DEF RenewalInv, NoneAttended, Renews

\* Until the finalizer is set.
LEMMA EarlyRenewal ==
    ASSUME AccessInv, AccessTypeInv', RenewalInv,
           AccessGet \/ AccessUnannotate \/ AccessResolve \/ AccessFinalize
    PROVE  RenewalInv'
<1> DEFINE a == accessWorker.key
           w == accessWorker
<1>1. /\ w \in AccessPass /\ a \in Accesses /\ access[a] \in AccessObject /\ w.pc # "idle"
      /\ access \in [Accesses -> AccessObject] /\ due \in [Accesses -> 0..Never]
      /\ UNCHANGED secret /\ w.granted \in BOOLEAN /\ [AccessNext]_accessVars /\ AccessTypeInv
      /\ Never \in 0..Never
  BY AccessTypes, TimesTyped DEF AccessInv, AccessGet, AccessUnannotate, AccessResolve, AccessFinalize,
     AccessPass, AccessNext, AccessControllerNext, AccessStep, accessPlatformVars
<1>2. \A b \in Accesses \ {a} : access'[b] = access[b]
  <2>1. [access[a] EXCEPT !.op = "none"] \in AccessObject /\ [access[a] EXCEPT !.own = TRUE] \in AccessObject
    BY <1>1 DEF AccessObject, Operations
  <2>2. UNCHANGED access \/ \E obj \in AccessObject : StoreAccess(a, obj)
    BY <2>1 DEF AccessGet, AccessUnannotate, AccessResolve, AccessFinalize, accessPlatformVars
  <2>3. QED
    BY <1>1, <2>2, StoreAccessEffect
<1>3. ASSUME accessWorker'.key = a, accessWorker'.pc # "idle", due' = due \/ \E keys : Enqueue(keys),
             \/ accessWorker'.pc \notin {"list", "purge", "status"}
             \/ accessWorker'.pc = "status" /\ accessWorker'.failed
             \/ accessWorker'.pc = "status" /\ accessWorker'.spec.kind # "token"
      PROVE  RenewalInv'
  <2>1. \A b \in Accesses : Waits(b)
    BY <1>1, <1>3, EnqueueWaits DEF Waits
  <2>2. RenewalInTime'
    BY <1>1, <1>2, <1>3, <2>1, PassInTime
  <2>3. QED
    BY <1>3, <2>2 DEF RenewalInv, Renews, NoneAttended
<1>4. ASSUME NEW v \in AccessPass, v.key = a, due' = due \/ \E keys : Enqueue(keys),
             \/ \E pc \in {"unannotate", "resolve", "finalize", "connect"} : Go(v, pc)
             \/ AccessReport(v, TRUE)
             \/ Proceed(v)
      PROVE  RenewalInv'
  <2>1. CASE \E pc \in {"unannotate", "resolve", "finalize", "connect"} : Go(v, pc)
    BY <1>3, <1>4, <2>1, GoEffect DEF Continues
  <2>2. CASE AccessReport(v, TRUE)
    BY <1>3, <1>4, <2>2, ReportEffect DEF Continues
  <2>3. CASE Proceed(v)
    BY <1>3, <1>4, <2>3, ProceedEffect DEF Continues
  <2>4. QED
    BY <1>4, <2>1, <2>2, <2>3
<1>5. CASE AccessGet
  <2> DEFINE v == AccessSnapshot(w, access[a], TRUE)
  <2>1. TRUE \in BOOLEAN
    OBVIOUS
  <2>2. v \in AccessPass /\ v.key = a
    BY <1>1, <2>1, SnapshotTyped
  <2>3. \/ UNCHANGED due /\ \E pc \in {"unannotate", "resolve"} : Go(v, pc)
        \/ \E again : /\ AccessLeave(again, Never)
                      /\ again \/ ~access[a].exists \/ access[a].op = "ignore"
    BY <1>5 DEF AccessGet
  <2> HIDE DEF v
  <2>4. ASSUME NEW again, AccessLeave(again, Never),
               again \/ ~access[a].exists \/ access[a].op = "ignore"
        PROVE  RenewalInv'
    <3>1. UNCHANGED access
      BY <1>5 DEF AccessGet, accessPlatformVars
    <3>2. QED
      BY <1>1, <2>4, <3>1, LeaveInTime
  <2>5. QED
    BY <1>4, <2>2, <2>3, <2>4
<1>6. CASE AccessUnannotate
  <2> DEFINE obj == [access[a] EXCEPT !.op = "none"]
             v == AccessSnapshot(w, obj, FALSE)
  <2>1. obj \in AccessObject /\ FALSE \in BOOLEAN
    BY <1>1 DEF AccessObject, Operations
  <2>2. AccessLeave(TRUE, Never) \/ (Go(v, "resolve") /\ Enqueue(AccessEvents))
    BY <1>6 DEF AccessUnannotate
  <2> HIDE DEF obj
  <2>3. v \in AccessPass /\ v.key = a
    BY <1>1, <2>1, SnapshotTyped
  <2> HIDE DEF v
  <2>4. ASSUME AccessLeave(TRUE, Never) PROVE RenewalInv'
    BY <1>1, <1>2, <2>4, LeaveInTime
  <2>5. QED
    BY <1>4, <2>2, <2>3, <2>4
<1>7. CASE AccessResolve
  <2>1. UNCHANGED due /\ (\/ AccessReport(w, TRUE) \/ Go(w, "connect") \/ Go(w, "finalize")
                          \/ Proceed(w))
    BY <1>7 DEF AccessResolve, Dispatch
  <2>2. QED
    BY <1>1, <1>4, <2>1
<1>8. CASE AccessFinalize
  <2> DEFINE obj == [access[a] EXCEPT !.own = TRUE]
             snapshot == AccessSnapshot(w, obj, w.granted)
             v == [snapshot EXCEPT !.patched = obj]
  <2>1. obj \in AccessObject
    BY <1>1 DEF AccessObject
  <2>2. Enqueue(AccessEvents) /\ (AccessReport(w, TRUE) \/ Proceed(v))
    BY <1>8 DEF AccessFinalize
  <2> HIDE DEF obj
  <2>3. snapshot \in AccessPass /\ snapshot.key = a
    BY <1>1, <2>1, SnapshotTyped
  <2> HIDE DEF snapshot
  <2>4. v \in AccessPass /\ v.key = a
    BY <2>1, <2>3 DEF AccessPass
  <2> HIDE DEF v
  <2>5. QED
    BY <1>1, <1>4, <2>2, <2>4
<1>9. QED
  BY <1>5, <1>6, <1>7, <1>8

\* The token found good, or stored, is the one the timer is set for.
LEMMA MiddleRenewal ==
    ASSUME AccessInv, AccessTypeInv', RenewalInv, "slow" \notin FaultModes,
           \/ AccessCheck \/ AccessConnect \/ AccessAccount \/ AccessGrant \/ AccessStoreToken
           \/ AccessStoreOIDC \/ AccessList \/ AccessPurge
    PROVE  RenewalInv'
<1> DEFINE a == accessWorker.key
           w == accessWorker
<1>1. /\ w \in AccessPass /\ a \in Accesses /\ access[a] \in AccessObject /\ w.pc # "idle"
      /\ access \in [Accesses -> AccessObject] /\ due \in [Accesses -> 0..Never]
      /\ secret \in [Accesses -> SecretObject] /\ secret[a].age \in 0..RenewAge
      /\ UNCHANGED access /\ [AccessNext]_accessVars /\ AccessTypeInv /\ Never \in 0..Never
  BY AccessTypes, TimesTyped DEF AccessInv, AccessCheck, AccessConnect, AccessAccount, AccessGrant,
     AccessStoreToken, AccessStoreOIDC, AccessList, AccessPurge, AccessNext, AccessControllerNext,
     AccessStep, accessPlatformVars, SecretObject
<1>2. /\ UNCHANGED due \/ \E keys : Enqueue(keys)
      /\ \A b \in Accesses \ {a} : secret'[b] = secret[b]
  <2>1. UNCHANGED due \/ \E keys : Enqueue(keys)
    BY DEF AccessCheck, AccessConnect, AccessAccount, AccessGrant, AccessStoreToken, AccessStoreOIDC,
       AccessList, AccessPurge, accessPlatformVars
  <2>2. \/ UNCHANGED secret
        \/ \E kind \in {"token", "oidc"} : StoreSecret(a, NewSecret(kind))
    BY DEF AccessCheck, Fault, AccessConnect, AccessAccount, AccessGrant, AccessStoreToken,
       AccessStoreOIDC, StoreKubeconfig, AccessList, AccessPurge, accessPlatformVars
  <2>3. QED
    BY <1>1, <2>1, <2>2, NewSecretTyped, StoreSecretEffect
<1>3. ASSUME accessWorker'.key = a, accessWorker'.pc # "idle", Renews' PROVE RenewalInv'
  <2>1. \A b \in Accesses \ {a} : Waits(b)
    BY <1>1, <1>2, EnqueueWaits DEF Waits
  <2>2. RenewalInTime'
    BY <1>1, <1>3, <2>1, PassInTime
  <2>3. QED
    BY <1>3, <2>2 DEF RenewalInv, NoneAttended
<1>4. ASSUME accessWorker'.key = a, OnTheWay, accessWorker'.pc # "list" PROVE RenewalInv'
  BY <1>3, <1>4 DEF OnTheWay, Renews
<1>5. CASE AccessConnect \/ AccessAccount \/ AccessGrant
  <2>1. Continues(w) /\ OnTheWay
    BY <1>1, <1>5, MakingEffect DEF AccessCheck, AccessConnect, AccessAccount, AccessGrant
  <2>2. accessWorker'.pc = "list" => w.deleting
    <3> DEFINE Goal == accessWorker'.pc = "list" => w.deleting
    <3>1. ASSUME NEW v \in AccessPass, AccessReport(v, TRUE) PROVE Goal
      BY <3>1, ReportEffect
    <3>2. ASSUME NEW v \in AccessPass, NEW pc, pc # "list" \/ w.deleting, Go(v, pc) PROVE Goal
      BY <3>2, GoEffect
    <3>3. CASE AccessConnect
      <4> DEFINE v == [w EXCEPT !.connected = TRUE]
                 u == [v EXCEPT !.todo = Units(v.spec)]
      <4>1. v \in AccessPass /\ v.deleting = w.deleting /\ v.spec \in Specs
        BY <1>1 DEF AccessPass
      <4>2. u \in AccessPass
        <5>1. Units(v.spec) \in SUBSET SUBSET RBACObject
          BY <4>1, WantedTyped
        <5> HIDE DEF v
        <5>2. QED
          BY <4>1, <5>1 DEF AccessPass
      <4>3. \/ AccessReport(w, TRUE) \/ (v.deleting /\ Go(v, "list")) \/ Go(v, "account")
            \/ Go(u, "store") \/ Go(u, "grant")
        BY <3>3 DEF AccessConnect
      <4> HIDE DEF u, v
      <4>4. QED
        BY <1>1, <3>1, <3>2, <4>1, <4>2, <4>3
    <3>4. CASE AccessAccount
      <4> DEFINE v == [w EXCEPT !.todo = Units(w.spec)]
      <4>1. Units(w.spec) \in SUBSET SUBSET RBACObject
        BY <1>1, WantedTyped DEF AccessPass
      <4>2. v \in AccessPass
        BY <1>1, <4>1 DEF AccessPass
      <4>3. AccessReport(w, TRUE) \/ Go(v, "store") \/ Go(v, "grant")
        BY <3>4 DEF AccessAccount
      <4> HIDE DEF v
      <4>4. QED
        BY <1>1, <3>1, <3>2, <4>2, <4>3
    <3>5. CASE AccessGrant
      <4>1. PICK unit \in w.todo : \E done \in SUBSET unit, failed \in BOOLEAN :
               \/ Go(Turned(unit, failed), "grant") \/ Go(Turned(unit, failed), "store")
               \/ AccessReport(Turned(unit, failed), TRUE)
        BY <3>5, GrantEffect
      <4>2. PICK failed \in BOOLEAN :
               \/ Go(Turned(unit, failed), "grant") \/ Go(Turned(unit, failed), "store")
               \/ AccessReport(Turned(unit, failed), TRUE)
        BY <4>1
      <4> DEFINE v == Turned(unit, failed)
      <4>3. v \in AccessPass
        BY <1>1, TurnTyped
      <4>4. Go(v, "grant") \/ Go(v, "store") \/ AccessReport(v, TRUE)
        BY <4>2
      <4> HIDE DEF v
      <4>5. QED
        BY <3>1, <3>2, <4>3, <4>4
    <3>6. QED
      BY <1>5, <3>3, <3>4, <3>5
  <2>3. CASE accessWorker'.pc = "list"
    BY <1>3, <2>1, <2>2, <2>3 DEF Continues, Renews
  <2>4. QED
    BY <1>4, <2>1, <2>3 DEF Continues
<1>6. CASE AccessCheck
  <2> DEFINE left == UntilRenewal(secret[a].age)
             v == [w EXCEPT !.renew = left]
  <2>1. left \in 0..Never /\ left = RenewAge - secret[a].age
    BY <1>1, TimesTyped
  <2>2. /\ UNCHANGED secret
        /\ Go(w, "connect") \/ (secret[a].kind = "token" /\ AccessReport(v, FALSE))
    BY <1>6 DEF AccessCheck, Fault
  <2> HIDE DEF left
  <2>3. v \in AccessPass /\ v.key = a /\ v.renew = left
    BY <1>1, <2>1 DEF AccessPass
  <2> HIDE DEF v
  <2>4. CASE Go(w, "connect")
    BY <1>1, <1>3, <2>4, GoEffect DEF Continues, Renews
  <2>5. CASE secret[a].kind = "token" /\ AccessReport(v, FALSE)
    <3>1. accessWorker'.key = a /\ accessWorker'.pc = "status" /\ accessWorker'.renew = left
      BY <2>3, <2>5, ReportEffect DEF Continues
    <3>2. secret[a].age + left <= RenewAge
      BY <1>1, <2>1, TimesTyped
    <3>3. QED
      BY <1>3, <2>2, <2>5, <3>1, <3>2 DEF Renews
  <2>6. QED
    BY <2>2, <2>4, <2>5
<1>7. CASE AccessStoreToken \/ AccessStoreOIDC
  <2>1. access[a].exists
    <3>1. Guarding
      BY <1>7 DEF AccessStoreToken, AccessStoreOIDC, Guarding
    <3>2. SameObject
      BY <3>1 DEF AccessInv, GuardedAccess, KnowsObject
    <3>3. QED
      BY <1>1, <3>2 DEF SameObject, AccessInv, GuardedAccess, ObjectsOK
  <2>2. UntilRenewal(0) \in 0..Never /\ UntilRenewal(0) = RenewAge
    BY TimesTyped DEF UntilRenewal
  <2> DEFINE v == [w EXCEPT !.renew = UntilRenewal(0)]
             u == [w EXCEPT !.renew = Never]
  <2>3. /\ v \in AccessPass /\ v.key = a /\ v.renew = RenewAge
        /\ u \in AccessPass /\ u.key = a /\ u.spec = w.spec
    BY <1>1, <2>2 DEF AccessPass
  <2>4. \/ AccessReport(w, TRUE)
        \/ Go(v, "list") /\ StoreSecret(a, NewSecret("token"))
        \/ w.spec.kind = "oidc" /\ Go(u, "list")
    BY <1>7 DEF AccessStoreToken, AccessStoreOIDC, StoreKubeconfig, Applied
  <2> HIDE DEF u, v
  <2>5. CASE AccessReport(w, TRUE)
    BY <1>1, <1>3, <2>5, ReportEffect DEF Continues, Renews
  <2>6. CASE Go(v, "list") /\ StoreSecret(a, NewSecret("token"))
    <3>1. secret'[a] = NewSecret("token")
      BY <1>1, <2>1, <2>6, NewSecretTyped, StoreSecretEffect
    <3>2. secret'[a].kind = "token" /\ secret'[a].age = 0
      BY <3>1 DEF NewSecret
    <3>3. accessWorker'.key = a /\ accessWorker'.pc = "list" /\ accessWorker'.renew = RenewAge
      BY <2>3, <2>6, GoEffect DEF Continues
    <3>4. QED
      BY <1>3, <3>2, <3>3, TimesTyped DEF Renews
  <2>7. CASE w.spec.kind = "oidc" /\ Go(u, "list")
    BY <1>3, <2>3, <2>7, GoEffect DEF Continues, Renews
  <2>8. QED
    BY <2>4, <2>5, <2>6, <2>7
<1>8. CASE AccessList \/ AccessPurge
  <2>1. PICK v \in AccessPass :
           /\ v.key = w.key /\ v.spec = w.spec /\ v.deleting = w.deleting /\ v.renew = w.renew
           /\ AfterCleanup(v) \/ Go(v, "purge")
    BY <1>1, <1>8, ListEffect, PurgeTurn
  <2>2. /\ Continues(v)
        /\ \/ accessWorker'.pc \in {"status", "purge"} /\ accessWorker'.renew = v.renew
           \/ accessWorker'.pc = "release"
    BY <2>1, GoEffect, CleanupEffect
  <2>3. UNCHANGED <<secret, due>>
    BY <1>8 DEF AccessList, AccessPurge, accessPlatformVars
  <2>4. Renews'
    BY <1>8, <2>1, <2>2, <2>3 DEF AccessList, AccessPurge, RenewalInv, Renews, Continues
  <2>5. QED
    BY <1>3, <2>1, <2>2, <2>4 DEF Continues
<1>9. QED
  BY <1>5, <1>6, <1>7, <1>8

\* A pass that ends with success leaves its timer.
LEMMA LateRenewal ==
    ASSUME AccessInv, AccessTypeInv', RenewalInv, AccessRelease \/ AccessStatus
    PROVE  RenewalInv'
<1> DEFINE a == accessWorker.key
           w == accessWorker
<1>1. /\ w \in AccessPass /\ a \in Accesses /\ access[a] \in AccessObject /\ w.pc # "idle"
      /\ access \in [Accesses -> AccessObject] /\ due \in [Accesses -> 0..Never]
      /\ secret \in [Accesses -> SecretObject] /\ secret[a] \in SecretObject
      /\ [AccessNext]_accessVars /\ Never \in 0..Never /\ w.renew \in 0..Never
  BY AccessTypes, TimesTyped DEF AccessInv, AccessRelease, AccessStatus, AccessNext,
     AccessControllerNext, AccessStep, AccessPass
<1>2. CASE AccessRelease
  <2> DEFINE obj == [access[a] EXCEPT !.own = FALSE]
  <2>1. access[a].deleting
    <3>1. Guarding /\ w.deleting
      BY <1>2 DEF AccessRelease, Guarding, AccessInv, GuardedAccess, Removed
    <3>2. QED
      BY <3>1 DEF AccessInv, GuardedAccess, KnowsObject, SameObject
  <2>2. obj \in AccessObject /\ obj.deleting /\ obj.own = FALSE
    BY <1>1, <2>1 DEF AccessObject
  <2>3. /\ UNCHANGED access \/ StoreAccess(a, obj)
        /\ StoreSecret(a, secret[a])
        /\ \/ AccessLeave(FALSE, Never) /\ StoreAccess(a, obj)
           \/ AccessReport(w, TRUE) /\ Enqueue(AccessEvents \cup SecretEvents)
    BY <1>2 DEF AccessRelease, Applied
  <2> HIDE DEF obj
  <2>4. \A b \in Accesses \ {a} : access'[b] = access[b] /\ secret'[b] = secret[b]
    BY <1>1, <2>2, <2>3, StoreAccessEffect, StoreSecretEffect
  <2>5. CASE AccessLeave(FALSE, Never) /\ StoreAccess(a, obj)
    <3>1. access'[a] = NoAccess
      BY <1>1, <2>2, <2>5, StoreAccessEffect
    <3>2. ~access'[a].exists
      BY <3>1 DEF NoAccess
    <3>3. QED
      BY <1>1, <2>4, <2>5, <3>2, LeaveInTime
  <2>6. CASE AccessReport(w, TRUE) /\ Enqueue(AccessEvents \cup SecretEvents)
    <3>1. accessWorker'.key = a /\ accessWorker'.pc = "status" /\ accessWorker'.failed
      BY <1>1, <2>6, ReportEffect DEF Continues
    <3>2. \A b \in Accesses \ {a} : Waits(b)
      BY <1>1, <2>4, <2>6, EnqueueWaits DEF Waits
    <3>3. RenewalInTime'
      BY <1>1, <2>4, <3>1, <3>2, PassInTime
    <3>4. QED
      BY <3>1, <3>3 DEF RenewalInv, Renews, NoneAttended
  <2>7. QED
    BY <2>3, <2>5, <2>6
<1>3. CASE AccessStatus
  <2> DEFINE obj == [access[a] EXCEPT !.phase = IF w.failed THEN "Pending" ELSE "Granted",
                                      !.observed = w.generation]
  <2>1. obj \in AccessObject
    BY <1>1 DEF AccessObject, AccessPass
  <2>2. UNCHANGED secret /\ (UNCHANGED access \/ StoreAccess(a, obj))
    BY <1>3 DEF AccessStatus
  <2>3. \E again \in BOOLEAN : /\ AccessLeave(again, IF again THEN Never ELSE w.renew)
                               /\ again \/ ~w.failed
    BY <1>3 DEF AccessStatus
  <2> HIDE DEF obj
  <2>4. \A b \in Accesses \ {a} : access'[b] = access[b] /\ secret'[b] = secret[b]
    BY <1>1, <2>1, <2>2, StoreAccessEffect
  <2>5. CASE AccessLeave(TRUE, Never)
    BY <1>1, <2>4, <2>5, LeaveInTime
  <2>6. CASE AccessLeave(FALSE, w.renew) /\ ~w.failed
    BY <1>1, <1>3, <2>4, <2>6, LeaveInTime
  <2>7. QED
    BY <2>3, <2>5, <2>6
<1>4. QED
  BY <1>2, <1>3

\* Steps of others change a timer only with what it is for.
LEMMA OthersRenewal ==
    ASSUME AccessInv, AccessTypeInv', [AccessNext]_accessVars, ~AccessStatus, RenewalInv,
           accessWorker'.pc = accessWorker.pc, accessWorker'.renew = accessWorker.renew,
           accessWorker'.failed = accessWorker.failed, Continues(accessWorker),
           \A a \in Accesses :
              /\ Waits(a)
              /\ access'[a].exists /\ access[a].op = "ignore" =>
                    access'[a].op = "ignore" \/ due'[a] = 0
    PROVE  RenewalInv'
<1>1. accessWorker.pc # "idle" => accessWorker.key \in Accesses
  BY AccessTypes DEF AccessInv
<1>2. Renews'
  BY <1>1 DEF RenewalInv, Renews, Continues, Waits
<1>3. RenewalInTime'
  <2> SUFFICES ASSUME NEW a \in Accesses, Settles(a)', access'[a].spec.kind = "token"
               PROVE  \/ Attended(a)'
                      \/ secret'[a].kind = "token" /\ secret'[a].age + due'[a] <= RenewAge
    BY DEF RenewalInTime
  <2>1. access'[a].exists
    BY DEF Settles
  <2>2. QED
    BY <2>1, WaitingInTime DEF RenewalInv, Continues
<1>4. QED
  BY <1>2, <1>3 DEF RenewalInv, NoneAttended, Continues

\* The clock moves timers and tokens alike.
LEMMA TickRenewal == ASSUME AccessInv, AccessTypeInv', RenewalInv, Tick PROVE RenewalInv'
<1>1. /\ due \in [Accesses -> 0..Never] /\ secret \in [Accesses -> SecretObject]
      /\ RenewAge \in Nat /\ Never = RenewAge + 1
  BY AccessTypes, TimesTyped DEF AccessInv
<1>2. accessWorker.pc = "idle" /\ UNCHANGED <<access, accessWorker>> /\ accessWorker.key = Nobody
  BY DEF Tick, RenewalInv, NoneAttended
<1>3. RenewalInTime'
  <2> SUFFICES ASSUME NEW a \in Accesses, Settles(a)', access'[a].spec.kind = "token"
               PROVE  \/ Attended(a)'
                      \/ secret'[a].kind = "token" /\ secret'[a].age + due'[a] <= RenewAge
    BY DEF RenewalInTime
  <2>1. Settles(a) /\ access[a].spec.kind = "token" /\ accessWorker.key # a
    BY <1>2, AccessAssumption DEF Settles, Granted
  <2>2. \/ due[a] = 0 \/ access[a].op = "ignore"
        \/ secret[a].kind = "token" /\ secret[a].age + due[a] <= RenewAge
    BY <2>1 DEF RenewalInv, RenewalInTime, Attended
  <2>3. due[a] \in Nat /\ secret[a].age \in Nat
    BY <1>1 DEF SecretObject
  <2>4. CASE due[a] = 0 \/ access[a].op = "ignore"
    <3>1. due[a] = 0 => due'[a] = 0
      BY <1>1 DEF Tick
    <3>2. QED
      BY <1>2, <2>4, <3>1 DEF Attended
  <2>5. CASE secret[a].kind = "token" /\ secret[a].age + due[a] <= RenewAge /\ due[a] # 0
    <3>1. due[a] \in 1..RenewAge /\ secret[a].age < RenewAge
      BY <1>1, <2>3, <2>5
    <3>2. due'[a] = due[a] - 1
      BY <1>1, <3>1 DEF Tick
    <3>3. secret'[a] = [secret[a] EXCEPT !.age = @ + 1]
      BY <1>1, <2>5, <3>1 DEF Tick
    <3>4. secret'[a].kind = "token" /\ secret'[a].age = secret[a].age + 1
      BY <1>1, <2>5, <3>3 DEF SecretObject
    <3>5. secret[a].age + 1 + (due[a] - 1) <= RenewAge
      BY <1>1, <2>3, <2>5
    <3>6. QED
      BY <3>2, <3>4, <3>5
  <2>6. QED
    BY <2>2, <2>4, <2>5
<1>4. QED
  BY <1>2, <1>3 DEF RenewalInv, Renews, NoneAttended

\* Every step keeps the tokens in time.
LEMMA RenewalInductive ==
    ASSUME AccessInv, AccessTypeInv', RenewalInv, "slow" \notin FaultModes, [AccessNext]_accessVars
    PROVE  RenewalInv'
<1>1. /\ due \in [Accesses -> 0..Never] /\ accessWorker \in AccessPass
  BY AccessTypes DEF AccessInv
<1>2. CASE AccessStep
  BY <1>2, EarlyRenewal, MiddleRenewal, LateRenewal DEF AccessStep
<1>3. CASE AccessUser /\ ~AccessStep
  <2>1. UNCHANGED accessWorker /\ Enqueue(AccessEvents \cup SecretEvents)
    BY <1>3 DEF AccessUser
  <2>2. ASSUME NEW a \in Accesses PROVE Waits(a)
    <3>1. secret'[a] # secret[a] => a \in AccessEvents \cup SecretEvents
      BY DEF SecretEvents
    <3>2. QED
      BY <1>1, <2>1, <3>1, EnqueueWaits DEF Waits
  <2>3. ASSUME NEW a \in Accesses, access'[a].exists, access[a].op = "ignore", access'[a].op # "ignore"
        PROVE  due'[a] = 0
    <3>1. a \in AccessEvents \cup SecretEvents
      BY <2>3 DEF AccessEvents, PassesAccessFilter
    <3>2. QED
      BY <1>1, <2>1, <3>1, EnqueueWaits
  <2>4. QED
    BY <1>3, <2>1, <2>2, <2>3, OthersRenewal DEF Continues, AccessStep
<1>4. CASE Neighbour /\ ~AccessStep
  <2>1. /\ accessWorker'.pc = accessWorker.pc /\ accessWorker'.renew = accessWorker.renew
        /\ accessWorker'.failed = accessWorker.failed /\ Continues(accessWorker)
    BY <1>1, <1>4 DEF Neighbour, Surroundings, Continues, AccessPass
  <2>2. UNCHANGED <<access, secret, due>>
    BY <1>4 DEF Neighbour, Surroundings, accessPlatformVars
  <2>3. QED
    BY <1>4, <2>1, <2>2, OthersRenewal DEF Waits, AccessStep
<1>5. ASSUME NEW a \in Accesses, AccessDequeue(a) PROVE RenewalInv'
  <2>1. accessWorker.pc = "idle" /\ UNCHANGED <<access, secret>> /\ accessWorker.key = Nobody
    BY <1>5 DEF AccessDequeue, accessPlatformVars, RenewalInv, NoneAttended
  <2>2. accessWorker'.key = a /\ accessWorker'.pc = "locking"
    BY <1>5, IdleTyped DEF AccessDequeue, AccessPass
  <2>3. \A b \in Accesses \ {a} : Waits(b)
    BY <1>1, <1>5, <2>1 DEF AccessDequeue, Waits
  <2>4. RenewalInTime'
    <3> SUFFICES ASSUME NEW b \in Accesses, Settles(b)', access'[b].spec.kind = "token"
                 PROVE  \/ Attended(b)'
                        \/ secret'[b].kind = "token" /\ secret'[b].age + due'[b] <= RenewAge
      BY DEF RenewalInTime
    <3>1. CASE b = a
      BY <2>2, <3>1 DEF Attended
    <3>2. CASE b # a
      <4>1. ~(AccessStatus /\ b = accessWorker.key) /\ accessWorker.key # b
        BY <2>1, AccessAssumption
      <4>2. QED
        BY <2>1, <2>3, <3>2, <4>1, WaitingInTime DEF RenewalInv
    <3>3. QED
      BY <3>1, <3>2
  <2>5. QED
    BY <2>2, <2>4 DEF RenewalInv, Renews, NoneAttended
<1>6. ASSUME NEW a \in Accesses, Resync(a), ~AccessStep PROVE RenewalInv'
  <2>1. UNCHANGED <<access, secret, accessWorker>> /\ Enqueue({a})
    BY <1>6 DEF Resync, accessPlatformVars
  <2>2. \A b \in Accesses : Waits(b)
    BY <1>1, <2>1, EnqueueWaits DEF Waits
  <2>3. QED
    BY <1>6, <2>1, <2>2, OthersRenewal DEF Continues, AccessStep
<1>7. CASE Tick
  BY <1>7, TickRenewal
<1>8. CASE AccessRestart
  <2>1. accessWorker'.pc = "idle" /\ accessWorker'.key = Nobody
    BY <1>8 DEF AccessRestart, IdleAccessWorker
  <2>2. UNCHANGED access
    BY <1>8 DEF AccessRestart, accessPlatformVars
  <2>3. \A a \in Accesses : Settles(a)' => access'[a].op = "ignore" \/ due'[a] = 0
    BY <1>8, <2>2 DEF AccessRestart, Settles
  <2>4. QED
    BY <2>1, <2>3 DEF RenewalInv, Renews, NoneAttended, RenewalInTime, Attended
<1>9. CASE UNCHANGED accessVars /\ ~AccessStep
  BY <1>9, OthersRenewal DEF accessVars, accessPlatformVars, accessControllerVars, Waits, Continues,
     AccessStep
<1>10. QED
  BY <1>2, <1>3, <1>4, <1>5, <1>6, <1>7, <1>8, <1>9 DEF AccessNext, AccessControllerNext

\* The token of a granted AccessRequest will be renewed in time, after whatever
\* failures, deletions and restarts, if no pass finds it good at the last moment.
THEOREM RenewedInTime ==
    ASSUME "slow" \notin FaultModes
    PROVE  AccessSpec => []RenewalInTime
<1>1. AccessInit => RenewalInv
  BY DEF AccessInit, AccessPlatformInit, AccessControllerInit, IdleAccessWorker, RenewalInv,
     NoneAttended, Renews, RenewalInTime, Settles, NoAccess
<1>2. AccessInv /\ AccessInv' /\ RenewalInv /\ [AccessNext]_accessVars => RenewalInv'
  BY RenewalInductive DEF AccessInv
<1>3. RenewalInv => RenewalInTime
  BY DEF RenewalInv
<1>4. QED
  BY <1>1, <1>2, <1>3, AccessInvAlways, PTL DEF AccessSpec

-----------------------------------------------------------------------------
(***************************************************************************)
(* No AccessRequest is forgotten.                                          *)
(***************************************************************************)
\* No step but the status update of a pass changes the phase of an AccessRequest
\* that stays.
PhaseKept(a) == access[a].exists /\ access'[a].exists => access'[a].phase = access[a].phase

\* a is put in the queue, or nothing happens to it that the watch would tell of.
Noted(a) ==
    access'[a].exists /\ access'[a].op # "ignore" =>
        \/ due'[a] = 0
        \/ /\ due[a] # 0 /\ access[a].exists /\ access[a].op # "ignore"
           /\ access'[a].deleting = access[a].deleting /\ access'[a].phase = access[a].phase

\* Storing an AccessRequest with its old phase keeps that of all.
LEMMA StoreKeepsPhase ==
    ASSUME access \in [Accesses -> AccessObject], NEW a \in Accesses, NEW obj \in AccessObject,
           StoreAccess(a, obj), access[a].exists => obj.phase = access[a].phase
    PROVE  \A b \in Accesses : PhaseKept(b)
<1>1. \A b \in Accesses \ {a} : access'[b] = access[b]
  BY StoreAccessEffect
<1>2. access'[a] = IF obj.deleting /\ ~obj.own THEN NoAccess ELSE obj
  BY StoreAccessEffect
<1>3. PhaseKept(a)
  BY <1>2 DEF PhaseKept, NoAccess
<1>4. QED
  BY <1>1, <1>3 DEF PhaseKept

\* What users do to AccessRequests.
LEMMA UsersKeepPhase ==
    ASSUME AccessTypeInv, AccessUser PROVE \A b \in Accesses : PhaseKept(b)
<1> DEFINE Goal == \A b \in Accesses : PhaseKept(b)
<1>1. access \in [Accesses -> AccessObject]
  BY AccessTypes
<1>2. ASSUME NEW a \in Accesses, NEW obj \in AccessObject, Submit(a, obj),
             access[a].exists => obj.phase = access[a].phase
      PROVE  Goal
  BY <1>1, <1>2, StoreKeepsPhase DEF Submit
<1>3. ASSUME NEW a \in Accesses, NEW spec \in Specs, CreateAccess(a, spec) PROVE Goal
  <2> DEFINE obj == [NoAccess EXCEPT !.exists = TRUE, !.spec = spec]
  <2>1. obj \in AccessObject
    BY NoAccessTyped DEF AccessObject
  <2>2. Submit(a, obj) /\ ~access[a].exists
    BY <1>3 DEF CreateAccess
  <2> HIDE DEF obj
  <2>3. QED
    BY <1>2, <2>1, <2>2
<1>4. ASSUME NEW a \in Accesses, NEW spec \in Specs, ChangeSpec(a, spec) PROVE Goal
  <2> DEFINE obj == [access[a] EXCEPT !.spec = spec, !.generation = @ + 1]
  <2>1. obj \in AccessObject /\ obj.phase = access[a].phase
    <3>1. access[a] \in AccessObject /\ access[a].generation + 1 \in Nat
      BY <1>1 DEF AccessObject
    <3>2. QED
      BY <3>1 DEF AccessObject
  <2>2. Submit(a, obj)
    BY <1>4 DEF ChangeSpec
  <2> HIDE DEF obj
  <2>3. QED
    BY <1>2, <2>1, <2>2
<1>5. ASSUME NEW a \in Accesses, NEW op \in AccessOps \cup {"none"}, AnnotateAccess(a, op) PROVE Goal
  <2> DEFINE obj == [access[a] EXCEPT !.op = op]
  <2>1. obj \in AccessObject /\ obj.phase = access[a].phase
    BY <1>1, SpecsAssumption DEF AccessObject, Operations
  <2>2. Submit(a, obj)
    BY <1>5 DEF AnnotateAccess
  <2> HIDE DEF obj
  <2>3. QED
    BY <1>2, <2>1, <2>2
<1>6. ASSUME NEW a \in Accesses, DeleteAccess(a) PROVE Goal
  <2> DEFINE obj == [access[a] EXCEPT !.deleting = TRUE]
  <2>1. obj \in AccessObject /\ obj.phase = access[a].phase
    BY <1>1 DEF AccessObject
  <2>2. Submit(a, obj)
    BY <1>6 DEF DeleteAccess
  <2> HIDE DEF obj
  <2>3. QED
    BY <1>2, <2>1, <2>2
<1>7. ASSUME NEW a \in Accesses, DeleteSecret(a) PROVE Goal
  BY <1>7 DEF DeleteSecret, PhaseKept
<1>8. QED
  BY <1>3, <1>4, <1>5, <1>6, <1>7 DEF AccessUser, AccessUserNext

\* Changes that pass the predicates of the watch are all that matter.
LEMMA WatchNotes ==
    ASSUME NEW a \in Accesses, PhaseKept(a), due'[a] \in {0, due[a]},
           a \in AccessEvents => due'[a] = 0
    PROVE  Noted(a)
<1>1. CASE a \in AccessEvents
  BY <1>1 DEF Noted
<1>2. CASE a \notin AccessEvents
  BY <1>2 DEF AccessEvents, PassesAccessFilter, Noted, PhaseKept
<1>3. QED
  BY <1>1, <1>2

\* An AccessRequest that does not change needs no event.
LEMMA UnchangedNoted ==
    ASSUME NEW a \in Accesses, access'[a] = access[a], due'[a] \in {0, due[a]}
    PROVE  Noted(a)
  BY DEF Noted

\* The AccessRequest of the pass, unless it is not there or is to be left alone, has
\* been read since it was deleted, or comes back.
SeenDeleted ==
    LET w == accessWorker
        a == w.key IN
    w.pc \notin {"idle", "locking"} /\ access[a].exists /\ access[a].deleting =>
        w.deleting \/ due[a] = 0 \/ access[a].op = "ignore"

\* No pass over a deleted AccessRequest reports success, or looks for its token.
SucceedsAlive ==
    accessWorker.pc = "check" \/ (accessWorker.pc = "status" /\ ~accessWorker.failed) =>
        ~accessWorker.deleting

ForgetInv == NoneAttended /\ SeenDeleted /\ SucceedsAlive /\ NoAccessForgotten

\* AccessRequests no pass is about remain remembered.
LEMMA NotedRemembered ==
    ASSUME NoAccessForgotten, NEW a \in Accesses, Noted(a),
           accessWorker.key = a => accessWorker'.key = a,
           access'[a].exists, access'[a].deleting \/ access'[a].phase # "Granted"
    PROVE  Attended(a)'
  BY DEF NoAccessForgotten, Attended, Noted

\* A step of a pass that goes on with what it has read, or has just read.
LEMMA PassRemembers ==
    ASSUME ForgetInv, accessWorker.pc # "idle", accessWorker.key \in Accesses,
           accessWorker'.key = accessWorker.key, accessWorker'.pc # "idle",
           \A a \in Accesses : Noted(a),
           \/ accessWorker.pc # "locking" /\ accessWorker'.deleting = accessWorker.deleting
           \/ accessWorker'.deleting = access'[accessWorker.key].deleting,
           SucceedsAlive'
    PROVE  ForgetInv'
<1>1. NoAccessForgotten'
  BY NotedRemembered DEF NoAccessForgotten, ForgetInv
<1>2. SeenDeleted'
  BY DEF ForgetInv, SeenDeleted, Noted
<1>3. QED
  BY <1>1, <1>2 DEF ForgetInv, NoneAttended

\* A pass ends.
LEMMA LeaveRemembers ==
    ASSUME ForgetInv, due \in [Accesses -> 0..Never], accessWorker.key \in Accesses,
           NEW again, NEW renew \in 0..Never, AccessLeave(again, renew),
           \A a \in Accesses : a = accessWorker.key \/ access'[a] = access[a],
           LET a == accessWorker.key IN
           \/ again \/ ~access'[a].exists \/ access'[a].op = "ignore" \/ due'[a] = 0
           \/ ~access'[a].deleting /\ access'[a].phase = "Granted"
    PROVE  ForgetInv'
<1> DEFINE key == accessWorker.key
<1>1. accessWorker'.pc = "idle" /\ accessWorker'.key = Nobody
  BY DEF AccessLeave, IdleAccessWorker
<1>2. \A a \in Accesses : a # key => due'[a] \in {0, due[a]}
  BY DEF AccessLeave
<1>3. again => due'[key] = 0
  BY DEF AccessLeave
<1>4. NoAccessForgotten'
  <2> SUFFICES ASSUME NEW a \in Accesses, access'[a].exists,
                      access'[a].deleting \/ access'[a].phase # "Granted"
               PROVE  Attended(a)'
    BY DEF NoAccessForgotten
  <2>1. CASE a # key
    BY <1>2, <2>1, UnchangedNoted, NotedRemembered DEF ForgetInv
  <2>2. CASE a = key
    BY <1>3, <2>2 DEF Attended
  <2>3. QED
    BY <2>1, <2>2
<1>5. QED
  BY <1>1, <1>4 DEF ForgetInv, NoneAttended, SeenDeleted, SucceedsAlive

\* Until the finalizer is set.
LEMMA EarlyRemembers ==
    ASSUME AccessInv, AccessTypeInv', ForgetInv,
           AccessGet \/ AccessUnannotate \/ AccessResolve \/ AccessFinalize
    PROVE  ForgetInv'
<1> DEFINE a == accessWorker.key
           w == accessWorker
<1>1. /\ w \in AccessPass /\ a \in Accesses /\ access[a] \in AccessObject /\ w.pc # "idle"
      /\ access \in [Accesses -> AccessObject] /\ due \in [Accesses -> 0..Never]
      /\ w.granted \in BOOLEAN /\ Never \in 0..Never
  BY AccessTypes, TimesTyped DEF AccessInv, AccessGet, AccessUnannotate, AccessResolve, AccessFinalize,
     AccessPass
<1>2. ASSUME NEW v \in AccessPass, v.key = a, \A b \in Accesses : Noted(b),
             \/ w.pc # "locking" /\ v.deleting = w.deleting
             \/ v.deleting = access'[a].deleting,
             \/ \E pc \in {"unannotate", "resolve", "finalize", "connect"} : Go(v, pc)
             \/ AccessReport(v, TRUE)
             \/ Proceed(v) /\ ~v.deleting
      PROVE  ForgetInv'
  <2>1. Continues(v) /\ accessWorker'.pc # "idle"
        /\ (accessWorker'.pc \in {"check", "status"} => accessWorker'.failed \/ ~v.deleting)
    <3>1. CASE \E pc \in {"unannotate", "resolve", "finalize", "connect"} : Go(v, pc)
      BY <1>2, <3>1, GoEffect
    <3>2. CASE AccessReport(v, TRUE)
      BY <1>2, <3>2, ReportEffect
    <3>3. CASE Proceed(v) /\ ~v.deleting
      BY <1>2, <3>3, ProceedEffect
    <3>4. QED
      BY <1>2, <3>1, <3>2, <3>3
  <2>2. accessWorker'.pc = "check" => ~v.deleting
    <3>1. CASE \E pc \in {"unannotate", "resolve", "finalize", "connect"} : Go(v, pc)
      BY <1>2, <3>1, GoEffect
    <3>2. CASE AccessReport(v, TRUE)
      BY <1>2, <3>2, ReportEffect
    <3>3. QED
      BY <1>2, <3>1, <3>2
  <2>3. SucceedsAlive'
    BY <2>1, <2>2 DEF SucceedsAlive, Continues
  <2>4. QED
    BY <1>1, <1>2, <2>1, <2>3, PassRemembers DEF Continues
<1>3. ASSUME UNCHANGED access, UNCHANGED due \/ \E keys : Enqueue(keys)
      PROVE  \A b \in Accesses : Noted(b)
  <2>1. \A b \in Accesses : due'[b] \in {0, due[b]}
    BY <1>1, <1>3, EnqueueWaits
  <2>2. QED
    BY <1>3, <2>1, UnchangedNoted
<1>4. ASSUME NEW obj \in AccessObject, StoreAccess(a, obj), obj.phase = access[a].phase,
             Enqueue(AccessEvents)
      PROVE  \A b \in Accesses : Noted(b)
  <2>1. \A b \in Accesses : PhaseKept(b)
    BY <1>1, <1>4, StoreKeepsPhase
  <2>2. QED
    BY <1>1, <1>4, <2>1, EnqueueWaits, WatchNotes
<1>5. CASE AccessGet
  <2> DEFINE v == AccessSnapshot(w, access[a], TRUE)
  <2>1. TRUE \in BOOLEAN
    OBVIOUS
  <2>2. v \in AccessPass /\ v.key = a /\ v.deleting = access[a].deleting
    BY <1>1, <2>1, SnapshotTyped
  <2>3. /\ UNCHANGED access
        /\ \/ UNCHANGED due /\ \E pc \in {"unannotate", "resolve"} : Go(v, pc)
           \/ \E again : /\ AccessLeave(again, Never)
                         /\ again \/ ~access[a].exists \/ access[a].op = "ignore"
    BY <1>5 DEF AccessGet, accessPlatformVars
  <2> HIDE DEF v
  <2>4. ASSUME NEW again, AccessLeave(again, Never),
               again \/ ~access[a].exists \/ access[a].op = "ignore"
        PROVE  ForgetInv'
    BY <1>1, <2>3, <2>4, LeaveRemembers
  <2>5. QED
    BY <1>2, <1>3, <2>2, <2>3, <2>4
<1>6. CASE AccessUnannotate
  <2> DEFINE obj == [access[a] EXCEPT !.op = "none"]
             v == AccessSnapshot(w, obj, FALSE)
  <2>1. obj \in AccessObject /\ obj.phase = access[a].phase /\ obj.deleting = access[a].deleting
        /\ obj.own = access[a].own /\ FALSE \in BOOLEAN
    BY <1>1 DEF AccessObject, Operations
  <2>2. \/ AccessLeave(TRUE, Never) /\ (UNCHANGED access \/ StoreAccess(a, obj))
        \/ Go(v, "resolve") /\ Enqueue(AccessEvents) /\ StoreAccess(a, obj)
    BY <1>6 DEF AccessUnannotate, Applied
  <2> HIDE DEF obj
  <2>3. v \in AccessPass /\ v.key = a /\ v.deleting = obj.deleting
    BY <1>1, <2>1, SnapshotTyped
  <2> HIDE DEF v
  <2>4. \A b \in Accesses \ {a} : access'[b] = access[b]
    BY <1>1, <2>1, <2>2, StoreAccessEffect
  <2>5. CASE AccessLeave(TRUE, Never)
    BY <1>1, <2>4, <2>5, LeaveRemembers
  <2>6. CASE Go(v, "resolve") /\ Enqueue(AccessEvents) /\ StoreAccess(a, obj)
    <3>1. access'[a] = obj
      <4>1. access[a].deleting => access[a].own
        BY <1>1 DEF AccessInv, GuardedAccess, ObjectsOK
      <4>2. QED
        BY <1>1, <2>1, <2>6, <4>1, StoreAccessEffect
    <3>2. v.deleting = access'[a].deleting
      BY <2>3, <3>1
    <3>3. QED
      BY <1>2, <1>4, <2>1, <2>3, <2>6, <3>2
  <2>7. QED
    BY <2>2, <2>5, <2>6
<1>7. CASE AccessResolve
  <2>1. /\ UNCHANGED <<access, due>> /\ w.pc # "locking"
        /\ \/ AccessReport(w, TRUE) \/ Go(w, "connect") \/ Go(w, "finalize")
           \/ Proceed(w) /\ ~w.deleting
    BY <1>7 DEF AccessResolve, Dispatch, accessPlatformVars
  <2>2. QED
    BY <1>1, <1>2, <1>3, <2>1
<1>8. CASE AccessFinalize
  <2> DEFINE obj == [access[a] EXCEPT !.own = TRUE]
             snapshot == AccessSnapshot(w, obj, w.granted)
             v == [snapshot EXCEPT !.patched = obj]
  <2>1. obj \in AccessObject /\ obj.phase = access[a].phase /\ obj.deleting = access[a].deleting
        /\ obj.own
    BY <1>1 DEF AccessObject
  <2>2. /\ Enqueue(AccessEvents) /\ w.pc # "locking"
        /\ UNCHANGED access \/ StoreAccess(a, obj)
        /\ \/ AccessReport(w, TRUE)
           \/ Proceed(v) /\ ~obj.deleting /\ StoreAccess(a, obj)
    BY <1>8 DEF AccessFinalize, Applied
  <2> HIDE DEF obj
  <2>3. snapshot \in AccessPass /\ snapshot.key = a /\ snapshot.deleting = obj.deleting
    BY <1>1, <2>1, SnapshotTyped
  <2> HIDE DEF snapshot
  <2>4. v \in AccessPass /\ v.key = a /\ v.deleting = obj.deleting
    BY <2>1, <2>3 DEF AccessPass
  <2> HIDE DEF v
  <2>5. \A b \in Accesses : Noted(b)
    BY <1>3, <1>4, <2>1, <2>2
  <2>6. CASE AccessReport(w, TRUE)
    BY <1>1, <1>2, <2>2, <2>5, <2>6
  <2>7. CASE Proceed(v) /\ ~obj.deleting /\ StoreAccess(a, obj)
    <3>1. access'[a] = obj
      BY <1>1, <2>1, <2>7, StoreAccessEffect
    <3>2. v.deleting = access'[a].deleting /\ ~v.deleting
      BY <2>1, <2>4, <2>7, <3>1
    <3>3. QED
      BY <1>2, <2>4, <2>5, <2>7, <3>2
  <2>8. QED
    BY <2>2, <2>6, <2>7
<1>9. QED
  BY <1>5, <1>6, <1>7, <1>8

\* On the GKE cluster.
LEMMA MiddleRemembers ==
    ASSUME AccessInv, ForgetInv,
           \/ AccessCheck \/ AccessConnect \/ AccessAccount \/ AccessGrant \/ AccessStoreToken
           \/ AccessStoreOIDC \/ AccessList \/ AccessPurge
    PROVE  ForgetInv'
<1> DEFINE w == accessWorker
<1>1. /\ w \in AccessPass /\ w.key \in Accesses /\ w.pc \notin {"idle", "locking"}
      /\ due \in [Accesses -> 0..Never] /\ UNCHANGED access /\ AccessTypeInv
      /\ UNCHANGED due \/ \E keys : Enqueue(keys)
  BY AccessTypes DEF AccessInv, AccessCheck, AccessConnect, AccessAccount, AccessGrant,
     AccessStoreToken, AccessStoreOIDC, AccessList, AccessPurge, accessPlatformVars
<1>2. \A b \in Accesses : due'[b] \in {0, due[b]}
  BY <1>1, EnqueueWaits
<1>3. \A b \in Accesses : Noted(b)
  BY <1>1, <1>2, UnchangedNoted
<1>4. Continues(w) /\ accessWorker'.pc # "idle" /\ SucceedsAlive'
  <2>1. CASE AccessList \/ AccessPurge
    <3>1. PICK v \in AccessPass : /\ v.key = w.key /\ v.spec = w.spec /\ v.deleting = w.deleting
                                  /\ v.own = w.own /\ v.generation = w.generation
                                  /\ AfterCleanup(v) \/ Go(v, "purge")
      BY <1>1, <2>1, ListEffect, PurgeTurn
    <3>2. CASE AfterCleanup(v)
      BY <3>1, <3>2, CleanupEffect DEF Continues, SucceedsAlive
    <3>3. CASE Go(v, "purge")
      BY <3>1, <3>3, GoEffect DEF Continues, SucceedsAlive
    <3>4. QED
      BY <3>1, <3>2, <3>3
  <2>2. CASE AccessCheck
    <3>1. Continues(w) /\ accessWorker'.pc # "idle" /\ w.pc = "check"
      BY <1>1, <2>2, MakingEffect DEF AccessCheck
    <3>2. QED
      BY <3>1 DEF ForgetInv, SucceedsAlive, Continues
  <2>3. CASE /\ AccessConnect \/ AccessAccount \/ AccessGrant \/ AccessStoreToken \/ AccessStoreOIDC
             /\ ~AccessCheck
    BY <1>1, <2>3, MakingEffect DEF OnTheWay, SucceedsAlive
  <2>4. QED
    BY <2>1, <2>2, <2>3
<1>5. QED
  BY <1>1, <1>3, <1>4, PassRemembers DEF Continues

\* A pass that ends with success has granted what it read, or let it go.
LEMMA LateRemembers ==
    ASSUME AccessInv, ForgetInv, AccessRelease \/ AccessStatus
    PROVE  ForgetInv'
<1> DEFINE a == accessWorker.key
           w == accessWorker
<1>1. /\ w \in AccessPass /\ a \in Accesses /\ access[a] \in AccessObject
      /\ w.pc \notin {"idle", "locking"} /\ access \in [Accesses -> AccessObject]
      /\ due \in [Accesses -> 0..Never] /\ Never \in 0..Never /\ w.renew \in 0..Never
      /\ w.failed \in BOOLEAN
  BY AccessTypes, TimesTyped DEF AccessInv, AccessRelease, AccessStatus, AccessPass
<1>2. CASE AccessRelease
  <2> DEFINE obj == [access[a] EXCEPT !.own = FALSE]
  <2>1. access[a].deleting
    <3>1. Guarding /\ w.deleting
      BY <1>2 DEF AccessRelease, Guarding, AccessInv, GuardedAccess, Removed
    <3>2. QED
      BY <3>1 DEF AccessInv, GuardedAccess, KnowsObject, SameObject
  <2>2. obj \in AccessObject /\ obj.deleting /\ obj.own = FALSE /\ obj.phase = access[a].phase
    BY <1>1, <2>1 DEF AccessObject
  <2>3. /\ UNCHANGED access \/ StoreAccess(a, obj)
        /\ \/ AccessLeave(FALSE, Never) /\ StoreAccess(a, obj)
           \/ AccessReport(w, TRUE) /\ Enqueue(AccessEvents \cup SecretEvents)
    BY <1>2 DEF AccessRelease, Applied
  <2> HIDE DEF obj
  <2>4. \A b \in Accesses \ {a} : access'[b] = access[b]
    BY <1>1, <2>2, <2>3, StoreAccessEffect
  <2>5. CASE AccessLeave(FALSE, Never) /\ StoreAccess(a, obj)
    <3>1. access'[a] = NoAccess
      BY <1>1, <2>2, <2>5, StoreAccessEffect
    <3>2. ~access'[a].exists
      BY <3>1 DEF NoAccess
    <3>3. QED
      BY <1>1, <2>4, <2>5, <3>2, LeaveRemembers
  <2>6. CASE AccessReport(w, TRUE) /\ Enqueue(AccessEvents \cup SecretEvents)
    <3>1. Continues(w) /\ accessWorker'.pc = "status" /\ accessWorker'.failed
      BY <1>1, <2>6, ReportEffect
    <3>2. \A b \in Accesses : PhaseKept(b)
      BY <1>1, <2>2, <2>3, StoreKeepsPhase DEF PhaseKept
    <3>3. \A b \in Accesses : Noted(b)
      BY <1>1, <2>6, <3>2, EnqueueWaits, WatchNotes
    <3>4. QED
      BY <1>1, <3>1, <3>3, PassRemembers DEF Continues, SucceedsAlive
  <2>7. QED
    BY <2>3, <2>5, <2>6
<1>3. CASE AccessStatus
  <2> DEFINE obj == [access[a] EXCEPT !.phase = IF w.failed THEN "Pending" ELSE "Granted",
                                      !.observed = w.generation]
  <2>1. obj \in AccessObject /\ obj.exists = access[a].exists /\ obj.deleting = access[a].deleting
        /\ obj.op = access[a].op /\ (~w.failed => obj.phase = "Granted")
    BY <1>1 DEF AccessObject, AccessPass
  <2>2. UNCHANGED access \/ StoreAccess(a, obj)
    BY <1>3 DEF AccessStatus
  <2>3. \/ AccessLeave(TRUE, Never)
        \/ AccessLeave(FALSE, w.renew) /\ ~w.failed /\ StoreAccess(a, obj) /\ access[a].exists
    BY <1>3 DEF AccessStatus, Applied
  <2> HIDE DEF obj
  <2>4. \A b \in Accesses \ {a} : access'[b] = access[b]
    BY <1>1, <2>1, <2>2, StoreAccessEffect
  <2>5. CASE AccessLeave(TRUE, Never)
    BY <1>1, <2>4, <2>5, LeaveRemembers
  <2>6. CASE AccessLeave(FALSE, w.renew) /\ ~w.failed /\ StoreAccess(a, obj) /\ access[a].exists
    <3>1. access'[a] = IF obj.deleting /\ ~obj.own THEN NoAccess ELSE obj
      BY <1>1, <2>1, <2>6, StoreAccessEffect
    <3>2. access[a].deleting => due[a] = 0 \/ access[a].op = "ignore"
      BY <1>1, <1>3, <2>6 DEF AccessStatus, ForgetInv, SucceedsAlive, SeenDeleted
    <3>3. due[a] = 0 => due'[a] = 0
      <4>1. w.renew \in Nat
        BY <1>1, TimesTyped
      <4>2. QED
        BY <1>1, <2>6, <4>1 DEF AccessLeave
    <3>4. \/ ~access'[a].exists \/ access'[a].op = "ignore" \/ due'[a] = 0
          \/ ~access'[a].deleting /\ access'[a].phase = "Granted"
      BY <2>1, <2>6, <3>1, <3>2, <3>3 DEF NoAccess
    <3>5. QED
      BY <1>1, <2>4, <2>6, <3>4, LeaveRemembers
  <2>7. QED
    BY <2>3, <2>5, <2>6
<1>4. QED
  BY <1>2, <1>3

\* Steps of others.
LEMMA OthersRemember ==
    ASSUME ForgetInv, accessWorker.pc # "idle" => accessWorker.key \in Accesses,
           accessWorker'.pc = accessWorker.pc, accessWorker'.key = accessWorker.key,
           accessWorker'.deleting = accessWorker.deleting,
           accessWorker'.failed = accessWorker.failed, \A a \in Accesses : Noted(a)
    PROVE  ForgetInv'
<1>1. NoAccessForgotten'
  BY NotedRemembered DEF NoAccessForgotten, ForgetInv
<1>2. SeenDeleted'
  BY DEF ForgetInv, SeenDeleted, Noted
<1>3. QED
  BY <1>1, <1>2 DEF ForgetInv, NoneAttended, SucceedsAlive

\* No step forgets an AccessRequest.
LEMMA ForgetInductive ==
    ASSUME AccessInv, AccessTypeInv', ForgetInv, [AccessNext]_accessVars
    PROVE  ForgetInv'
<1>1. /\ due \in [Accesses -> 0..Never] /\ accessWorker \in AccessPass /\ AccessTypeInv
      /\ accessWorker.pc # "idle" => accessWorker.key \in Accesses
  BY AccessTypes DEF AccessInv
<1>2. CASE AccessStep
  BY <1>2, EarlyRemembers, MiddleRemembers, LateRemembers DEF AccessStep
<1>3. CASE AccessUser
  <2>1. UNCHANGED accessWorker /\ Enqueue(AccessEvents \cup SecretEvents)
    BY <1>3 DEF AccessUser
  <2>2. \A a \in Accesses : Noted(a)
    BY <1>1, <1>3, <2>1, UsersKeepPhase, EnqueueWaits, WatchNotes
  <2>3. QED
    BY <1>1, <2>1, <2>2, OthersRemember
<1>4. CASE Neighbour
  <2>1. /\ accessWorker'.pc = accessWorker.pc /\ accessWorker'.key = accessWorker.key
        /\ accessWorker'.deleting = accessWorker.deleting
        /\ accessWorker'.failed = accessWorker.failed
    BY <1>1, <1>4 DEF Neighbour, Surroundings, AccessPass
  <2>2. UNCHANGED <<access, due>>
    BY <1>4 DEF Neighbour, Surroundings, accessPlatformVars
  <2>3. \A a \in Accesses : Noted(a)
    BY <2>2, UnchangedNoted
  <2>4. QED
    BY <1>1, <2>1, <2>3, OthersRemember
<1>5. ASSUME NEW a \in Accesses, AccessDequeue(a) PROVE ForgetInv'
  <2>1. UNCHANGED access /\ accessWorker.key = Nobody
    BY <1>5 DEF AccessDequeue, accessPlatformVars, ForgetInv, NoneAttended
  <2>2. accessWorker'.key = a /\ accessWorker'.pc = "locking"
    BY <1>5, IdleTyped DEF AccessDequeue, AccessPass
  <2>3. \A b \in Accesses \ {a} : due'[b] = due[b] /\ b # Nobody
    BY <1>1, <1>5, AccessAssumption DEF AccessDequeue
  <2>4. NoAccessForgotten'
    BY <2>1, <2>2, <2>3 DEF ForgetInv, NoAccessForgotten, Attended
  <2>5. QED
    BY <2>2, <2>4 DEF ForgetInv, NoneAttended, SeenDeleted, SucceedsAlive
<1>6. ASSUME NEW a \in Accesses, Resync(a) PROVE ForgetInv'
  <2>1. UNCHANGED <<access, accessWorker>> /\ Enqueue({a})
    BY <1>6 DEF Resync, accessPlatformVars
  <2>2. \A b \in Accesses : Noted(b)
    BY <1>1, <2>1, EnqueueWaits, UnchangedNoted
  <2>3. QED
    BY <1>1, <2>1, <2>2, OthersRemember
<1>7. CASE Tick
  <2>1. UNCHANGED <<access, accessWorker>> /\ accessWorker.key = Nobody /\ accessWorker.pc = "idle"
    BY <1>7 DEF Tick, ForgetInv, NoneAttended
  <2>2. \A a \in Accesses : due[a] = 0 => due'[a] = 0
    BY <1>7 DEF Tick
  <2>3. QED
    BY <2>1, <2>2 DEF ForgetInv, NoneAttended, SeenDeleted, SucceedsAlive, NoAccessForgotten, Attended
<1>8. CASE AccessRestart
  <2>1. accessWorker'.pc = "idle" /\ accessWorker'.key = Nobody /\ UNCHANGED access
    BY <1>8 DEF AccessRestart, IdleAccessWorker, accessPlatformVars
  <2>2. \A a \in Accesses : access[a].exists => access[a].op = "ignore" \/ due'[a] = 0
    BY <1>8 DEF AccessRestart
  <2>3. QED
    BY <2>1, <2>2 DEF ForgetInv, NoneAttended, SeenDeleted, SucceedsAlive, NoAccessForgotten, Attended
<1>9. CASE UNCHANGED accessVars
  BY <1>9 DEF accessVars, accessPlatformVars, accessControllerVars, ForgetInv, NoneAttended,
     SeenDeleted, SucceedsAlive, NoAccessForgotten, Attended
<1>10. QED
  BY <1>2, <1>3, <1>4, <1>5, <1>6, <1>7, <1>8, <1>9 DEF AccessNext, AccessControllerNext

\* An AccessRequest that is not granted, or is to be deleted, is being reconciled
\* or will be, whatever fails, restarts and changes on the way.
THEOREM AccessRemembered == AccessSpec => []NoAccessForgotten
<1>1. AccessInit => ForgetInv
  BY DEF AccessInit, AccessPlatformInit, AccessControllerInit, IdleAccessWorker, ForgetInv,
     NoneAttended, SeenDeleted, SucceedsAlive, NoAccessForgotten, NoAccess
<1>2. AccessInv /\ AccessInv' /\ ForgetInv /\ [AccessNext]_accessVars => ForgetInv'
  BY ForgetInductive DEF AccessInv
<1>3. ForgetInv => NoAccessForgotten
  BY DEF ForgetInv
<1>4. QED
  BY <1>1, <1>2, <1>3, AccessInvAlways, PTL DEF AccessSpec

-----------------------------------------------------------------------------
(***************************************************************************)
(* Granted permissions stay.                                               *)
(***************************************************************************)
\* The AccessRequest is granted, in the version the pass has read.
Stands ==
    /\ access[accessWorker.key].phase = "Granted"
    /\ access[accessWorker.key].observed = accessWorker.generation

\* A pass that does without making objects has read a grant that stands; any other
\* that goes well has made all, and its cleanup leaves them alone.
KeepsWanted ==
    LET w == accessWorker
        wanted == Wanted(w.spec) IN
    /\ w.pc = "check" \/ (w.pc = "resolve" /\ w.granted /\ ~w.deleting) => w.own /\ Stands
    /\ w.pc \in {"list", "purge"} /\ ~w.deleting /\ w.connected => wanted \subseteq rbac[w.key]
    /\ w.pc = "status" /\ ~w.failed /\ w.connected => Stands \/ wanted \subseteq rbac[w.key]
    /\ w.pc = "purge" /\ ~w.deleting => wanted \cap UNION w.todo = {}

PermissionInv == Made /\ KeepsWanted

\* A pass that makes objects first, or has failed, keeps nothing yet.
LEMMA KeepsNone ==
    ASSUME \/ accessWorker'.pc \notin {"check", "resolve", "status", "list", "purge"}
           \/ accessWorker'.pc = "status" /\ accessWorker'.failed
           \/ accessWorker'.pc = "resolve" /\ ~accessWorker'.granted
    PROVE  KeepsWanted'
  BY DEF KeepsWanted

\* Until the finalizer is set.
LEMMA KeepsEarly ==
    ASSUME AccessInv, AccessTypeInv', KeepsWanted,
           AccessGet \/ AccessUnannotate \/ AccessResolve \/ AccessFinalize
    PROVE  KeepsWanted'
<1> DEFINE a == accessWorker.key
           w == accessWorker
<1>1. /\ w \in AccessPass /\ a \in Accesses /\ access[a] \in AccessObject
      /\ IdleAccessWorker.pc = "idle" /\ w.granted \in BOOLEAN
      /\ access \in [Accesses -> AccessObject]
  BY AccessTypes, IdleTyped DEF AccessInv, AccessGet, AccessUnannotate, AccessResolve, AccessFinalize,
     AccessPass
<1>2. ASSUME NEW again, NEW renew, AccessLeave(again, renew) PROVE KeepsWanted'
  BY <1>1, <1>2, KeepsNone DEF AccessLeave
<1>3. ASSUME NEW v \in AccessPass, v.key = a, Proceed(v),
             v.granted => /\ v.own
                          /\ access'[a].phase = "Granted" /\ access'[a].observed = v.generation
      PROVE  KeepsWanted'
  <2>1. /\ Continues(v)
        /\ \/ accessWorker'.pc = "connect"
           \/ accessWorker'.pc \in {"check", "status"} /\ v.granted
    BY <1>3, ProceedEffect
  <2>2. QED
    BY <1>3, <2>1 DEF KeepsWanted, Stands, Continues
<1>4. CASE AccessGet
  <2> DEFINE v == AccessSnapshot(w, access[a], TRUE)
  <2>1. TRUE \in BOOLEAN
    OBVIOUS
  <2>2. /\ v \in AccessPass /\ v.key = a /\ v.own = access[a].own
        /\ v.generation = access[a].generation /\ v.granted = (TRUE /\ Granted(access[a]))
    BY <1>1, <2>1, SnapshotTyped
  <2>3. \/ \E again : AccessLeave(again, Never)
        \/ UNCHANGED access /\ \E pc \in {"unannotate", "resolve"} : Go(v, pc)
    BY <1>4 DEF AccessGet, accessPlatformVars
  <2> HIDE DEF v
  <2>4. ASSUME NEW pc \in {"unannotate", "resolve"}, Go(v, pc), UNCHANGED access PROVE KeepsWanted'
    <3>1. Continues(v) /\ accessWorker'.pc = pc /\ accessWorker'.granted = v.granted
      BY <2>2, <2>4, GoEffect
    <3>2. v.granted => /\ access[a].own /\ access[a].phase = "Granted"
                       /\ access[a].observed = v.generation
      BY <1>1, <2>2 DEF Granted, AccessInv, GuardedAccess, ObjectsOK
    <3>3. QED
      BY <2>2, <2>4, <3>1, <3>2 DEF KeepsWanted, Stands, Continues
  <2>5. QED
    BY <1>2, <2>3, <2>4
<1>5. CASE AccessUnannotate
  <2> DEFINE obj == [access[a] EXCEPT !.op = "none"]
             v == AccessSnapshot(w, obj, FALSE)
  <2>1. obj \in AccessObject /\ FALSE \in BOOLEAN
    BY <1>1 DEF AccessObject, Operations
  <2>2. AccessLeave(TRUE, Never) \/ Go(v, "resolve")
    BY <1>5 DEF AccessUnannotate
  <2> HIDE DEF obj
  <2>3. v \in AccessPass /\ v.granted = (FALSE /\ Granted(obj))
    BY <1>1, <2>1, SnapshotTyped
  <2> HIDE DEF v
  <2>4. ASSUME Go(v, "resolve") PROVE KeepsWanted'
    BY <2>3, <2>4, GoEffect, KeepsNone
  <2>5. QED
    BY <1>2, <2>2, <2>4
<1>6. CASE AccessResolve
  <2>1. \/ AccessReport(w, TRUE) \/ Go(w, "connect") \/ Go(w, "finalize")
        \/ ~w.deleting /\ Proceed(w)
    BY <1>6 DEF AccessResolve, Dispatch
  <2>2. UNCHANGED access /\ (~w.deleting /\ w.granted => w.own /\ Stands)
    BY <1>6 DEF AccessResolve, KeepsWanted, accessPlatformVars
  <2>3. CASE AccessReport(w, TRUE)
    BY <1>1, <2>3, ReportEffect, KeepsNone
  <2>4. CASE Go(w, "connect") \/ Go(w, "finalize")
    BY <1>1, <2>4, GoEffect, KeepsNone
  <2>5. CASE ~w.deleting /\ Proceed(w)
    BY <1>1, <1>3, <2>2, <2>5 DEF Stands
  <2>6. QED
    BY <2>1, <2>3, <2>4, <2>5
<1>7. CASE AccessFinalize
  <2> DEFINE obj == [access[a] EXCEPT !.own = TRUE]
             snapshot == AccessSnapshot(w, obj, w.granted)
             v == [snapshot EXCEPT !.patched = obj]
  <2>1. obj \in AccessObject /\ obj.own
    BY <1>1 DEF AccessObject
  <2>2. \/ AccessReport(w, TRUE)
        \/ Proceed(v) /\ StoreAccess(a, obj)
    BY <1>7 DEF AccessFinalize, Applied
  <2> HIDE DEF obj
  <2>3. /\ snapshot \in AccessPass /\ snapshot.key = a /\ snapshot.own = obj.own
        /\ snapshot.generation = obj.generation
        /\ snapshot.granted = (w.granted /\ Granted(obj))
    BY <1>1, <2>1, SnapshotTyped
  <2> HIDE DEF snapshot
  <2>4. /\ v \in AccessPass /\ v.key = a /\ v.own = obj.own /\ v.generation = obj.generation
        /\ v.granted = (w.granted /\ Granted(obj))
    BY <2>1, <2>3 DEF AccessPass
  <2> HIDE DEF v
  <2>5. CASE AccessReport(w, TRUE)
    BY <1>1, <2>5, ReportEffect, KeepsNone
  <2>6. CASE Proceed(v) /\ StoreAccess(a, obj)
    <3>1. access'[a] = obj
      BY <1>1, <2>1, <2>6, StoreAccessEffect
    <3>2. QED
      BY <1>3, <2>1, <2>4, <2>6, <3>1 DEF Granted
  <2>7. QED
    BY <2>2, <2>5, <2>6
<1>8. QED
  BY <1>4, <1>5, <1>6, <1>7

\* The kubeconfig is stored, and the cleanup comes next.
LEMMA KeepsStored ==
    ASSUME AccessTypeInv, Made, AccessStoreToken \/ AccessStoreOIDC
    PROVE  KeepsWanted'
<1> DEFINE w == accessWorker
<1>1. w \in AccessPass /\ UntilRenewal(0) \in 0..Never /\ Never \in 0..Never
  BY AccessTypes, TimesTyped DEF UntilRenewal
<1>2. UNCHANGED rbac /\ (w.connected => Wanted(w.spec) \subseteq rbac[w.key])
  BY DEF AccessStoreToken, AccessStoreOIDC, Made
<1>3. CASE AccessReport(w, TRUE)
  BY <1>1, <1>3, ReportEffect, KeepsNone
<1>4. ASSUME NEW kind, NEW renew \in 0..Never, StoreKubeconfig(kind, renew) PROVE KeepsWanted'
  <2> DEFINE v == [w EXCEPT !.renew = renew]
  <2>1. v \in AccessPass /\ v.key = w.key /\ v.spec = w.spec /\ v.connected = w.connected
    BY <1>1 DEF AccessPass
  <2>2. Go(v, "list") \/ AccessReport(w, TRUE)
    BY <1>4 DEF StoreKubeconfig
  <2> HIDE DEF v
  <2>3. CASE Go(v, "list")
    <3>1. Continues(v) /\ accessWorker'.pc = "list" /\ accessWorker'.connected = v.connected
      BY <2>1, <2>3, GoEffect
    <3>2. QED
      BY <1>2, <2>1, <3>1 DEF KeepsWanted, Continues
  <2>4. QED
    BY <1>3, <2>2, <2>3
<1>5. \/ StoreKubeconfig("token", UntilRenewal(0)) \/ StoreKubeconfig("oidc", Never)
      \/ AccessReport(w, TRUE)
  BY DEF AccessStoreToken, AccessStoreOIDC
<1>6. QED
  BY <1>1, <1>3, <1>4, <1>5

\* The cleanup removes nothing the specification asks for.
LEMMA KeepsCleaned ==
    ASSUME AccessTypeInv, KeepsWanted, AccessList \/ AccessPurge
    PROVE  KeepsWanted'
<1> DEFINE a == accessWorker.key
           w == accessWorker
<1>1. w \in AccessPass /\ a \in Accesses /\ rbac \in [Accesses -> SUBSET RBACObject]
  BY AccessTypes DEF AccessList, AccessPurge
<1>2. ASSUME NEW v \in AccessPass, v.key = a, v.spec = w.spec, v.deleting = w.deleting,
             v.connected = w.connected, AfterCleanup(v) \/ Go(v, "purge"),
             ~w.deleting /\ w.connected => Wanted(w.spec) \subseteq rbac'[a],
             ~w.deleting => Wanted(w.spec) \cap UNION v.todo = {}
      PROVE  KeepsWanted'
  <2>1. CASE AfterCleanup(v)
    <3>1. /\ Continues(v)
          /\ \/ accessWorker'.pc = "release"
             \/ /\ accessWorker'.pc = "status" /\ accessWorker'.failed = v.failed
                /\ accessWorker'.connected = v.connected
                /\ v.failed \/ ~v.deleting
      BY <1>2, <2>1, CleanupEffect
    <3>2. QED
      BY <1>2, <3>1 DEF KeepsWanted, Continues
  <2>2. CASE Go(v, "purge")
    <3>1. /\ Continues(v) /\ accessWorker'.pc = "purge" /\ accessWorker'.todo = v.todo
          /\ accessWorker'.connected = v.connected
      BY <1>2, <2>2, GoEffect
    <3>2. QED
      BY <1>2, <3>1 DEF KeepsWanted, Continues
  <2>3. QED
    BY <1>2, <2>1, <2>2
<1>3. CASE AccessList
  <2>1. PICK listed \in SUBSET rbac[a], v \in AccessPass :
           /\ v.key = w.key /\ v.spec = w.spec /\ v.deleting = w.deleting
           /\ v.connected = w.connected /\ v.todo = {{x} : x \in listed}
           /\ \A x \in listed : ~ShouldKeep(x, Keep(w))
           /\ IF listed = {} THEN AfterCleanup(v) ELSE Go(v, "purge")
    BY <1>1, <1>3, ListEffect
  <2>2. ~w.deleting => Wanted(w.spec) \cap UNION v.todo = {}
    BY <2>1 DEF Keep, ShouldKeep
  <2>3. ~w.deleting /\ w.connected => Wanted(w.spec) \subseteq rbac'[a]
    BY <1>3 DEF AccessList, KeepsWanted
  <2>4. QED
    BY <1>2, <2>1, <2>2, <2>3
<1>4. CASE AccessPurge
  <2>1. PICK unit \in w.todo, v \in AccessPass, done \in SUBSET UNION w.todo :
           /\ v.key = w.key /\ v.spec = w.spec /\ v.deleting = w.deleting
           /\ v.connected = w.connected
           /\ v.todo = w.todo \ {unit} /\ rbac' = [rbac EXCEPT ![w.key] = @ \ done]
           /\ IF v.todo = {} THEN AfterCleanup(v) ELSE Go(v, "purge")
    BY <1>1, <1>4, PurgeTurn
  <2>2. /\ ~w.deleting => Wanted(w.spec) \cap UNION w.todo = {}
        /\ ~w.deleting /\ w.connected => Wanted(w.spec) \subseteq rbac[a]
    BY <1>4 DEF AccessPurge, KeepsWanted
  <2>3. rbac'[a] = rbac[a] \ done
    BY <1>1, <2>1
  <2>4. ~w.deleting /\ w.connected => Wanted(w.spec) \subseteq rbac'[a]
    BY <2>1, <2>2, <2>3
  <2>5. ~w.deleting => Wanted(w.spec) \cap UNION v.todo = {}
    BY <2>1, <2>2
  <2>6. QED
    BY <1>2, <2>1, <2>4, <2>5
<1>5. QED
  BY <1>3, <1>4

\* After the finalizer is seen.
LEMMA KeepsLate ==
    ASSUME AccessInv, AccessTypeInv', PermissionInv,
           \/ AccessCheck \/ AccessConnect \/ AccessAccount \/ AccessGrant \/ AccessStoreToken
           \/ AccessStoreOIDC \/ AccessList \/ AccessPurge \/ AccessRelease \/ AccessStatus
    PROVE  KeepsWanted'
<1> DEFINE w == accessWorker
<1>1. AccessTypeInv /\ w \in AccessPass /\ IdleAccessWorker.pc = "idle" /\ Made /\ KeepsWanted
  BY AccessTypes, IdleTyped DEF AccessInv, PermissionInv
<1>2. ASSUME NEW v \in AccessPass, AccessReport(v, TRUE) PROVE KeepsWanted'
  BY <1>2, ReportEffect, KeepsNone
<1>3. ASSUME NEW v \in AccessPass, NEW pc \in {"account", "grant", "store"}, Go(v, pc)
      PROVE  KeepsWanted'
  BY <1>3, GoEffect, KeepsNone
<1>4. CASE AccessCheck
  <2>1. Continues(w) /\ accessWorker'.pc \in {"connect", "status"} /\ UNCHANGED access
    BY <1>1, <1>4, MakingEffect
  <2>2. w.own /\ Stands
    BY <1>1, <1>4 DEF AccessCheck, KeepsWanted
  <2>3. QED
    BY <2>1, <2>2 DEF KeepsWanted, Stands, Continues
<1>5. CASE AccessConnect
  <2> DEFINE v == [w EXCEPT !.connected = TRUE]
             u == [v EXCEPT !.todo = Units(v.spec)]
  <2>1. v \in AccessPass /\ v.spec \in Specs
    BY <1>1 DEF AccessPass
  <2>2. u \in AccessPass
    <3> HIDE DEF v
    <3>1. Units(v.spec) \in SUBSET SUBSET RBACObject
      BY <2>1, WantedTyped
    <3>2. QED
      BY <2>1, <3>1 DEF AccessPass
  <2>3. \/ AccessReport(w, TRUE) \/ (v.deleting /\ Go(v, "list")) \/ Go(v, "account")
        \/ Go(u, "store") \/ Go(u, "grant")
    BY <1>5 DEF AccessConnect
  <2> HIDE DEF u, v
  <2>4. CASE v.deleting /\ Go(v, "list")
    <3>1. Continues(v) /\ accessWorker'.pc = "list"
      BY <2>1, <2>4, GoEffect
    <3>2. QED
      BY <2>4, <3>1 DEF KeepsWanted, Continues
  <2>5. QED
    BY <1>1, <1>2, <1>3, <2>1, <2>2, <2>3, <2>4
<1>6. CASE AccessAccount
  <2> DEFINE v == [w EXCEPT !.todo = Units(w.spec)]
  <2>1. v \in AccessPass
    <3>1. Units(w.spec) \in SUBSET SUBSET RBACObject
      BY <1>1, WantedTyped DEF AccessPass
    <3>2. QED
      BY <1>1, <3>1 DEF AccessPass
  <2>2. AccessReport(w, TRUE) \/ Go(v, "store") \/ Go(v, "grant")
    BY <1>6 DEF AccessAccount
  <2> HIDE DEF v
  <2>3. QED
    BY <1>1, <1>2, <1>3, <2>1, <2>2
<1>7. CASE AccessGrant
  <2>1. PICK unit \in w.todo : \E done \in SUBSET unit, failed \in BOOLEAN :
           \/ Go(Turned(unit, failed), "grant") \/ Go(Turned(unit, failed), "store")
           \/ AccessReport(Turned(unit, failed), TRUE)
    BY <1>7, GrantEffect
  <2>2. PICK failed \in BOOLEAN :
           \/ Go(Turned(unit, failed), "grant") \/ Go(Turned(unit, failed), "store")
           \/ AccessReport(Turned(unit, failed), TRUE)
    BY <2>1
  <2>3. Turned(unit, failed) \in AccessPass
    BY <1>1, TurnTyped
  <2>4. QED
    BY <1>2, <1>3, <2>2, <2>3
<1>8. CASE AccessStoreToken \/ AccessStoreOIDC \/ AccessList \/ AccessPurge
  BY <1>1, <1>8, KeepsStored, KeepsCleaned
<1>9. CASE AccessRelease \/ AccessStatus
  <2>1. (\E again, renew : AccessLeave(again, renew)) \/ AccessReport(w, TRUE)
    BY <1>9 DEF AccessRelease, AccessStatus
  <2>2. QED
    BY <1>1, <1>2, <2>1, KeepsNone DEF AccessLeave
<1>10. QED
  BY <1>4, <1>5, <1>6, <1>7, <1>8, <1>9

\* Steps of others, who may only take the GKE cluster away.
LEMMA OthersKeep ==
    ASSUME AccessInv, AccessInv', KeepsWanted, \A b \in Accesses : Persists(b) /\ PhaseKept(b),
           accessWorker.pc # "idle" => accessWorker.key \in Accesses,
           accessWorker'.pc = accessWorker.pc, accessWorker'.failed = accessWorker.failed,
           accessWorker'.todo = accessWorker.todo, accessWorker'.granted = accessWorker.granted,
           Continues(accessWorker), accessWorker'.connected => accessWorker.connected,
           accessWorker.pc # "idle" /\ accessWorker'.connected =>
               rbac'[accessWorker.key] = rbac[accessWorker.key]
    PROVE  KeepsWanted'
<1> DEFINE a == accessWorker.key
           w == accessWorker
<1>1. ASSUME Guarding, w.pc # "idle", Stands PROVE Stands'
  <2>1. Guarding'
    BY <1>1 DEF Guarding, Continues
  <2>2. access[a].own /\ access'[a].own
    BY <1>1, <2>1 DEF AccessInv, GuardedAccess, KnowsObject, SameObject, Continues
  <2>3. access[a].exists /\ access'[a].exists
    BY <1>1, <2>2 DEF AccessInv, GuardedAccess, ObjectsOK
  <2>4. QED
    BY <1>1, <2>3 DEF Stands, Persists, PhaseKept, Continues
<1>2. w.pc = "check" \/ (w.pc = "resolve" /\ w.own) \/ (w.pc = "status" /\ ~w.failed) =>
         Guarding /\ w.pc # "idle"
  BY DEF Guarding
<1>3. QED
  BY <1>1, <1>2 DEF KeepsWanted, Continues

\* Every step keeps what a grant stands for.
LEMMA KeepsInductive ==
    ASSUME AccessInv, AccessInv', PermissionInv, [AccessNext]_accessVars
    PROVE  KeepsWanted'
<1> DEFINE w == accessWorker
<1>1. /\ AccessTypeInv /\ AccessTypeInv' /\ ObjectsOK /\ KeepsWanted /\ w \in AccessPass
      /\ w.pc # "idle" => w.key \in Accesses
  BY AccessTypes DEF AccessInv, GuardedAccess, PermissionInv
<1>2. UNCHANGED access => \A b \in Accesses : Persists(b) /\ PhaseKept(b)
  BY <1>1, AccessUnchanged DEF PhaseKept
<1>3. ASSUME accessWorker'.pc \in {"idle", "locking"} PROVE KeepsWanted'
  BY <1>3, KeepsNone
<1>4. CASE AccessStep
  BY <1>1, <1>4, KeepsEarly, KeepsLate DEF AccessStep
<1>5. CASE AccessUser
  <2>1. \A b \in Accesses : Persists(b) /\ PhaseKept(b)
    BY <1>1, <1>5, AccessUserGuarded, UsersKeepPhase
  <2>2. UNCHANGED <<rbac, accessWorker>>
    BY <1>5 DEF AccessUser
  <2>3. QED
    BY <1>1, <2>1, <2>2, OthersKeep DEF Continues
<1>6. CASE Neighbour
  <2>1. /\ accessWorker'.pc = w.pc /\ accessWorker'.failed = w.failed
        /\ accessWorker'.todo = w.todo /\ accessWorker'.granted = w.granted /\ Continues(w)
        /\ accessWorker'.connected => w.connected /\ api'[ClusterOf[w.key]] # "absent"
    BY <1>1, <1>6 DEF Neighbour, Surroundings, AccessPass, Continues
  <2>2. w.pc # "idle" /\ accessWorker'.connected => rbac'[w.key] = rbac[w.key]
    BY <1>1, <1>6, <2>1 DEF Neighbour, Surroundings
  <2>3. UNCHANGED access
    BY <1>6 DEF Neighbour, Surroundings, accessPlatformVars
  <2>4. QED
    BY <1>1, <1>2, <2>1, <2>2, <2>3, OthersKeep
<1>7. ASSUME UNCHANGED <<access, rbac, accessWorker>> PROVE KeepsWanted'
  BY <1>1, <1>7 DEF KeepsWanted, Stands
<1>8. ASSUME NEW a \in Accesses, AccessDequeue(a) PROVE KeepsWanted'
  BY <1>3, <1>8, IdleTyped DEF AccessDequeue, AccessPass
<1>9. CASE AccessRestart
  BY <1>3, <1>9, IdleTyped DEF AccessRestart
<1>10. QED
  BY <1>4, <1>5, <1>6, <1>7, <1>8, <1>9 DEF AccessNext, AccessControllerNext, Resync, Tick,
     accessVars, accessPlatformVars, accessControllerVars

\* Only the cleanup of a's own pass takes objects away, and the GKE cluster's end.
LEMMA OnlyPurgeRemoves ==
    ASSUME AccessTypeInv, [AccessNext]_accessVars, NEW a \in Accesses
    PROVE  \/ rbac[a] \subseteq rbac'[a]
           \/ api'[ClusterOf[a]] = "absent"
           \/ AccessPurge /\ a = accessWorker.key
<1>1. rbac \in [Accesses -> SUBSET RBACObject]
  BY AccessTypes
<1>2. CASE AccessAccount
  BY <1>1, <1>2 DEF AccessAccount
<1>3. CASE AccessGrant
  <2>1. \E done : rbac' = [rbac EXCEPT ![accessWorker.key] = @ \cup done]
    BY <1>3 DEF AccessGrant
  <2>2. QED
    BY <1>1, <2>1
<1>4. CASE AccessPurge
  <2>1. \E done : rbac' = [rbac EXCEPT ![accessWorker.key] = @ \ done]
    BY <1>4 DEF AccessPurge
  <2>2. QED
    BY <1>1, <1>4, <2>1
<1>5. CASE Neighbour
  BY <1>1, <1>5 DEF Neighbour, Surroundings
<1>6. QED
  BY <1>2, <1>3, <1>4, <1>5
     DEF AccessNext, AccessControllerNext, AccessStep, AccessGet, AccessUnannotate, AccessResolve,
         AccessFinalize, AccessCheck, AccessConnect, AccessStoreToken, AccessStoreOIDC, AccessList,
         AccessRelease, AccessStatus, AccessDequeue, Resync, Tick, AccessRestart, AccessUser, accessVars,
         accessControllerVars

\* What a is granted, or remains granted, is there.
Permitted(a) ==
    LET wanted == Wanted(access'[a].spec) IN
    IF Settles(a)
    THEN wanted \cap rbac[a] \subseteq rbac'[a] \/ api'[ClusterOf[a]] = "absent"
    ELSE wanted \subseteq rbac'[a] \/ ~accessWorker.connected

\* See GrantedPermissions.
LEMMA GrantsPermit ==
    ASSUME AccessInv, AccessTypeInv', PermissionInv, [AccessNext]_accessVars, NEW a \in Accesses,
           Settles(a)'
    PROVE  Permitted(a)
<1> DEFINE w == accessWorker
<1>1. /\ AccessTypeInv /\ KeepsWanted
      /\ \/ Settles(a) /\ access'[a].spec = access[a].spec
         \/ AccessStatus /\ a = w.key
  BY OnlyStatusSettles DEF AccessInv, PermissionInv
<1>2. CASE Settles(a)
  <2>1. access'[a].spec = access[a].spec
    BY <1>1, StatusSettles
  <2>2. CASE AccessPurge /\ a = w.key
    <3>1. Guarding /\ w.pc = "purge"
      BY <2>2 DEF AccessPurge, Guarding
    <3>2. access[a].spec = w.spec /\ ~w.deleting
      BY <1>2, <2>2, <3>1, SettledIsRead
         DEF AccessInv, GuardedAccess, KnowsObject, SameObject, Settles
    <3>3. Wanted(w.spec) \cap UNION w.todo = {}
      BY <1>1, <3>1, <3>2 DEF KeepsWanted
    <3>4. \E done \in SUBSET UNION w.todo : rbac' = [rbac EXCEPT ![w.key] = @ \ done]
      BY <1>1, <2>2, PurgeTurn
    <3>5. Wanted(w.spec) \cap rbac[a] \subseteq rbac'[a]
      BY <1>1, <2>2, <3>3, <3>4, AccessTypes
    <3>6. QED
      BY <1>2, <2>1, <3>2, <3>5 DEF Permitted
  <2>3. QED
    BY <1>1, <1>2, <2>2, OnlyPurgeRemoves DEF Permitted
<1>3. CASE ~Settles(a)
  <2>1. AccessStatus /\ a = w.key
    BY <1>1, <1>3
  <2>2. /\ access'[a].spec = w.spec /\ ~w.failed /\ w.generation = access[a].generation
        /\ access[a].exists /\ ~access[a].deleting
    BY <1>3, <2>1, StatusSettles
  <2>3. ~Stands
    BY <1>3, <2>1, <2>2 DEF Stands, Settles, Granted
  <2>4. w.connected => Wanted(w.spec) \subseteq rbac[a]
    BY <1>1, <2>1, <2>2, <2>3 DEF AccessStatus, KeepsWanted
  <2>5. UNCHANGED rbac
    BY <2>1 DEF AccessStatus
  <2>6. QED
    BY <1>3, <2>2, <2>4, <2>5 DEF Permitted
<1>4. QED
  BY <1>2, <1>3

\* A granted AccessRequest has been given all it asks for, and the provider takes
\* nothing of it away while it is granted, whatever is cleaned up beside it.
THEOREM PermissionsKept == AccessSpec => GrantedPermissions
<1> DEFINE Kept == \A a \in Accesses : Settles(a)' => Permitted(a)
<1>1. AccessInit => PermissionInv
  BY IdleTyped DEF AccessInit, AccessControllerInit, PermissionInv, Made, KeepsWanted
<1>2. AccessInv /\ AccessInv' /\ PermissionInv /\ [AccessNext]_accessVars => PermissionInv'
  BY KeepsInductive, MadeInductive DEF AccessInv, PermissionInv
<1>3. AccessInv /\ AccessInv' /\ PermissionInv /\ [AccessNext]_accessVars => [Kept]_accessVars
  BY GrantsPermit DEF AccessInv
<1>4. AccessSpec => [][Kept]_accessVars
  BY <1>1, <1>2, <1>3, AccessInvAlways, PTL DEF AccessSpec
<1>5. [Kept]_accessVars =>
         [\A a \in Accesses :
             Settles(a)' =>
                 LET wanted == Wanted(access'[a].spec) IN
                 IF Settles(a)
                 THEN wanted \cap rbac[a] \subseteq rbac'[a] \/ api'[ClusterOf[a]] = "absent"
                 ELSE wanted \subseteq rbac'[a] \/ ~accessWorker.connected]_accessVars
  BY DEF Permitted
<1>6. QED
  BY <1>4, <1>5, PTL DEF GrantedPermissions

-----------------------------------------------------------------------------
(***************************************************************************)
(* AccessRequests follow the finalizer protocol.                           *)
(***************************************************************************)
LiveAccesses == {a \in Accesses : access[a].exists}
GuardedAccesses == {a \in Accesses : access[a].own}
ExternalAccesses == {a \in Accesses : rbac[a] # {}}

AccessProtocolStep ==
    [AccessFinalizers!ProtocolNext]_<<LiveAccesses, GuardedAccesses, ExternalAccesses>>

\* Storing an AccessRequest that keeps its finalizer, or gains one, is a protocol step.
LEMMA StoreAccessStep ==
    ASSUME AccessInv, NEW a \in Accesses, NEW obj \in AccessObject, StoreAccess(a, obj),
           obj.own # access[a].own => obj.own /\ access[a].exists,
           obj.exists # access[a].exists => obj.exists /\ ~obj.deleting /\ ~obj.own,
           UNCHANGED rbac
    PROVE  AccessProtocolStep
<1>1. access \in [Accesses -> AccessObject] /\ ObjectsOK
  BY AccessTypes DEF AccessInv, GuardedAccess
<1>2. /\ \A b \in Accesses \ {a} : access'[b] = access[b]
      /\ access'[a] = IF obj.deleting /\ ~obj.own THEN NoAccess ELSE obj
  BY <1>1, StoreAccessEffect
<1>3. UNCHANGED ExternalAccesses
  BY DEF ExternalAccesses
<1>4. ~NoAccess.own /\ ~NoAccess.exists
  BY DEF NoAccess
<1>5. CASE obj.own # access[a].own
  <2>1. /\ GuardedAccesses' = GuardedAccesses \cup {a} /\ UNCHANGED LiveAccesses
        /\ a \in LiveAccesses
    BY <1>1, <1>2, <1>4, <1>5 DEF GuardedAccesses, LiveAccesses, AccessObject
  <2>2. QED
    BY <1>3, <2>1 DEF AccessProtocolStep, AccessFinalizers!ProtocolNext,
       AccessFinalizers!Guard, LiveAccesses, GuardedAccesses, ExternalAccesses
<1>6. CASE obj.own = access[a].own
  <2>1. UNCHANGED GuardedAccesses
    BY <1>1, <1>2, <1>4, <1>6 DEF GuardedAccesses, AccessObject
  <2>2. \/ UNCHANGED LiveAccesses
        \/ LiveAccesses' = LiveAccesses \cup {a} /\ a \notin LiveAccesses
        \/ LiveAccesses' = LiveAccesses \ {a} /\ a \in LiveAccesses \ GuardedAccesses
    BY <1>1, <1>2, <1>4, <1>6 DEF GuardedAccesses, LiveAccesses, AccessObject
  <2>3. QED
    BY <1>3, <2>1, <2>2 DEF AccessProtocolStep, AccessFinalizers!ProtocolNext,
       AccessFinalizers!Appear, AccessFinalizers!Disappear,
       LiveAccesses, GuardedAccesses, ExternalAccesses
<1>7. QED
  BY <1>5, <1>6

\* A step that leaves AccessRequests alone, and adds nothing on a GKE cluster but for
\* a guarded one, acquires or disposes.
LEMMA RBACStep ==
    ASSUME UNCHANGED LiveAccesses, UNCHANGED GuardedAccesses,
           \/ \A b \in Accesses : rbac'[b] \subseteq rbac[b]
           \/ \E a \in Accesses : /\ a \in GuardedAccesses
                                  /\ \A b \in Accesses : b = a \/ rbac'[b] = rbac[b]
    PROVE  AccessProtocolStep
<1>1. CASE \A b \in Accesses : rbac'[b] \subseteq rbac[b]
  <2> DEFINE gone == ExternalAccesses \ ExternalAccesses'
  <2>1. ExternalAccesses' = ExternalAccesses \ gone /\ gone \in SUBSET Accesses
    BY <1>1 DEF ExternalAccesses
  <2> HIDE DEF gone
  <2>2. QED
    BY <2>1 DEF AccessProtocolStep, AccessFinalizers!ProtocolNext, AccessFinalizers!Dispose,
       LiveAccesses, GuardedAccesses, ExternalAccesses
<1>2. ASSUME NEW a \in Accesses, a \in GuardedAccesses,
             \A b \in Accesses : b = a \/ rbac'[b] = rbac[b]
      PROVE  AccessProtocolStep
  <2>1. CASE rbac'[a] # {}
    <3>1. ExternalAccesses' = ExternalAccesses \cup {a}
      BY <1>2, <2>1 DEF ExternalAccesses
    <3>2. AccessFinalizers!Acquire(a)
      BY <1>2, <3>1 DEF AccessFinalizers!Acquire, LiveAccesses, GuardedAccesses, ExternalAccesses
    <3>3. QED
      BY <3>2 DEF AccessProtocolStep, AccessFinalizers!ProtocolNext
  <2>2. CASE rbac'[a] = {}
    <3>1. ExternalAccesses' = ExternalAccesses \ {a} /\ {a} \in SUBSET Accesses
      BY <1>2, <2>2 DEF ExternalAccesses
    <3>2. AccessFinalizers!Dispose({a})
      BY <3>1 DEF AccessFinalizers!Dispose, LiveAccesses, GuardedAccesses, ExternalAccesses
    <3>3. QED
      BY <3>1, <3>2 DEF AccessProtocolStep, AccessFinalizers!ProtocolNext
  <2>3. QED
    BY <2>1, <2>2
<1>3. QED
  BY <1>1, <1>2

\* A step that changes neither is a stutter.
LEMMA AccessStutter == ASSUME UNCHANGED <<access, rbac>> PROVE AccessProtocolStep
  BY DEF AccessProtocolStep, LiveAccesses, GuardedAccesses, ExternalAccesses

\* What users do is a protocol step.
LEMMA UserAccessStep == ASSUME AccessInv, AccessUser PROVE AccessProtocolStep
<1>1. access \in [Accesses -> AccessObject] /\ ObjectsOK /\ UNCHANGED rbac
  BY AccessTypes DEF AccessInv, GuardedAccess, AccessUser
<1>2. ASSUME NEW a \in Accesses, NEW obj \in AccessObject, obj.own = access[a].own,
             obj.exists = access[a].exists, Submit(a, obj)
      PROVE  AccessProtocolStep
  BY <1>1, <1>2, StoreAccessStep DEF Submit
<1>3. ASSUME NEW a \in Accesses, NEW spec \in Specs, CreateAccess(a, spec) PROVE AccessProtocolStep
  <2> DEFINE obj == [NoAccess EXCEPT !.exists = TRUE, !.spec = spec]
  <2>1. obj \in AccessObject
    BY NoAccessTyped DEF AccessObject
  <2>2. obj.own = FALSE /\ obj.exists /\ obj.deleting = FALSE /\ StoreAccess(a, obj)
    BY <1>3 DEF NoAccess, CreateAccess, Submit
  <2>3. access[a].own = FALSE
    BY <1>1, <1>3 DEF CreateAccess, ObjectsOK, AccessObject
  <2> HIDE DEF obj
  <2>4. QED
    BY <1>1, <2>1, <2>2, <2>3, StoreAccessStep
<1>4. ASSUME NEW a \in Accesses, NEW spec \in Specs, ChangeSpec(a, spec) PROVE AccessProtocolStep
  <2> DEFINE obj == [access[a] EXCEPT !.spec = spec, !.generation = @ + 1]
  <2>1. obj \in AccessObject /\ obj.own = access[a].own /\ obj.exists = access[a].exists
    <3>1. access[a] \in AccessObject /\ access[a].generation + 1 \in Nat
      BY <1>1 DEF AccessObject
    <3>2. QED
      BY <3>1 DEF AccessObject
  <2>2. Submit(a, obj)
    BY <1>4 DEF ChangeSpec
  <2> HIDE DEF obj
  <2>3. QED
    BY <1>2, <2>1, <2>2
<1>5. ASSUME NEW a \in Accesses, NEW op \in AccessOps \cup {"none"}, AnnotateAccess(a, op)
      PROVE  AccessProtocolStep
  <2> DEFINE obj == [access[a] EXCEPT !.op = op]
  <2>1. obj \in AccessObject /\ obj.own = access[a].own /\ obj.exists = access[a].exists
    BY <1>1, SpecsAssumption DEF AccessObject, Operations
  <2>2. Submit(a, obj)
    BY <1>5 DEF AnnotateAccess
  <2> HIDE DEF obj
  <2>3. QED
    BY <1>2, <2>1, <2>2
<1>6. ASSUME NEW a \in Accesses, DeleteAccess(a) PROVE AccessProtocolStep
  <2> DEFINE obj == [access[a] EXCEPT !.deleting = TRUE]
  <2>1. obj \in AccessObject /\ obj.own = access[a].own /\ obj.exists = access[a].exists
    BY <1>1 DEF AccessObject
  <2>2. Submit(a, obj)
    BY <1>6 DEF DeleteAccess
  <2> HIDE DEF obj
  <2>3. QED
    BY <1>2, <2>1, <2>2
<1>7. ASSUME NEW a \in Accesses, DeleteSecret(a) PROVE AccessProtocolStep
  BY <1>1, <1>7, AccessStutter DEF DeleteSecret
<1>8. QED
  BY <1>3, <1>4, <1>5, <1>6, <1>7 DEF AccessUser, AccessUserNext

\* Every step of a pass is a protocol step: it works on the GKE cluster only for an
\* AccessRequest whose finalizer it has seen, and lets go of one with nothing left.
LEMMA AccessPassStep == ASSUME AccessInv, AccessTypeInv', AccessStep PROVE AccessProtocolStep
<1> DEFINE a == accessWorker.key
           w == accessWorker
<1>1. /\ access \in [Accesses -> AccessObject] /\ rbac \in [Accesses -> SUBSET RBACObject]
      /\ AccessTypeInv /\ ObjectsOK /\ w \in AccessPass
  BY AccessTypes DEF AccessInv, GuardedAccess
<1>2. w.pc # "idle" => a \in Accesses /\ access[a] \in AccessObject
  BY <1>1, AccessTypes
<1>3. ASSUME w.pc # "idle", NEW obj \in AccessObject, UNCHANGED access \/ StoreAccess(a, obj),
             obj.own = access[a].own, obj.exists = access[a].exists, UNCHANGED rbac
      PROVE  AccessProtocolStep
  BY <1>2, <1>3, StoreAccessStep, AccessStutter
<1>4. CASE AccessGet \/ AccessResolve
  BY <1>4, AccessStutter DEF AccessGet, AccessResolve, accessPlatformVars
<1>5. CASE AccessUnannotate
  <2> DEFINE obj == [access[a] EXCEPT !.op = "none"]
  <2>1. /\ w.pc # "idle" /\ UNCHANGED rbac
        /\ UNCHANGED access \/ StoreAccess(a, obj)
    BY <1>5 DEF AccessUnannotate
  <2>2. obj \in AccessObject /\ obj.own = access[a].own /\ obj.exists = access[a].exists
    BY <1>2, <2>1 DEF AccessObject, Operations
  <2> HIDE DEF obj
  <2>3. QED
    BY <1>3, <2>1, <2>2
<1>6. CASE AccessFinalize
  <2> DEFINE obj == [access[a] EXCEPT !.own = TRUE]
  <2>1. /\ w.pc # "idle" /\ UNCHANGED rbac
        /\ UNCHANGED access \/ (StoreAccess(a, obj) /\ obj.exists)
    BY <1>6 DEF AccessFinalize
  <2>2. obj \in AccessObject /\ obj.own /\ obj.exists = access[a].exists
    BY <1>2, <2>1 DEF AccessObject
  <2> HIDE DEF obj
  <2>3. QED
    BY <1>2, <2>1, <2>2, StoreAccessStep, AccessStutter
<1>7. CASE \/ AccessCheck \/ AccessConnect \/ AccessAccount \/ AccessGrant \/ AccessStoreToken
           \/ AccessStoreOIDC \/ AccessList \/ AccessPurge
  <2>1. UNCHANGED access /\ w.pc # "idle" /\ Guarding
    BY <1>7 DEF AccessCheck, AccessConnect, AccessAccount, AccessGrant, AccessStoreToken,
       AccessStoreOIDC, AccessList, AccessPurge, accessPlatformVars, Guarding
  <2>2. a \in Accesses /\ a \in GuardedAccesses
    BY <1>2, <2>1 DEF AccessInv, GuardedAccess, KnowsObject, SameObject, GuardedAccesses
  <2>3. \A b \in Accesses : b = a \/ rbac'[b] = rbac[b]
    <3>1. CASE AccessList
      BY <3>1 DEF AccessList
    <3>2. CASE AccessPurge
      <4>1. PICK unit, done : rbac' = [rbac EXCEPT ![a] = @ \ done]
        BY <1>1, <3>2, PurgeTurn
      <4>2. QED
        BY <1>1, <4>1
    <3>3. CASE \/ AccessCheck \/ AccessConnect \/ AccessAccount \/ AccessGrant \/ AccessStoreToken
               \/ AccessStoreOIDC
      BY <1>1, <3>3, MakingEffect
    <3>4. QED
      BY <1>7, <3>1, <3>2, <3>3
  <2>4. UNCHANGED LiveAccesses /\ UNCHANGED GuardedAccesses
    BY <2>1 DEF LiveAccesses, GuardedAccesses
  <2>5. QED
    BY <2>2, <2>3, <2>4, RBACStep
<1>8. CASE AccessRelease
  <2> DEFINE obj == [access[a] EXCEPT !.own = FALSE]
  <2>1. /\ w.pc # "idle" /\ UNCHANGED rbac
        /\ UNCHANGED access \/ StoreAccess(a, obj)
    BY <1>8 DEF AccessRelease
  <2>2. access[a].own /\ access[a].deleting /\ rbac[a] = {}
    BY <1>8 DEF AccessRelease, AccessInv, GuardedAccess, KnowsObject, Guarding, Removed, SameObject
  <2>3. obj \in AccessObject /\ obj.own = FALSE /\ obj.deleting
    BY <1>2, <2>1, <2>2 DEF AccessObject
  <2> HIDE DEF obj
  <2>4. CASE StoreAccess(a, obj)
    <3>1. (\A b \in Accesses \ {a} : access'[b] = access[b]) /\ access'[a] = NoAccess
      BY <1>1, <1>2, <2>1, <2>3, <2>4, StoreAccessEffect
    <3>2. ~NoAccess.own /\ ~NoAccess.exists
      BY DEF NoAccess
    <3>3. /\ a \in Accesses /\ a \in GuardedAccesses \ ExternalAccesses
          /\ GuardedAccesses' = GuardedAccesses \ {a} /\ LiveAccesses' = LiveAccesses \ {a}
          /\ UNCHANGED ExternalAccesses
      BY <1>2, <2>1, <2>2, <3>1, <3>2 DEF GuardedAccesses, LiveAccesses, ExternalAccesses
    <3>4. QED
      BY <3>3 DEF AccessProtocolStep, AccessFinalizers!ProtocolNext,
         AccessFinalizers!Release, LiveAccesses, GuardedAccesses, ExternalAccesses
  <2>5. QED
    BY <2>1, <2>4, AccessStutter
<1>9. CASE AccessStatus
  <2> DEFINE obj == [access[a] EXCEPT !.phase = IF w.failed THEN "Pending" ELSE "Granted",
                                      !.observed = w.generation]
  <2>1. /\ w.pc # "idle" /\ UNCHANGED rbac
        /\ UNCHANGED access \/ StoreAccess(a, obj)
    BY <1>9 DEF AccessStatus
  <2>2. obj \in AccessObject /\ obj.own = access[a].own /\ obj.exists = access[a].exists
    BY <1>1, <1>2, <2>1 DEF AccessObject, AccessPass
  <2> HIDE DEF obj
  <2>3. QED
    BY <1>3, <2>1, <2>2
<1>10. QED
  BY <1>4, <1>5, <1>6, <1>7, <1>8, <1>9 DEF AccessStep

\* The AccessRequest controller implements the finalizer protocol, like the two
\* others: it makes objects on GKE clusters for guarded AccessRequests only, and lets
\* go of none that has some left.
THEOREM AccessControllerRefines == AccessSpec => AccessFinalizerProtocol
<1>1. AccessInit => AccessFinalizers!ProtocolInit
  BY DEF AccessInit, AccessPlatformInit, AccessControllerInit, NoAccess,
     AccessFinalizers!ProtocolInit
<1>2. AccessInv /\ AccessInv' /\ [AccessNext]_accessVars => AccessProtocolStep
  <2> SUFFICES ASSUME AccessInv, AccessInv', [AccessNext]_accessVars PROVE AccessProtocolStep
    OBVIOUS
  <2>1. CASE Neighbour
    <3>1. UNCHANGED access /\ \A b \in Accesses : rbac'[b] \subseteq rbac[b]
      BY <2>1 DEF Neighbour, Surroundings, accessPlatformVars
    <3>2. QED
      BY <3>1, RBACStep DEF LiveAccesses, GuardedAccesses
  <2>2. CASE \/ Tick \/ AccessRestart \/ UNCHANGED accessVars
             \/ \E a \in Accesses : AccessDequeue(a) \/ Resync(a)
    BY <2>2, AccessStutter DEF Tick, AccessRestart, AccessDequeue, Resync, accessPlatformVars,
       accessControllerVars, accessVars
  <2>3. QED
    BY <2>1, <2>2, UserAccessStep, AccessPassStep DEF AccessNext, AccessControllerNext, AccessInv
<1>3. AccessProtocolStep <=> [AccessFinalizers!ProtocolNext]_(AccessFinalizers!protocolVars)
  BY DEF AccessProtocolStep, AccessFinalizers!protocolVars,
         LiveAccesses, GuardedAccesses, ExternalAccesses
<1>4. QED
  BY <1>1, <1>2, <1>3, AccessInvAlways, PTL
     DEF AccessSpec, AccessFinalizerProtocol, AccessFinalizers!ProtocolSpec
=============================================================================
