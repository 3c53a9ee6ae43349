---------------------------- MODULE AccessPlatform ----------------------------
(***************************************************************************)
(* The platform cluster's API server as far as access is concerned: the    *)
(* AccessRequest resources assigned to this provider, the Secrets with the *)
(* kubeconfigs made for them, and what users do to either.  External.      *)
(***************************************************************************)
EXTENDS Faults

CONSTANTS
    Accesses,       \* AccessRequests (namespace/name) labelled for this provider
    ClusterOf,      \* ClusterOf[a]: the Cluster of a's spec.clusterRef
    Specs,          \* what an AccessRequest may ask for
    RoleNames,      \* names of roles and bindings on a GKE cluster
    AccessOps,      \* values users set for the operation annotation
    RenewAge,       \* age at which a token is due for renewal, in ticks of the clock
    MaxGeneration   \* changes of a specification: the bound on `generation'

ASSUME AccessAssumption ==
    /\ ClusterOf \in [Accesses -> Clusters]
    /\ \A a \in Accesses : ProfileOf[ClusterOf[a]] \notin Relocatable
    /\ Nobody \notin Accesses
    /\ "AccessRequest" \in Readers

\* spec.token: permissions make a role and a binding of it, roleRefs a binding;
\* spec.oidc: roles make a role, roleBindings a binding.
ASSUME SpecsAssumption ==
    /\ Specs # {}
    /\ Specs \subseteq [kind : {"token", "oidc"}, roles : SUBSET RoleNames,
                        bindings : SUBSET RoleNames]
    /\ AccessOps \subseteq Operations

ASSUME RenewalAssumption == RenewAge \in Nat \ {0}

VARIABLES
    access,    \* access[a]: the AccessRequest a
    secret     \* secret[a]: the Secret with a's kubeconfig

accessPlatformVars == <<access, secret>>

\* observed: status.observedGeneration; phase "None" before the first update.
AccessObject ==
    [exists : BOOLEAN, deleting : BOOLEAN, own : BOOLEAN, op : Operations,
     spec : Specs, generation : Nat, observed : Nat,
     phase : {"None", "Pending", "Granted"}]

NoAccess ==
    [exists |-> FALSE, deleting |-> FALSE, own |-> FALSE, op |-> "none",
     spec |-> CHOOSE spec \in Specs : TRUE, generation |-> 1, observed |-> 0,
     phase |-> "None"]

\* age: of the token in it; a Secret made for OIDC holds no timestamps.
SecretObject == [kind : {"absent", "token", "oidc"}, age : 0..RenewAge]

NewSecret(kind) == [kind |-> kind, age |-> 0]

AccessPlatformType ==
    /\ access \in [Accesses -> AccessObject]
    /\ secret \in [Accesses -> SecretObject]

AccessPlatformInit ==
    /\ access = [a \in Accesses |-> NoAccess]
    /\ secret = [a \in Accesses |-> NewSecret("absent")]

\* An AccessRequest marked for deletion disappears with the finalizer.
StoreAccess(a, obj) ==
    access' = [access EXCEPT ![a] = IF obj.deleting /\ ~obj.own THEN NoAccess ELSE obj]

\* The garbage collector removes a Secret with the AccessRequest that owns it.
StoreSecret(a, obj) ==
    secret' = [secret EXCEPT ![a] = IF access'[a].exists THEN obj ELSE NewSecret("absent")]

-----------------------------------------------------------------------------
\* A user, or another controller, changes the AccessRequest.
Submit(a, obj) == StoreAccess(a, obj) /\ StoreSecret(a, secret[a])

CreateAccess(a, spec) ==
    /\ ~access[a].exists
    /\ Submit(a, [NoAccess EXCEPT !.exists = TRUE, !.spec = spec])

ChangeSpec(a, spec) ==
    /\ access[a].exists
    /\ access[a].generation < MaxGeneration
    /\ spec # access[a].spec
    /\ Submit(a, [access[a] EXCEPT !.spec = spec, !.generation = @ + 1])

AnnotateAccess(a, op) ==
    /\ access[a].exists
    /\ op # access[a].op
    /\ Submit(a, [access[a] EXCEPT !.op = op])

DeleteAccess(a) ==
    /\ access[a].exists
    /\ ~access[a].deleting
    /\ Submit(a, [access[a] EXCEPT !.deleting = TRUE])

DeleteSecret(a) ==
    /\ secret[a].kind # "absent"
    /\ secret' = [secret EXCEPT ![a] = NewSecret("absent")]
    /\ UNCHANGED access

AccessUserNext ==
    /\ \E a \in Accesses :
        \/ \E spec \in Specs : CreateAccess(a, spec) \/ ChangeSpec(a, spec)
        \/ \E op \in AccessOps \cup {"none"} : AnnotateAccess(a, op)
        \/ DeleteAccess(a)
        \/ DeleteSecret(a)
    /\ UNCHANGED faults
=============================================================================
