--------------------------- MODULE PlatformCluster ---------------------------
(***************************************************************************)
(* The platform cluster's API server: the ProviderConfig, Cluster and      *)
(* ClusterProfile resources, and what their users do to them.  External.   *)
(* `own' says whether the provider's finalizer (ProviderConfigFinalizer or *)
(* ClusterFinalizer) is on the resource, `foreign' which other ones are.   *)
(***************************************************************************)
EXTENDS Faults

VARIABLES
    config,          \* config[n]: the ProviderConfig n
    cluster,         \* cluster[c]: the Cluster c
    clusterProfile   \* clusterProfile[n]: the ClusterProfile made from config n

platformVars == <<config, cluster, clusterProfile>>

ConfigObject ==
    [exists : BOOLEAN, deleting : BOOLEAN, own : BOOLEAN,
     op : Operations, location : Locations]

\* labelled: the version and provider labels are set; endpoint: status.endpoints
\* holds the API server; phase: status.phase, "None" before the first update.
ClusterObject ==
    [exists : BOOLEAN, deleting : BOOLEAN, own : BOOLEAN, foreign : SUBSET Foreign,
     op : Operations, labelled : BOOLEAN, endpoint : BOOLEAN,
     phase : {"None", "Progressing", "Ready", "Terminating"}]

NoConfig(n) ==
    [exists |-> FALSE, deleting |-> FALSE, own |-> FALSE,
     op |-> "none", location |-> Home[n]]

NoCluster ==
    [exists |-> FALSE, deleting |-> FALSE, own |-> FALSE, foreign |-> {},
     op |-> "none", labelled |-> FALSE, endpoint |-> FALSE, phase |-> "None"]

\* A ClusterProfile lists the supported versions, or none when GKE did not say.
ProfileStates == {"absent", "bare", "listed"}

PlatformType ==
    /\ config \in [Configs -> ConfigObject]
    /\ cluster \in [Clusters -> ClusterObject]
    /\ clusterProfile \in [Configs -> ProfileStates]

PlatformInit ==
    /\ config = [n \in Configs |-> NoConfig(n)]
    /\ cluster = [c \in Clusters |-> NoCluster]
    /\ clusterProfile = [n \in Configs |-> "absent"]

-----------------------------------------------------------------------------
(***************************************************************************)
(* Storing a resource.  A resource marked for deletion disappears with its *)
(* last finalizer, and no finalizer can be added to it.                    *)
(***************************************************************************)
StoreConfig(n, obj) ==
    config' = [config EXCEPT ![n] = IF obj.deleting /\ ~obj.own THEN NoConfig(n) ELSE obj]

StoreCluster(c, obj) ==
    cluster' = [cluster EXCEPT
        ![c] = IF obj.deleting /\ ~obj.own /\ obj.foreign = {} THEN NoCluster ELSE obj]

\* A merge patch of metadata.finalizers replaces the list as a whole.
MayPatchFinalizers(stored, own, foreign) ==
    /\ stored.exists
    /\ stored.deleting => (own => stored.own) /\ foreign \subseteq stored.foreign

-----------------------------------------------------------------------------
(***************************************************************************)
(* The operators of the landscape and the other controllers.               *)
(***************************************************************************)
CreateConfig(n, l) ==
    /\ ~config[n].exists
    /\ l = Home[n] \/ n \in Relocatable
    /\ StoreConfig(n, [NoConfig(n) EXCEPT !.exists = TRUE, !.location = l])
    /\ UNCHANGED cluster

\* spec.projectID and spec.region are mutable (only providerRef is not).
Relocate(n, l) ==
    /\ config[n].exists
    /\ n \in Relocatable
    /\ l # config[n].location
    /\ StoreConfig(n, [config[n] EXCEPT !.location = l])
    /\ UNCHANGED cluster

AnnotateConfig(n, op) ==
    /\ config[n].exists
    /\ op # config[n].op
    /\ StoreConfig(n, [config[n] EXCEPT !.op = op])
    /\ UNCHANGED cluster

DeleteConfig(n) ==
    /\ config[n].exists
    /\ ~config[n].deleting
    /\ StoreConfig(n, [config[n] EXCEPT !.deleting = TRUE])
    /\ UNCHANGED cluster

CreateCluster(c) ==
    /\ ~cluster[c].exists
    /\ StoreCluster(c, [NoCluster EXCEPT !.exists = TRUE])
    /\ UNCHANGED config

AnnotateCluster(c, op) ==
    /\ cluster[c].exists
    /\ op # cluster[c].op
    /\ StoreCluster(c, [cluster[c] EXCEPT !.op = op])
    /\ UNCHANGED config

DeleteCluster(c) ==
    /\ cluster[c].exists
    /\ ~cluster[c].deleting
    /\ StoreCluster(c, [cluster[c] EXCEPT !.deleting = TRUE])
    /\ UNCHANGED config

AddForeign(c, f) ==
    /\ cluster[c].exists
    /\ ~cluster[c].deleting
    /\ f \notin cluster[c].foreign
    /\ StoreCluster(c, [cluster[c] EXCEPT !.foreign = @ \cup {f}])
    /\ UNCHANGED config

RemoveForeign(c, f) ==
    /\ f \in cluster[c].foreign
    /\ StoreCluster(c, [cluster[c] EXCEPT !.foreign = @ \ {f}])
    /\ UNCHANGED config

UserNext ==
    /\ \/ \E n \in Configs :
            \/ \E l \in Locations : CreateConfig(n, l) \/ Relocate(n, l)
            \/ \E op \in ConfigOps \cup {"none"} : AnnotateConfig(n, op)
            \/ DeleteConfig(n)
       \/ \E c \in Clusters :
            \/ CreateCluster(c)
            \/ DeleteCluster(c)
            \/ \E op \in ClusterOps \cup {"none"} : AnnotateCluster(c, op)
            \/ \E f \in Foreign : AddForeign(c, f) \/ RemoveForeign(c, f)
    /\ UNCHANGED <<clusterProfile, faults>>
=============================================================================
