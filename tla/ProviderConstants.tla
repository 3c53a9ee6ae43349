------------------------- MODULE ProviderConstants -------------------------
(***************************************************************************)
(* The parameters every module of the GCP cluster provider shares.         *)
(***************************************************************************)
CONSTANTS
    Configs,        \* names of the ProviderConfigs this provider owns
    Clusters,       \* Cluster resources (namespace/name) of the platform
    Locations,      \* a GCP project and region, where GKE clusters live
    ProfileOf,      \* ProfileOf[c]: the config behind Cluster c's spec.profile
    Home,           \* Home[n]: the project and region config n is created with
    Relocatable,    \* configs whose project or region the operator may change
    Foreign,        \* finalizers of other controllers on Cluster resources
    ConfigOps,      \* values an operator sets for the operation annotation ...
    ClusterOps,     \* ... of a ProviderConfig, and of a Cluster
    Readers,        \* controllers that take the read lock of the runtime state
    NoProfile,      \* "no profile loaded"
    Nobody,         \* "no request being reconciled"
    FaultModes,     \* kinds of failure the environment may produce
    MaxFaults,      \* how many of them: the bound on the counter `faults'
    MaxCrashes      \* how many process restarts: the bound on `crashes'

\* The values of the operation annotation that the code tells apart.
Operations == {"none", "ignore", "reconcile"}

\* "refused": a call fails and changes nothing.  "lost": it is applied and its
\* answer is an error.  "dropped": the List of a watch's map function fails.
\* "maintenance", "failure": GKE reconciles a running cluster, or breaks one.
\* "slow": time passes between two readings of the clock.  "crash": the process
\* starts again (AccessSystem; ClusterProvider counts its restarts apart).
AllFaultModes == {"refused", "lost", "dropped", "maintenance", "failure", "slow", "crash"}

ASSUME TopologyAssumption ==
    /\ ProfileOf \in [Clusters -> Configs]
    /\ Home \in [Configs -> Locations]
    /\ Relocatable \subseteq Configs

ASSUME OperationsAssumption ==
    /\ ConfigOps \subseteq Operations
    /\ ClusterOps \subseteq Operations

ASSUME AbsenceAssumption ==
    /\ NoProfile \notin Locations
    /\ Nobody \notin Clusters
    /\ Nobody \notin Configs

ASSUME BoundsAssumption == FaultModes \subseteq AllFaultModes
=============================================================================
