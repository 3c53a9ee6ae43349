\* The first reconciliation that finds the GKE cluster running.
SPECIFICATION Spec
CONSTANTS
    n1 = n1
    c1 = c1
    l1 = l1
    l2 = l2
    f1 = f1
    Configs = {n1}
    Clusters = {c1}
    Locations = {l1}
    ProfileOf <- OneCluster
    Home <- OneHome
    Relocatable = {}
    Foreign = {}
    ConfigOps = {}
    ClusterOps = {}
    Readers = {"Cluster"}
    NoProfile = NoProfile
    Nobody = Nobody
    FaultModes = {}
    MaxFaults = 0
    MaxCrashes = 0
INVARIANTS
    ReadyHasEndpoint
