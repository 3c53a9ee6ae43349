\* One refused call or one maintenance, no restart, no foreign finalizer.
SPECIFICATION LiveSpec
CONSTANTS
    n1 = n1
    c1 = c1
    l1 = l1
    l2 = l2
    f1 = f1
    Configs = {n1}
    Clusters = {c1}
    Locations = {l1}
    ProfileOf <- OneCluster
    Home <- OneHome
    Relocatable = {}
    Foreign = {}
    ConfigOps = {}
    ClusterOps = {}
    Readers = {"Cluster", "AccessRequest"}
    NoProfile = NoProfile
    Nobody = Nobody
    FaultModes = {"refused", "maintenance"}
    MaxFaults = 1
    MaxCrashes = 0
INVARIANTS
    NoClusterForgotten
PROPERTIES
    AccessAssumptionsMet
    ConfigServed
    ConfigDeletionCompletes
    ProvisioningCompletes
    DeletionCompletes
