\* A config whose region changes at any time, and that is ignored at times.
SPECIFICATION Spec
CONSTANTS
    n1 = n1
    c1 = c1
    l1 = l1
    l2 = l2
    f1 = f1
    Configs = {n1}
    Clusters = {c1}
    Locations = {l1, l2}
    ProfileOf <- OneCluster
    Home <- OneHome
    Relocatable = {n1}
    Foreign = {}
    ConfigOps = {"ignore", "reconcile"}
    ClusterOps = {}
    Readers = {"Cluster", "AccessRequest"}
    NoProfile = NoProfile
    Nobody = Nobody
    FaultModes = {}
    MaxFaults = 0
    MaxCrashes = 0
INVARIANTS
    SnapshotCurrent
    ProfileTracksConfig
PROPERTIES
    CreationGuarded
