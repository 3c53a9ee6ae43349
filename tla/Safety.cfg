\* One failure of any kind, one restart, a foreign finalizer, annotated Clusters.
SPECIFICATION Spec
CONSTANTS
    n1 = n1
    c1 = c1
    l1 = l1
    l2 = l2
    f1 = f1
    Configs = {n1}
    Clusters = {c1}
    Locations = {l1}
    ProfileOf <- OneCluster
    Home <- OneHome
    Relocatable = {}
    Foreign = {f1}
    ConfigOps = {}
    ClusterOps = {"ignore", "reconcile"}
    Readers = {"Cluster"}
    NoProfile = NoProfile
    Nobody = Nobody
    FaultModes = {"refused", "lost", "dropped", "maintenance", "failure"}
    MaxFaults = 1
    MaxCrashes = 1
INVARIANTS
    TypeOK
    NoOrphan
    ProfileGuarded
    AdvertisedIsServed
    NoConfigForgotten
    ReadyHasCluster
PROPERTIES
    DeletionHonoursForeign
    ClusterFinalizerProtocol
    ConfigFinalizerProtocol
