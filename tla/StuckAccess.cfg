\* A request that is deleted after its Cluster.
SPECIFICATION AccessLiveSpec
CONSTANTS
    n1 = n1
    c1 = c1
    l1 = l1
    a1 = a1
    r1 = r1
    r2 = r2
    r3 = r3
    Configs = {n1}
    Clusters = {c1}
    Locations = {l1}
    ProfileOf <- OneCluster
    Home <- OneHome
    Relocatable = {}
    Foreign = {}
    ConfigOps = {}
    ClusterOps = {}
    Readers = {"AccessRequest"}
    NoProfile = NoProfile
    Nobody = Nobody
    FaultModes = {}
    MaxFaults = 0
    MaxCrashes = 0
    Accesses = {a1}
    ClusterOf <- OneAccess
    Specs <- OIDCSpecs
    RoleNames = {r1, r2, r3}
    AccessOps = {}
    RenewAge = 1
    MaxGeneration = 1
PROPERTIES
    ReleasedWithoutRBAC
