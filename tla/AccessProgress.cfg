\* One refused call or one late timer; users change the permissions, delete anything.
SPECIFICATION AccessLiveSpec
CONSTANTS
    n1 = n1
    c1 = c1
    l1 = l1
    a1 = a1
    r1 = r1
    r2 = r2
    r3 = r3
    Configs = {n1}
    Clusters = {c1}
    Locations = {l1}
    ProfileOf <- OneCluster
    Home <- OneHome
    Relocatable = {}
    Foreign = {}
    ConfigOps = {}
    ClusterOps = {}
    Readers = {"AccessRequest"}
    NoProfile = NoProfile
    Nobody = Nobody
    FaultModes = {"refused", "slow"}
    MaxFaults = 1
    MaxCrashes = 0
    Accesses = {a1}
    ClusterOf <- OneAccess
    Specs <- TokenSpecs
    RoleNames = {r1, r2, r3}
    AccessOps = {}
    RenewAge = 1
    MaxGeneration = 2
PROPERTIES
    AccessServed
    AccessDeletionCompletes
