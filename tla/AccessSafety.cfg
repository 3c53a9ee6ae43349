\* One failure or restart; users annotate, change the kind of access, delete anything.
SPECIFICATION AccessSpec
CONSTANTS
    n1 = n1
    c1 = c1
    l1 = l1
    a1 = a1
    r1 = r1
    r2 = r2
    r3 = r3
    Configs = {n1}
    Clusters = {c1}
    Locations = {l1}
    ProfileOf <- OneCluster
    Home <- OneHome
    Relocatable = {}
    Foreign = {}
    ConfigOps = {}
    ClusterOps = {}
    Readers = {"AccessRequest"}
    NoProfile = NoProfile
    Nobody = Nobody
    FaultModes = {"refused", "lost", "crash"}
    MaxFaults = 1
    MaxCrashes = 0
    Accesses = {a1}
    ClusterOf <- OneAccess
    Specs <- TwoKinds
    RoleNames = {r1, r2, r3}
    AccessOps = {"ignore", "reconcile"}
    RenewAge = 2
    MaxGeneration = 2
INVARIANTS
    AccessTypeOK
    AccessGuarded
    NothingStale
    RenewalInTime
    NoAccessForgotten
PROPERTIES
    HandedOutComplete
    GrantedPermissions
    AccessFinalizerProtocol
