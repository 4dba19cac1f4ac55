\* Three objects of two kinds meet two other writers; two objects of an older release;
\* two nodes, two handlers; two pods of the manager, before and after a rollout.
SPECIFICATION Spec
CONSTANTS
    allCRDs <- MCCRDs
    Objects = {"l1", "l2", "default"}
    CRDOf <- MCCRDOf
    MaxWrites = 2
    MaxFailures = 1
    resources <- MCResources
    MaxMishaps = 2
    Controllers = {"otlpgateway", "metricpipeline"}
    Nodes = {n1, n2}
    Sizes = {0, 1, 2}
    MaxNodeChanges = 2
    Unset = Unset
    NotThere = NotThere
    Pods = {p1, p2}
    CAIds = {c1, c2, c3, c4}
    CAMaxAge = 5
    CASoftExpiry = 2
    ServerMaxAge = 2
    ServerSoftExpiry = 1
    NoCA = NoCA
    NoPod = NoPod
    TornSaves = FALSE
    MaxCertFaults = 2
INVARIANTS
    ClearedOnlyWhenMigrated
    RestingTracker
    ServerNeverOutlivesCA
    ServedNotExpired
    RestingChain
PROPERTIES
    StartupCompletes
    WebhooksRecover
CHECK_DEADLOCK FALSE
