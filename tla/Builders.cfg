SPECIFICATION Spec
CONSTANTS
    Nil = Nil
    Absent = Absent
    Namespaces = {"app", "kyma-system"}
    GatewayNamespaces = {"app", "kyma-system"}
    SystemNamespaces = {"kyma-system"}
    ValidNames = {"app", "shop", "kyma-system"}
    Cluster = {"app", "shop", "kyma-system"}
INVARIANTS
    AgentDeliversSelection
    GatewayDeliversSelection
    
    ExportsClean
    CollectorStarts
    ConfigIgnoresListOrder
    ApplyConverges
    CleanupIsComplete
    TrafficIsAllowed
    ConditionIsJustified
    FlowHealthIsJustified
    FluentBitDeliversSelection
    VersionsAgree
    ConversionKeepsSpec
CHECK_DEADLOCK FALSE
