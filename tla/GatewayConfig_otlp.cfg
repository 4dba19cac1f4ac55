SPECIFICATION Spec
CONSTANTS
    Nil = Nil
    Absent = Absent
    Namespaces = {"app", "kyma-system"}
    GatewayNamespaces = {"app", "kyma-system"}
    SystemNamespaces = {"kyma-system"}
    ValidNames = {"app", "shop", "kyma-system"}
    Cluster = {"app", "shop", "kyma-system"}
INVARIANT OTLPInputCanBeDisabled
CHECK_DEADLOCK FALSE
