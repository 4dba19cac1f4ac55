SPECIFICATION Spec
CONSTANTS
    LogPipelines = {l1}
    MetricPipelines = {}
    TracePipelines = {}
    Reports <- ExpiringOrNotFlowing
    MaxOps = 5
    MaxUID = 2
    MaxFaults = 1
    ListsFail = FALSE
    None = None
INVARIANTS RestingStatusIsCurrent RestingSelfMonitor DeletionIsBlocked
PROPERTY DeletionCompletes
CHECK_DEADLOCK FALSE
