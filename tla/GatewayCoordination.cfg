\* A LogPipeline and a TracePipeline share the gateway; either may be removed, become
\* invalid or have its controller paused while the other's writes the ConfigMap.
SPECIFICATION Spec
CONSTANTS
    Names = {"logs", "traces"}
    Types = {"LogPipeline", "TracePipeline"}
    TypeOf <- TwoKinds
    Specs <- PlainAndInvalid
    MaxOwners = 1
    MaxIncarnations = 1
    MaxOps = 2
    MaxFaults = 0
    MaxMisled = 0
    MaxPauses = 1
PROPERTY NoLostReference
CHECK_DEADLOCK FALSE
