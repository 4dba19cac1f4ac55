SPECIFICATION FairSpec
CONSTANTS
    Names = {"traces", "spans"}
    Types = {"TracePipeline"}
    TypeOf <- TwoKinds
    Specs <- SecretOnly
    MaxOwners = 1
    MaxIncarnations = 1
    MaxOps = 2
    MaxFaults = 1
    MaxMisled = 0
    MaxPauses = 0
PROPERTIES
    ControllersComeToRest
CHECK_DEADLOCK FALSE
