SPECIFICATION Spec
CONSTANTS
    Names = {"traces"}
    Types = {"TracePipeline"}
    TypeOf <- TwoKinds
    Specs <- SecretAndInvalid
    MaxOwners = 1
    MaxIncarnations = 1
    MaxOps = 3
    MaxFaults = 1
    MaxMisled = 1
    MaxPauses = 0
INVARIANTS
    RenderedWasValidated
    RestingGatewayIsCurrent
    RestingStatusIsCurrent
    RestingReferencesCanBeBuilt
CHECK_DEADLOCK FALSE
