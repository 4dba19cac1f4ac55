SPECIFICATION Spec
CONSTANTS
    Names = {p1, p2}
    Settings <- AllSettings
    FIPSMode = FALSE
    PipelineSpecs <- AllSpecs
    MaxIncarnations = 2
    MaxOps = 4
    MaxFaults = 1
    None = None
INVARIANTS RestingAgentIsCurrent RestingOwnersExist
PROPERTY ControllerComesToRest
CHECK_DEADLOCK FALSE
