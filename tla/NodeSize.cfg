SPECIFICATION NodeSpec
CONSTANTS
    Controllers = {"otlpgateway", "metricpipeline", "logpipeline"}
    Nodes = {n1, n2}
    Sizes = {0, 1, 2}
    MaxNodeChanges = 1
    Unset = Unset
    NotThere = NotThere
INVARIANT ControllersFollowTracker
CHECK_DEADLOCK FALSE
