\* One pipeline, whose Secret changes once; no request fails.
SPECIFICATION Spec
CONSTANTS
    Pipelines = {p1}
    Secrets = {s1}
    MaxStarts = 1
    MaxEdits = 0
    MaxChanges = 1
    MaxFaults = 0
INVARIANT ChangesReachPipelines
CHECK_DEADLOCK FALSE
