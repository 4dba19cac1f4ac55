\* Two pipelines share a Secret.  Both are reconciled once in any case, so that one edit
\* is enough to cancel a watcher and to start another.
SPECIFICATION FairSpec
CONSTANTS
    Pipelines = {p1, p2}
    Secrets = {s1}
    MaxStarts = 2
    MaxEdits = 1
    MaxChanges = 2
    MaxFaults = 1
INVARIANTS
    NoStrayWatcher
    LinksMatchReferences
    OnlyGapsLoseChanges
PROPERTIES
    StopTerminates
CHECK_DEADLOCK FALSE
