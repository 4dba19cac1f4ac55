\* Three pipelines compete for two slots, so that a slot is taken by a create and by an
\* update; no symmetry, which would be unsound for the liveness property.
SPECIFICATION FairSpec
CONSTANTS
    Names = {p1, p2, p3}
    MaxOwners = 2
    Workers = {w1, w2}
    MaxIncarnations = 1
    MaxFaults = 1
PROPERTIES
    ImplementsSlots
    FreedSlotIsUsed
CHECK_DEADLOCK FALSE
