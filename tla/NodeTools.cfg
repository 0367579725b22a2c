\* An operation on all three tools and two that continue it or each other, or
\* two operations that are not continuations, to the same or to another
\* version of npm; one crash or foreign change.
CONSTANTS
    None = None
    TTL = 2
    Newest = 4
    Options <- MC_Options
    MaxTime = 2
    MaxFaults = 1
    MaxOperations = 4
SPECIFICATION Spec
INVARIANTS
    ChainsRespectTheFirstPlan
    ContinuationsMatchTheirSource
    OneConfirmationOneChange
    CompletedWorkStaysReusable
\* The operations and the clock end.
CHECK_DEADLOCK FALSE
