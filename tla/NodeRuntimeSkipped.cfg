\* One operation that another program interferes with.
CONSTANTS
    None = None
    Installable = {3}
    MaxEvents = 2
SPECIFICATION Spec
\* The operations end.
CHECK_DEADLOCK FALSE
INVARIANT SkippedWorkIsNoCandidate
