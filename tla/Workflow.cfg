\* The three stages of a workflow and at most three operations: a complete
\* workflow, or one stage run again after a restart or a lost log.  Operations
\* end abnormally by a lost log ("failed") and by recovery ("interrupted");
\* no guard tells the other abnormal ends from these.
CONSTANTS
    Last = 3
    None = None
    TTL = 1
    MaxTime = 1
    MaxChanges = 1
    MaxOperations = 3
    Outcomes = {"completed"}
SPECIFICATION Spec
INVARIANTS
    AttachIsNeverRefused
    StagesInOrder
    CompletedStagesAreBacked
    CanGoOn
\* A workflow ends, and so does the clock.
CHECK_DEADLOCK FALSE
