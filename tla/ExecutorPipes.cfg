\* Two actions with every optional callback; a descendant of the write process
\* may keep the output pipes open past WaitDelay.
CONSTANTS
    N = 2
    Facts = {old, partial, target}
    Target = target
    NoSnapshot = NoSnapshot
    NoRecord = NoRecord
    Dependencies <- ToolDependencies
    Preflights <- FirstTwo
    Captures <- FirstTwo
    Idempotent <- FirstTwo
    InheritedPipes = TRUE
    MaxDrift = 1
SPECIFICATION Spec
INVARIANTS
    EveryWriteIsAccountedFor
\* An operation ends.
CHECK_DEADLOCK FALSE
