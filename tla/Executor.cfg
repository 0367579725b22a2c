\* Three actions, the second and third depending on the first; the first two
\* have every optional callback, the third has none; one change by another
\* program.
CONSTANTS
    N = 3
    Facts = {old, partial, target}
    Target = target
    NoSnapshot = NoSnapshot
    NoRecord = NoRecord
    Dependencies <- ToolDependencies
    Preflights <- FirstTwo
    Captures <- FirstTwo
    Idempotent <- FirstTwo
    InheritedPipes = FALSE
    MaxDrift = 1
SPECIFICATION FairSpec
INVARIANTS
    TypeOK
    EveryRecordIsValid
    WriteAhead
    DependenciesFirst
    HistoryIsAPrefix
    EveryWriteIsAccountedFor
    ReturnAgreesWithDisk
    CompletionIsVerified
PROPERTIES
    ImplementsHistory
    EveryOperationEnds
\* An operation ends.
CHECK_DEADLOCK FALSE
