\* Three events: operations, and what other programs do between their steps.
CONSTANTS
    None = None
    Catalogs <- MCCatalogs
    Machines <- MCMachines
    Homebrews <- MCHomebrews
    Profiles <- MCProfiles
    MaxEvents = 3
SPECIFICATION Spec
\* The operations end.
CHECK_DEADLOCK FALSE
INVARIANTS
    TypeOK
    FinalLockIsTrue
    PartialInstallCanGoOn
    UndisturbedOperationCompletes
    CompletedOperationCanBeFinalized
