\* A formula of which another program installs several versions.
CONSTANTS
    None = None
    Catalogs <- MCCatalogs
    Machines <- MCMachines
    Homebrews <- MCHomebrews
    Profiles <- MCProfiles
    MaxEvents = 3
SPECIFICATION Spec
\* The operations end.
CHECK_DEADLOCK FALSE
PROPERTY OtherVersionsStopTheReview
