\* Three events: three operations, or two that are disturbed once.
CONSTANTS
    None = None
    Installable = {3}
    MaxEvents = 3
SPECIFICATION Spec
\* The operations end.
CHECK_DEADLOCK FALSE
INVARIANTS
    OnlyReviewedDefaultsAreReplaced
    RestorePutsBackWhatWasThere
    ManifestMatchesItsSources
    CurrentIsRestorable
    ChangeCanBeUndone
