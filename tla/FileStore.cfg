\* Four saves by a writer that stops after a failure, as Execute does, and a
\* reader in another process.
CONSTANTS
    MaxVersion = 4
    None = None
SPECIFICATION Spec
INVARIANTS
    TypeOK
    StaysLoadable
    LoadIsFresh
PROPERTIES
    ImplementsAtomicRecord
\* The writer may be dead.
CHECK_DEADLOCK FALSE
