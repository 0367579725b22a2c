\* Four sources, read while the clock advances by one.
CONSTANTS
    None = None
    Published <- MCPublished
    Ttl <- MCTtl
    Start = 3
    MaxTime = 4
    Caches <- MCCaches
    Machines <- MCMachines
    Policies <- MCPolicies
SPECIFICATION Spec
\* The report ends.
CHECK_DEADLOCK FALSE
INVARIANTS
    CandidateIsTheNewest
    PlannedVersionIsPublished
    EndOfLifeIsCertain
    VerdictsAgree
