\* A Java of the line that the policy selects.
CONSTANTS
    None = None
    Published <- MCPublished
    Ttl <- MCTtl
    Start = 3
    MaxTime = 4
    Caches <- MCCaches
    Machines <- MCMachines
    Policies <- MCPolicies
SPECIFICATION Spec
\* The report ends.
CHECK_DEADLOCK FALSE
INVARIANT NewerLineIsNewer
