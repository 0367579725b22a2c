\* Every dependency relation on four actions: the smallest Plans with a
\* diamond, and cycles of every length up to four.
CONSTANTS
    Listed <- FourActions
    AllGraphs <- FourActionGraphs
SPECIFICATION Spec
INVARIANTS
    OrderIsTopological
    VerdictIsRight
    ListedOrderIsKept
PROPERTIES
    WalkEnds
\* The walk ends.
CHECK_DEADLOCK FALSE
