SPECIFICATION FairSpec
CONSTANTS
    QueueDepth = 8
    MaxOps = 4
    MaxFailures = 0
PROPERTY TermStops
\* A service that has left its loop is done.
CHECK_DEADLOCK FALSE
