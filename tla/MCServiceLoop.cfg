SPECIFICATION FairSpec
CONSTANTS
    QueueDepth = 8
    MaxOps = 4
    MaxFailures = 2
INVARIANT LoopSafe
PROPERTIES KeepsBeating HalDrained
\* A service that has left its loop is done.
CHECK_DEADLOCK FALSE
