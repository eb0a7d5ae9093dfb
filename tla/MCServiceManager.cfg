CONSTANTS
    Names = {audio}
    Pids = {p1, p2}
    Svc <- OneService
    Threads = {main, w1}
    Main = main
    MaxServices = 1
    HeartbeatTimeout = 0
    RestartDelay = 1
    MaxRestarts = 2
    TierAttempts = 2
    AgeCap = 1
    RestartCap = 2
    MaxAttempts = 0
    Lossy = TRUE
    PidReuse = TRUE
SPECIFICATION SmSpec
INVARIANTS SmTypeOK
PROPERTIES LiveOwnerKeepsName
CHECK_DEADLOCK FALSE
