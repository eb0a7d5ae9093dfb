CONSTANTS
    Names = {audio}
    Pids = {p1, p2}
    Svc <- OneService
    Threads = {main, w1}
    Main = main
    MaxServices = 1
    HeartbeatTimeout = 0
    RestartDelay = 1
    MaxRestarts = 1
    TierAttempts = 2
    AgeCap = 1
    RestartCap = 1
    MaxAttempts = 0
    Lossy = FALSE
    PidReuse = FALSE
SPECIFICATION SmFairSpec
PROPERTIES GoneIsNoticed BeatingIsRunning
CHECK_DEADLOCK FALSE
