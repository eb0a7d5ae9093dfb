CONSTANTS
    Twins = {t1, t2}
    Known = {"kA", "kB"}
    MaxListed = 1
    LogLen = 3
    Heights = {14, 15}
    MaxCycle = 2
    MaxPid = 2
    Collectors = {1}
    Viewers = {t1, t2}
    MaxClients = 1
    ErrorLimit = 1
    MaxTicks = 1
    MaxSnapshots = 2
    CriticalKeys = {ck}
    WarningKeys = {t1, t2}
    CriticalCooldown = 1
    WarningCooldown = 2
    MaxAlerts = 2
    Capacity = 3
    TraceIds = {1, 2, 3}
    EndOfTime = 5
    MaxEntries = 5
    HeaderLen = 4
    PayloadLen = 5
    Tabs = 3
    FileCap = 2
    Visible = 3
    MaxMessages = 6
    MaxScroll = 1
    MaxLines = 3
    Callers = {t1, t2}
    Blocks = {b1}
    MaxAttempts = 1
    MaxLinks = 2
    MaxAsked = 2
    MaxPushes = 1
    MaxTraffic = 4
    Posters = {t1, t2}
    QueueCap = 2
    MaxPosts = 4
    FrameSlots = 2
    MaxWritten = 4
    Regions = {r1, r2}
    MaxTries = 2
    MaxArgs = 4
    MaxToken = 2
    MaxChars = 5
    MaxLog = 3
    MaxDump = 3
    DefaultDump = 2
    Interval = 2
    LastTime = 3
    MaxCommands = 3
    Caps = {t1, t2}
    Devices = {da, db}
SPECIFICATION ClientsSpec
SYMMETRY Symmetry
INVARIANTS OperatorsSafe    
\* Every part comes to an end of its own.
CHECK_DEADLOCK FALSE
