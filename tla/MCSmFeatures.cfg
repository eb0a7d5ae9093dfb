CONSTANTS
    Twins = {t1, t2}
    Triples = {x1, x2, x3}
    GateWorkers = {t1, t2}
    Clients = {p1, p2}
    Services = {s1}
    GlobalCapacity = 3
    GlobalRefill = 1
    PidCapacity = 2
    PidRefill = 1
    TableSize = 1
    BoxSize = 1
    Threshold = 2
    Window = 0
    Duration = 1
    MaxTime = 1
    Ends = {t1, t2}
    TimestampWindow = 0
    MaxKey = 2
    MaxClock = 2
    MaxWire = 1
    Nonces = {0, 1, 2}
    RingSize = 2
    HeadRange = 2
    ReplayWindow = 1
    Skew = 0
    MaxDay = 2
    MaxAccepted = 4
    Publishers = {t1, t2}
    Kinds = {k1, k2}
    MaxSubscribers = 2
    HistorySize = 3
    MaxEvents = 3
    PoolWorkers = {t1, t2}
    Tasks = {x1, x2, x3}
    QueueSizes = {2, 3}
    Borrowers = {x1, x2, x3}
    Conns = {n1, n2, n3}
    MaxSlots = 2
    MaxListed = 3
    MaxStarts = 3
    Paths = 2
    Features = {t1, t2}
    MaxKeys = 3
    MgmtNames = {g1}
    MaxRequests = 2
    Named = {x1, x2, x3}
    MaxDeps = 1
    MaxDepth = 1
    MaxInstances = 1
    PluginNames = {l1, l2}
    Callers = {t1, t2}
    MaxPlugins = 2
    MaxRuns = 2
    Contained = {o1, o2}
    Containers = {q1, q2}
    MaxMappings = 2
    Announcers = {t1, t2}
    Announced = {j1, j2}
    MaxAnnounced = 2
    MaxListeners = 2
    MaxAnnouncements = 3
    RingLen = 2
    LeakSamples = 2
    Rss = {0, 20, 22}
    Fds = {8, 9}
    RssLimit = 25
    FdLimit = 10
    MaxSamples = 4
    MaxWrites = 2
    Backups = 3
    FileLines = 2
    MaxLines = 8
    Meters = {t1, t2}
    MaxReports = 3
    LastSecond = 2
SPECIFICATION SmfSpec
SYMMETRY Symmetry
INVARIANTS  InfraSafe  
\* Every part comes to an end of its own.
CHECK_DEADLOCK FALSE
