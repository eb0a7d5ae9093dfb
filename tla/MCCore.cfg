CONSTANTS
    Items = {a, b}
    Torn = torn
    Capacity = 3
    Writer = service
    Reader = consumer
    PoolThreads = {t1, t2}
    BlockCount = 5
    ByteBits = 2
    MaxAllocs = 6
    MaxFails = 1
    n1 = n1
    n2 = n2
    n3 = n3
    b1 = b1
    b2 = b2
    Names = {n1, n2, n3}
    Buckets = {b1, b2}
    hash_name <- MCHash
    Pids = {p1, p2}
    RegThreads = {t1, t2}
    MaxServices = 2
    AgeCap = 1
    RestartCap = 1
SPECIFICATION CoreSpec
SYMMETRY Symmetry
INVARIANTS AudioSafe PoolSafe RegistrySafe
PROPERTIES AllocAnswers ImplementsMap
\* A pool that was destroyed stays so.
CHECK_DEADLOCK FALSE
