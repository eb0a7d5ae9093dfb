CONSTANTS
    dev1 = dev1
    dev2 = dev2
    dev3 = dev3
    name1 = name1
    name2 = name2
    Threads = {t1, t2}
    Devices = {dev1, dev2, dev3}
    Names = {name1, name2}
    DevName <- MCDevName
    Hash <- MCHash
    Size = 4
    Empty = empty
    Tombstone = tombstone
    MaxRefs = 3
    Poses <- MCPoses
    Indices <- MCIndices
    Rates = {1, 2}
    BufferCount = 3
    Formats = {f1, f2}
    PcmRates = {1, 2}
    MaxFrames = 2
SPECIFICATION HalSpec
SYMMETRY Symmetry
INVARIANTS HalSafe FindIsComplete SensorSafe  
CHECK_DEADLOCK FALSE
