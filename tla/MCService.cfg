CONSTANTS
    Items = {a, b}
    Torn = torn
    Capacity = 3
    Writer = w
    Reader = r
    Pids = {p1, p2, p3}
    None = none
    Kinds = {"audio", "camera", "gpio", "sensor"}
    Services = {"audio", "camera", "gpio", "sensor"}
    Numbers = {0, 240, 8000}
    MaxEntries = 2
    MaxLines = 4
SPECIFICATION ServiceSpec
SYMMETRY Symmetry
INVARIANTS TypeOK NoTornRead ObserversConservative ProcTypeOK OneUser KernelKeeps PidFileGuards AloneIsAdmitted ConfigSafe
PROPERTY ImplementsFifo
\* Pids are not used again: when every process has ended, nothing happens.
CHECK_DEADLOCK FALSE
