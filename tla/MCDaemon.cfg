CONSTANTS
    Conns = {c1, c2, c3}
    Workers = {w1, w2}
    QueueSize = 2
    NoFd = nofd
    Services = {audio}
SPECIFICATION FairSpec
INVARIANTS DaemonSafe CleanRestartRemembers
PROPERTIES AcceptedIsServed TermEnds
