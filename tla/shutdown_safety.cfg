SPECIFICATION Spec
CONSTANTS
    w1 = w1
    w2 = w2
    h1 = h1
    h2 = h2
    p1 = p1
    p2 = p2
    p3 = p3
    NoConn = NoConn
    Workers <- TwoWorkers
    Hosts <- OneHost
    Pids <- ThreePids
    Operations = 1
    MaxFaults = 1
    MaxSignals = 1
SYMMETRY MCSymmetry
INVARIANTS
    NothingLostInFlush
    StopWritesWhatWasLogged
    QuietEndWritesAll
    RegisteredAreTold
PROPERTIES
    CancelledThreadsEnd
CHECK_DEADLOCK FALSE
