SPECIFICATION FairSpec
CONSTANTS
    w1 = w1
    w2 = w2
    h1 = h1
    h2 = h2
    p1 = p1
    p2 = p2
    p3 = p3
    NoConn = NoConn
    Workers <- OneWorker
    Hosts <- TwoHosts
    Pids <- OnePid
    Operations = 1
    MaxFaults = 1
    MaxSignals = 2
PROPERTIES
    SignalTerminates
    TerminatedWorkersEnd
    CleanExitEnds
CHECK_DEADLOCK FALSE
