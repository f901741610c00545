SPECIFICATION FairSpec
CONSTANTS
    h1 = h1
    h2 = h2
    w1 = w1
    w2 = w2
    NoSession = NoSession
    Hosts <- MCHosts
    Pids = {1}
    Rows = {1, 2}
    FirstPrimary = h1
    SyncMode = TRUE
    MaxFaults = 2
    Workers <- OneWorker
    DbHosts <- MCDbHosts
    Operations = 1
    ReconnectAttempt = 1
    Amount = 1
PROPERTY StoppingStops
