SPECIFICATION Spec
CONSTANTS
    s1 = s1
    s2 = s2
    c1 = c1
    c2 = c2
    w1 = w1
    NoServer = NoServer
    Servers <- TwoServers
    Acquirers <- OneCaller
    Stoppers <- OneCaller
    Sweepers <- OneSweeper
    Warm <- NoServers
    IdleServers <- TwoServers
    MaxFailures = 1
    MaxGen = 2
INVARIANT OneProcessPerServer
PROPERTY InfoNamesTheProcess
INVARIANT ShutdownLeavesOnlyStopping
PROPERTY StopEndsEarlierProcesses
CHECK_DEADLOCK FALSE
