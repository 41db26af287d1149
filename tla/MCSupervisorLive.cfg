SPECIFICATION FairSpec
CONSTANTS
    s1 = s1
    s2 = s2
    c1 = c1
    c2 = c2
    w1 = w1
    NoServer = NoServer
    Servers <- OneServer
    Acquirers <- OneCaller
    Stoppers <- TwoCallers
    Sweepers <- NoSweepers
    Warm <- OneServer
    IdleServers <- NoServers
    MaxFailures = 2
    MaxGen = 2
INVARIANT LiveProcessIsOwned
INVARIANT NothingDyingIsHandedOut
PROPERTY CallsReturn
PROPERTY ClosedProcessEnds
CHECK_DEADLOCK FALSE
