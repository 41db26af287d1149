SPECIFICATION FairSpec
CONSTANTS
    s1 = s1
    s2 = s2
    a = a
    b = b
    c = c
    Servers = {s1, s2}
    Names = {a, b, c}
    MaxBoxes = 2
    MaxRenames = 2
    InitialNames <- MCInitialNames
    MaxFaults = 2
    MaxCrashes = 1
    MaxTroubles = 3
INVARIANT OneContainerPerServer
INVARIANT NoneIsForgotten
PROPERTY OthersAreSpared
PROPERTY StopReturns
CHECK_DEADLOCK FALSE
