SPECIFICATION FairSpec
CONSTANTS
    r1 = r1
    r2 = r2
    c1 = c1
    c2 = c2
    c3 = c3
    c4 = c4
    Nobody = Nobody
    MaxEvents = 4
    Requests = {r1, r2}
    Clients = {c1, c2, c3, c4}
INVARIANT LiveClientsAreOwned
INVARIANT StdioRunsCurrent
PROPERTY OnlyARacedFetchIsStale
PROPERTY RequestsEnd
CHECK_DEADLOCK FALSE
