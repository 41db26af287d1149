SPECIFICATION Spec
CONSTANTS
    c1 = c1
    c2 = c2
    g1 = g1
    g2 = g2
    k1 = k1
    k2 = k2
    endpoint = endpoint
    other = other
    read = read
    write = write
    Nobody = Nobody
    Clients = {c1, c2}
    Grants = {g1}
    Resources = {endpoint, other}
    Scopes = {read, write}
    Calls = {k1, k2}
    CodeTTL = 1
    RequestTTL = 1
    AccessTTL = 1
    RefreshTTL = 2
    UnusedTTL = 1
    MaxTime = 4
    MaxTurns = 3
SYMMETRY Interchangeable
INVARIANT OneCredentialPerGrant
INVARIANT ConsentCovers
INVARIANT RevokedTokensDie
PROPERTY GrantsFollowTheLedger
