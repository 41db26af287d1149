SPECIFICATION FairSpec
CONSTANTS
    r1 = r1
    w1 = w1
    a1 = a1
    b1 = b1
    b2 = b2
    k1 = k1
    k2 = k2
    Nobody = Nobody
    Requests <- OneRequest
    Sweeps <- OneSweep
    Admins <- OneAdmin
    Starters <- OneStarter
    Callbacks <- TwoCallbacks
    MayClear = TRUE
    MayCrash = TRUE
    MaxLogins = 1
    MaxIssues = 2
INVARIANT TradedInIsNeverPresented
INVARIANT RetryPresentsAnotherToken
INVARIANT CodeIsPresentedOnce
PROPERTY StoredOnceInOrder
PROPERTY RequestsEnd
PROPERTY ExpiringIsNoticed
