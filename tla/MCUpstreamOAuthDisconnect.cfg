SPECIFICATION Spec
CONSTANTS
    r1 = r1
    w1 = w1
    a1 = a1
    b1 = b1
    b2 = b2
    k1 = k1
    k2 = k2
    Nobody = Nobody
    Requests <- OneRequest
    Sweeps <- None
    Admins <- OneAdmin
    Starters <- OneStarter
    Callbacks <- OneCallback
    MayClear = TRUE
    MayCrash = FALSE
    MaxLogins = 1
    MaxIssues = 2
PROPERTY OnlyALoginChangesTheGrant
