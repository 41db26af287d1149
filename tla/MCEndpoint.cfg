SPECIFICATION Spec
CONSTANTS
    e1 = e1
    e2 = e2
    e3 = e3
    x = x
    y = y
    k = k
    j = j
    q1 = q1
    q2 = q2
    q3 = q3
    here = here
    Nothing = Nothing
    Endpoints = {e1, e2, e3}
    Slugs = {x, y}
    Keys = {k}
    Jwts = {j}
    Audience <- MCAudience
    Address = here
    Requests = {q1, q2, q3}
    Modes = {"none", "api_key", "any"}
    Limits = {0, 2}
    Expiries = {0}
    InitialSlug <- MCInitialSlug
    Window = 2
    PruneEvery = 2
    MaxNow = 2
    MaxWaiting = 2
    MaxEdits = 2
    MaxFaults = 1
SYMMETRY RequestSymmetry
INVARIANT WithinTheLimit
INVARIANT EntitlementDecides
CHECK_DEADLOCK FALSE
