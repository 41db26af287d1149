SPECIFICATION MCSpec
CONSTANTS
    s1 = s1
    s2 = s2
    self = self
    c1 = c1
    c2 = c2
    v1 = v1
    a1 = a1
    a2 = a2
    k1 = k1
    Nobody = Nobody
    Servers <- TwoServers
    Self = self
    Configs <- TwoConfigs
    Auditable <- OneConfig
    Reports <- CleanOrNot
    Severity <- Critical
    ActionMaps <- AllMaps
    Admins <- TwoAdmins
    Callers <- OneCaller
    Patches <- SomePatches
    MaxOps = 2
INVARIANT WaitersAreServed
INVARIANT CacheIsFresh
INVARIANT NothingSanctionedRuns
PROPERTY OnlyHumansLift
PROPERTY AuditsEnd
CHECK_DEADLOCK FALSE
