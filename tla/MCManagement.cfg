CONSTANTS
    Ids <- MCIds
    Inputs <- MCInputs
    Links <- MCLinks
    None = None
    MaxWrites = 1
    MaxCalls = 1
    MaxClicks = 1
    MaxOutages = 1
SPECIFICATION FairSpec
INVARIANT OwnChangesShow
PROPERTY ReservedForHumans
PROPERTY ViewsCatchUp
CHECK_DEADLOCK FALSE
