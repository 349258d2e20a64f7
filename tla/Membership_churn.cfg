CONSTANTS
    None = None
    M = 3
    SMin = 2
    SafteyValue = 1
    TSplit = 2
    Boot <- TwoBoot
    Joiners <- FourJoiners
    Keys <- OneKey
    MaxClusters = 6
    MaxJoins = 1
    MaxLeaves = 2
SPECIFICATION Spec
INVARIANTS
    MergeNeverBlocked
PROPERTIES
    KeysOutliveLeaves
    CoresGather
CHECK_DEADLOCK FALSE
