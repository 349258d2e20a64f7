CONSTANTS
    None = None
    M = 3
    SMin = 2
    SafteyValue = 1
    TSplit = 2
    Boot <- TwoBoot
    Joiners <- FourJoiners
    Keys <- NoKeys
    MaxClusters = 4
    MaxJoins = 1
    MaxLeaves = 1
SPECIFICATION Spec
INVARIANTS
    NonInclusion
CHECK_DEADLOCK FALSE
