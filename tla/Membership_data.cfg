CONSTANTS
    None = None
    M = 3
    SMin = 2
    SafteyValue = 1
    TSplit = 2
    Boot <- TwoBoot
    Joiners <- TwoJoiners
    Keys <- OneKey
    MaxClusters = 2
    MaxJoins = 1
    MaxLeaves = 0
SPECIFICATION Spec
PROPERTIES
    KeysOutliveSplits
CHECK_DEADLOCK FALSE
