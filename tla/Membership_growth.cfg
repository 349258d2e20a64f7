CONSTANTS
    None = None
    M = 3
    SMin = 2
    SafteyValue = 1
    TSplit = 2
    Boot <- InnerBoot
    Joiners <- OtherJoiners
    Keys <- NoKeys
    MaxClusters = 4
    MaxJoins = 2
    MaxLeaves = 0
SPECIFICATION Spec
INVARIANTS
    TypeOK
    LabelsPartition
    CoreFull
    OneCluster
    TablesNearest
PROPERTIES
    MembersStay
    JoinsLostToSplits
CHECK_DEADLOCK FALSE
