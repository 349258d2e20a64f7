SPECIFICATION FairSpec
CONSTANTS
    a1 = a1
    a2 = a2
    h1 = h1
    h2 = h2
    A = A
    H = H
    v1 = v1
    v2 = v2
    x = x
    y = y
    Peers = {a1, a2, h1, h2}
    Clusters = {A, H}
    ClusterOf <- TwoClusters
    Home = H
    Hop <- TwoHops
    Values = {v1, v2}
    Absent = Absent
    Clients = {x, y}
    Scripts <- MixedScripts
    SafteyValue = 1
    None = None
INVARIANTS
    TypeOK
    AnswersStored
    FirstCallAnswered
    Replicated
PROPERTIES
    OneAnswerPerChannel
    CallsReturn
    MessagesDieOut
CHECK_DEADLOCK FALSE
