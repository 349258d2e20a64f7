SPECIFICATION Spec
CONSTANTS
    a1 = a1
    a2 = a2
    h1 = h1
    h2 = h2
    A = A
    H = H
    v1 = v1
    v2 = v2
    x = x
    y = y
    Peers = {a1, a2, h1, h2}
    Clusters = {A, H}
    ClusterOf <- TwoClusters
    Home = H
    Hop <- TwoHops
    Values = {v1, v2}
    Absent = Absent
    Clients = {x, y}
    Scripts <- LookupScripts
    SafteyValue = 1
    None = None
INVARIANT LookupAnswered
CHECK_DEADLOCK FALSE
