SPECIFICATION MCSpec
CONSTANTS
    p0 = p0
    p1 = p1
    p2 = p2
    p3 = p3
    p4 = p4
    p5 = p5
    p6 = p6
    p7 = p7
    p8 = p8
    p9 = p9
    pA = pA
    pB = pB
    pC = pC
    NoMap = NoMap
    Peers = {p0, p1, p2, p3, p4, p5, p6, p7, p8, p9, pA, pB, pC}
    ID <- Even
    FirstCore = {p0, p2, p4, p6}
    Seed = p0
    Orders <- MCOrders
    Schedules <- EvenSchedules
    M = 4
    SMin = 4
    TSplit = 4
INVARIANTS
    TypeOK
    OwnLabel
    CoreComplete
    NeighboursFit
CHECK_DEADLOCK FALSE
