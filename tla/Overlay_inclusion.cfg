SPECIFICATION MCSpec
CONSTANTS
    p0 = p0
    p1 = p1
    p2 = p2
    p3 = p3
    p4 = p4
    p5 = p5
    p6 = p6
    p7 = p7
    p8 = p8
    p9 = p9
    pA = pA
    pB = pB
    pC = pC
    NoMap = NoMap
    Peers = {p0, p1, p2, p3, p4, p5, p6, p7, p8, p9, pA, pB, pC}
    ID <- Quarters
    FirstCore = {p0, p3, p6, p9}
    Seed = p0
    Orders <- MCOrders
    Schedules <- JoinLate
    M = 4
    SMin = 4
    TSplit = 6
INVARIANTS
    NonInclusion
CHECK_DEADLOCK FALSE
