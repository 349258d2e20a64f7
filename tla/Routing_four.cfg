SPECIFICATION Spec
CONSTANTS
    M = 4
    None = None
INVARIANTS
    TablesDiffer
    DistanceIsD
PROPERTIES
    HopsGetNearer
    Delivered
