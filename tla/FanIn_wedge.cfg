SPECIFICATION FairSpec
CONSTANTS
    Messages <- FloodMessages
    Workers = {w1, w2}
    SafteyValue = 1
    QueueSize = 1
    None = None
PROPERTIES
    RestsOrWedges
CHECK_DEADLOCK FALSE
