SPECIFICATION FairSpec
CONSTANTS
    Messages <- FewMessages
    Workers = {w1, w2}
    SafteyValue = 1
    QueueSize = 4
    None = None
PROPERTIES
    Rests
    HandlerResolved
CHECK_DEADLOCK FALSE
