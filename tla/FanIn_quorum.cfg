SPECIFICATION Spec
CONSTANTS
    Messages <- MixedMessages
    Workers = {w1, w2}
    SafteyValue = 1
    QueueSize = 2
    None = None
INVARIANTS
    TypeOK
    RegistryExact
    SpentOnce
    QuorumBacked
    NoQuorumLost
    DecidedOnce
PROPERTIES
    QueuedOnce
    ImplementsGate
SYMMETRY WorkerSymmetry
CHECK_DEADLOCK FALSE
