CONSTANTS
    HandshakeTimeout = 2
    CloseTimeout = 1
    QueueBound = 2
SPECIFICATION FairSpec
INVARIANTS TypeOK ExactExchange DataRejectedOnlyEarly
PROPERTIES NoRevival HandshakeEnds
CHECK_DEADLOCK FALSE
