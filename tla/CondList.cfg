CONSTANTS
    Producers = {p1, p2}
    Consumers = {c1, c2, c3}
    MaxItems = 3
SPECIFICATION FairSpec
INVARIANTS NodesOK NoIdleConsumer
PROPERTIES Drained
CHECK_DEADLOCK FALSE
