CONSTANTS
    Conns = {c1, c2}
    MaxFd = 2
    BufSize = 2
    MaxLine = 3
    MaxSend = 3
SPECIFICATION Spec
INVARIANTS BuffersOK RequestIntact
PROPERTIES ClosedAfterClient
CHECK_DEADLOCK FALSE
