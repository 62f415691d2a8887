CONSTANTS
    Conns = {c1, c2, c3}
    MaxFd = 6
    MaxSend = 2
SPECIFICATION Spec
INVARIANTS SetsOK RoundComplete
PROPERTIES AllServed
CHECK_DEADLOCK FALSE
