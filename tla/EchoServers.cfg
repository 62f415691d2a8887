CONSTANTS
    Clients = {c1, c2}
    MaxBytes = 3
SPECIFICATION FairSpec
INVARIANTS WorkersOK EchoInOrder NoStrayCopies
PROPERTIES AnswerComes
CHECK_DEADLOCK FALSE
