CONSTANTS
    NumChildren = 4
    KeepsIgnored = TRUE
    MaxNum = 6
    Producers = {p1, p2, p3}
    Consumers = {c1, c2}
    Start = 3
    Writers = {w1, w2}
    Readers = {r1, r2}
    Rounds = 2
    Adders = {w1, w2}
    Additions = 3
    UdpClients = {c1, c2}
    MaxInput = 2
    MaxRepeat = 2
    MaxText = 4
    LineSizes = {2, 3}
    \* space, %, 0 and 2
    Codes = {32, 37, 48, 50}
    MaxName = 4
    BufferSizes = {1, 5, 8, 16}
SPECIFICATION ProgramsSpec
INVARIANTS NoneForgotten InTurn NodesBacked CountRight OwnAnswers PiecesRight CodingRight FilesRight
PROPERTIES AllReaped GoesOn Answered Echoed
CHECK_DEADLOCK FALSE
