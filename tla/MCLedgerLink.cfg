CONSTANTS
    a = a
    b = b
    Callers = {a, b}
    QueueCap = 1
    MaxCalls = 3
    NoCall = NoCall
    chunkSize = 5
    maxAPDUSize = 2
    MessageLength = 4
    MaxOthers = 1
    Nil = Nil
SPECIFICATION LinkSpec
INVARIANTS AnsweredOnce OneHandle OwnReply
PROPERTIES AnsweredWhileOpen
CHECK_DEADLOCK FALSE
