CONSTANTS
    a = a
    b = b
    Callers = {a}
    QueueCap = 1
    MaxCalls = 2
    NoCall = NoCall
SPECIFICATION Spec
PROPERTIES AnsweredAfterIdle
CHECK_DEADLOCK FALSE
