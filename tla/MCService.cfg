CONSTANTS
    u1 = u1
    u2 = u2
    c1 = c1
    c2 = c2
    h = h
    Nil = Nil
    Users = {u1, u2}
    Clients = {c1, c2}
    Checks = {h}
    MaxLogins = 2
    MaxCalls = 2
    MaxStarts = 2
SPECIFICATION Spec
INVARIANTS ExchangedForGood EarnedByPassword BothUntilExchanged StopsGracefully
PROPERTIES StopEnds
CHECK_DEADLOCK FALSE
