CONSTANTS
    s = s
    t = t
    k1 = k1
    k2 = k2
    m = m
    Servers = {s}
    Tools = {t}
    Keys = {k1, k2}
    Msgs = {m}
    Proof = Proof
    Nil = Nil
    NoBlob = NoBlob
    Failed = Failed
    Generated = 2
    MaxOps = 2
    MaxStarts = 2
    MaxFaults = 2
SPECIFICATION Spec
INVARIANTS OwnAnswer SignsUnlessHurt AcknowledgedKept
PROPERTIES EveryCallEnds
CHECK_DEADLOCK FALSE
