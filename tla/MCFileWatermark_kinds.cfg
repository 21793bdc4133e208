CONSTANTS
    c1 = c1
    c2 = c2
    k1 = k1
    t1 = t1
    t2 = t2
    NoHash = NoHash
    NoMark = NoMark
    NoThread = NoThread
    NoRequest = NoRequest
    NoLegacy = NoLegacy
    Half = 4
    Chains = {c1}
    Keys = {k1}
    Kinds <- MCKinds
    Digests <- KindDigests
    Requests <- KindRequests
    Threads <- MCThreads
    Legacies <- KindUpgrades
    MaxFaults = 0
SPECIFICATION Spec
INVARIANTS NoResign
CHECK_DEADLOCK FALSE
