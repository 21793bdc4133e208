CONSTANTS
    c1 = c1
    c2 = c2
    k1 = k1
    t1 = t1
    t2 = t2
    NoHash = NoHash
    NoMark = NoMark
    NoThread = NoThread
    NoRequest = NoRequest
    NoLegacy = NoLegacy
    Half = 4
    Chains = {c1, c2}
    Keys = {k1}
    Kinds <- MCKinds
    Digests <- FaultDigests
    Requests <- FaultRequests
    Threads <- MCThreads
    Legacies <- BlockUpgrades
    MaxFaults = 2
SPECIFICATION Spec
INVARIANTS GrantsOnDisk MemNotBehindDisk UpgradeKeeps
PROPERTIES RefinesSignOnce AllAnswered ComesUp
CHECK_DEADLOCK FALSE
