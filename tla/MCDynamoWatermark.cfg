CONSTANTS
    c1 = c1
    k1 = k1
    w1 = w1
    w2 = w2
    NoHash = NoHash
    NoMark = NoMark
    NoRequest = NoRequest
    Half = 4
    Chains = {c1}
    Keys = {k1}
    Kinds = {"block"}
    Digests <- MCDigests
    Requests <- MCRequests
    Workers = {w1, w2}
SPECIFICATION Spec
INVARIANTS GrantsInTable OneSigner
PROPERTIES RefinesSignOnce AllAnswered
