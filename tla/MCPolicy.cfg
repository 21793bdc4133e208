CONSTANTS
    tz1 = tz1
    tz4 = tz4
    alice = alice
    bob = bob
    c1 = c1
    c2 = c2
    Unset = Unset
    Default = Default
    NotListed = NotListed
    Invalid = Invalid
    AvailRequests <- MCAvailRequests
    AvailOps <- MCAvailOps
    BLSKeys = {tz4}
    Sections <- MCSections
    Questions <- MCQuestions
SPECIFICATION DecisionSpec
INVARIANTS AsConfigured UnknownNamesRefused
CHECK_DEADLOCK FALSE
