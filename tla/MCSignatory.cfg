CONSTANTS
    c1 = c1
    tz1 = tz1
    tz4 = tz4
    alice = alice
    bob = bob
    v1 = v1
    v2 = v2
    h1 = h1
    h2 = h2
    NoHash = NoHash
    NoMark = NoMark
    NoCall = NoCall
    NoVault = NoVault
    Unset = Unset
    Default = Default
    NotListed = NotListed
    Invalid = Invalid
    Half = 4
    Chains = {c1}
    Keys = {tz1, tz4}
    Kinds = {"block"}
    Digests <- MCDigests
    Requests <- MCRequests
    AvailRequests <- MCAvailRequests
    AvailOps <- MCAvailOps
    BLSKeys = {tz4}
    Handlers = {h1, h2}
    Calls <- MCCalls
    Vaults = {v1, v2}
    Provers = {v2}
    Importers = {v1}
    Configs <- MCConfigs
    Stores <- MCStores
    MaxCalls = 2
SPECIFICATION Spec
INVARIANTS OnlyPermitted HookConsented NothingBurned KeysWhereCached
PROPERTIES RefinesSignOnce OnlyHookWaits
CHECK_DEADLOCK FALSE
