CONSTANTS
    k1 = k1
    k2 = k2
    k3 = k3
    Imported = Imported
    Unset = Unset
    Keys = {k1, k2, k3}
    Backends = {"aws"}
    Layouts <- MCLayouts
    RetrySettings <- MCRetrySettings
    defaultMaxRetries = 3
    maxAllowedRetries = 5
    MaxOps = 2
    MaxFaults = 1
SPECIFICATION VaultsSpec
INVARIANTS AWSListsAll
CHECK_DEADLOCK FALSE
