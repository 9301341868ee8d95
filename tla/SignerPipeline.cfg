SPECIFICATION Spec
CONSTANTS
    None = None
    v1 = v1
    Vaults = {v1}
    Items = {1, 2}
    VaultOf <- OneVault
    Chain = "utxo"
    Concurrency = 1
    VaultStatus = {"Active"}
    Period = 1
    Buffer = 1
    MaxAttempts = 0
    Routines = {1, 2}
    MaxClock = 1
    MaxFaults = 1
INVARIANTS TypeOK CapacityConserved LockIsOneRoutine PileUpExposed
PROPERTY StoreDrains
CHECK_DEADLOCK FALSE
