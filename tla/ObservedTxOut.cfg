SPECIFICATION OutSpec
CONSTANTS
    Node = {1, 2}
    Vault = {"v1", "v2"}
    Members <- MCMembers
    Action = {a1, a2}
    NoAction = NoAction
    StartHeight = 2
    SigningTransactionPeriod = 1
    RescheduleCoalesceBlocks = 2
    MaxOutboundAttempts = 5
    PoolCycle = 4
    Funds = 2
    Faulty = {"v1"}
    MaxPayments = 2
    MaxTxHeight = 5
    MaxHeight = 8
    MaxFaults = 1
SYMMETRY ActionSymmetry
INVARIANTS OutTypeOK OnePaymentUnpunished FundsMatchWallet NoneForgotten
PROPERTY OutRefines
CHECK_DEADLOCK FALSE
