SPECIFICATION Spec
CONSTANTS
    s1 = s1
    s2 = s2
    i1 = i1
    i2 = i2
    a1 = a1
    a2 = a2
    x1 = x1
    None = None
    Sender <- MCSender
    Item <- MCItem
    Attestation <- MCAttestation
    TxIDs <- MCTxIDs
    TxOf <- MCTxOf
    SendInputs <- MCSendInputs
    BlockInputs <- MCBlockInputs
    cachedBlocks = 1
    TTL = 1
    MaxSends = 2
    MaxHeight = 4
    MaxCommits = 2
CHECK_DEADLOCK FALSE
INVARIANTS TypeOK OneEntryPerItem FilterHolds WindowBounded
PROPERTIES LeavesForAReason CacheDrains
