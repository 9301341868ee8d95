SPECIFICATION Spec
CONSTANTS
    None = None
    Routines = {1, 2}
    MaxNonce = 3
    MaxFaults = 1
INVARIANTS TypeOK PaidAtMostOnce
PROPERTY NotSignedOnceCached
CHECK_DEADLOCK FALSE
