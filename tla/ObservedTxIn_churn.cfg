SPECIFICATION Spec
CONSTANTS
    n1 = n1  n2 = n2  n3 = n3  n4 = n4  v1 = v1
    Node <- Nodes3
    Vault = {v1}
    Asgard = {v1}
    Amount <- Amounts
    Memo <- AllMemos
    NoTx = NoTx
    NoMsg = NoMsg
    Scenarios <- ChurnScenarios
    ObservePoints = 1
    LackPenalty = 10
    Flex = 0
    BaseSlash = 5
    BaseFunds = 3
    MinActive = 2
    MaxHeight = 2
    MaxMsgs = 4
    MaxChurn = 1
SYMMETRY Perms3
INVARIANTS AtMostOnce
PROPERTIES FinalisedByMajority FinalTxStable
CHECK_DEADLOCK FALSE
