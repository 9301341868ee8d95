SPECIFICATION Spec
CONSTANTS
    me = me  p1 = p1  p2 = p2
    Node <- MCNode
    Me = me
    ActiveSets <- MCActive
    MinTimeBetweenAttestations = 0
    LateObserveTimeout = 1
    NonQuorumTimeout = 2
    MaxFaults = 1
    NoState = NoState
INVARIANTS TypeOK QuorumIsSent
PROPERTIES DeckDrains StatesArePruned
