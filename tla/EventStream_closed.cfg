SPECIFICATION Spec
CONSTANTS
    c1 = c1
    c2 = c2
    e1 = e1
    e2 = e2
    b1 = b1
    b2 = b2
    Client <- MCClient
    EventType <- MCEventType
    Broadcast <- MCBroadcast
CHECK_DEADLOCK FALSE
INVARIANTS ClosedChannelIsPassedOver
