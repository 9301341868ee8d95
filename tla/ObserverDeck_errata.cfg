SPECIFICATION DeckSpec
CONSTANTS
    Tx = {"a", "b"}
    Input <- Inputs
    MaxHeight = 2
PROPERTY ErrataLeavesDeck
CHECK_DEADLOCK FALSE
