SPECIFICATION DeckSpec
CONSTANTS
    Tx = {"a", "b"}
    Input <- Inputs
    MaxHeight = 2
INVARIANTS DeckTypeOK DeckSurvivesRestart DiskHoldsDeckOrErrata
CHECK_DEADLOCK FALSE
