CONSTANTS
    N = 4
    Links <- Kite
SPECIFICATION FairSpec
CHECK_DEADLOCK FALSE
INVARIANTS TypeOK OrderlyStartIsSafe LinkEndsMatch
PROPERTIES EveryoneGetsReady QuitEndsAll
