CONSTANTS
    N = 3
    MaxCost = 5
    Backlog = 2
    Topology <- Line
    Updates <- LinkLost
    MaxCommands = 3
    Commands = {"DV", "UPDATE", "QUIT"}
    Patient = FALSE
    Floor <- LineFloor
SPECIFICATION FairSpec
CHECK_DEADLOCK FALSE
INVARIANTS TypeOK RoutesExplained NoPhantomRoute NobodyEndsUnasked
PROPERTIES SettlesOrCircle
