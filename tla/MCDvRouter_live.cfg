CONSTANTS
    N = 3
    MaxCost = 5
    Backlog = 4
    Topology <- Triangle
    Updates <- LinkFlaps
    MaxCommands = 4
    Commands = {"DV", "UPDATE", "SHOW", "RESET", "QUIT", "END"}
    Patient = TRUE
    Floor <- TriangleFloor
SPECIFICATION FairSpec
CHECK_DEADLOCK FALSE
INVARIANTS SettledIsExact VectorsAreCurrent
PROPERTIES Settles QuitEndsAll
