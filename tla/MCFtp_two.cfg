CONSTANTS
    c1 = c1
    c2 = c2
    f1 = f1
    f2 = f2
    Clients = {c1, c2}
    Files = {f1, f2}
    Owner = owner
    MaxOpens = 1
    MaxCommands = 5
    MaxBlocks = 2
    Commands = {"open", "auth", "ls", "get", "put", "quit"}
    Stored = {f1}
    FileBlocks = 2
    Writable = {TRUE}
    Unwritable = {f2}
    Punctual = TRUE
    Kills = FALSE
SPECIFICATION Spec
CHECK_DEADLOCK FALSE
SYMMETRY Symmetry
INVARIANTS TypeOK NoWrongHeader ServerSurvives BlocksInPlace
