CONSTANTS
    c1 = c1
    c2 = c2
    f1 = f1
    Clients = {c1, c2}
    Files = {f1}
    Owner = owner
    MaxOpens = 1
    MaxCommands = 4
    MaxBlocks = 2
    Commands = {"open", "badauth"}
    Stored = {f1}
    FileBlocks = 1
    Writable = {TRUE}
    Unwritable = {}
    Punctual = TRUE
    Kills = FALSE
SPECIFICATION Spec
CHECK_DEADLOCK FALSE
INVARIANTS ServerSurvives
