CONSTANTS
    c1 = c1
    f1 = f1
    f2 = f2
    f3 = f3
    Clients = {c1}
    Files = {f1, f2, f3}
    Owner = owner
    MaxOpens = 2
    MaxCommands = 7
    MaxBlocks = 3
    Commands = {"open", "badopen", "usage", "auth", "badauth", "ls", "get", "put", "quit", "exit"}
    Stored = {f1}
    FileBlocks = 2
    Writable = {TRUE, FALSE}
    Unwritable = {f3}
    Punctual = FALSE
    Kills = TRUE
SPECIFICATION FairSpec
CHECK_DEADLOCK FALSE
INVARIANTS NoFileWithoutLogin ClientKnowsLogin ServerEndsOnlyByLoss MisplacedOnlyByLoss TransfersExact
PROPERTIES CommandsEnd
