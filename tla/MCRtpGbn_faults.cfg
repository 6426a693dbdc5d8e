CONSTANTS
    MsgLen = 7
    PacketSize = 2
    SndWindow = 3
    RcvWindow = 2
    TotalPacket = 3
    MaxWindow = 4
    MaxPacket = 1000
    StackGarbage = {0}
    Timely = FALSE
    RcvBuf = 3
    Losable <- EveryKind
    Duplicable <- EveryKindButStart
    Corruptible <- EveryKind
    Reorders = TRUE
SPECIFICATION Spec
CHECK_DEADLOCK FALSE
INVARIANTS TypeOK AckedIsHeld FileIsPrefix WholeFileOrNone EndMeansAllHeld FileInv
PROPERTIES ImplementsTransfer
