CONSTANTS
    MsgLen = 9
    PacketSize = 2
    SndWindow = 3
    RcvWindow = 2
    TotalPacket = 2
    MaxWindow = 3
    MaxPacket = 1000
    StackGarbage = {0}
    Timely = FALSE
    RcvBuf = 2
    Losable <- EveryKind
    Duplicable <- EveryKindButStart
    Corruptible <- EveryKind
    Reorders = TRUE
SPECIFICATION Spec
CHECK_DEADLOCK FALSE
INVARIANTS TypeOK FileInv WholeFileOrNone
PROPERTIES ImplementsTransfer
