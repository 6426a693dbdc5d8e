CONSTANTS
    MsgLen = 6
    PacketSize = 2
    SndWindow = 2
    RcvWindow = 2
    TotalPacket = 2
    MaxWindow = 3
    MaxPacket = 1000
    StackGarbage = {0}
    Timely = FALSE
    RcvBuf = 3
    Losable <- EveryKind
    Duplicable <- EveryKindButStart
    Corruptible <- EveryKind
    Reorders = FALSE
SPECIFICATION Spec
CHECK_DEADLOCK FALSE
INVARIANTS WholeFileOrNone
PROPERTIES WindowNeverSlidesBack
