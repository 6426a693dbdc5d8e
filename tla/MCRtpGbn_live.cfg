CONSTANTS
    MsgLen = 6
    PacketSize = 2
    SndWindow = 2
    RcvWindow = 3
    TotalPacket = 2
    MaxWindow = 4
    MaxPacket = 1000
    StackGarbage = {0}
    Timely = TRUE
    RcvBuf = 4
    Losable = {"DATA"}
    Duplicable = {}
    Corruptible = {"DATA"}
    Reorders = FALSE
SPECIFICATION FairSpec
CHECK_DEADLOCK FALSE
PROPERTIES Delivered
