CONSTANTS
    MsgLen = 5
    PacketSize = 2
    SndWindow = 2
    RcvWindow = 2
    TotalPacket = 2
    MaxWindow = 3
    MaxPacket = 1000
    StackGarbage = {0}
    Timely = TRUE
    RcvBuf = 4
    Losable = {"DATA_ACK"}
    Duplicable = {}
    Corruptible = {}
    Reorders = FALSE
SPECIFICATION FairSpec
CHECK_DEADLOCK FALSE
PROPERTIES Delivered
