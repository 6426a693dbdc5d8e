CONSTANTS
    MsgLen = 15
    PacketSize = 2
    SndWindow = 4
    RcvWindow = 3
    TotalPacket = 4
    MaxWindow = 5
    MaxPacket = 1000
    StackGarbage = {0}
    Timely = TRUE
    RcvBuf = 5
    Losable = {"DATA"}
    Duplicable = {}
    Corruptible = {"DATA"}
    Reorders = TRUE
SPECIFICATION FairSpec
CHECK_DEADLOCK FALSE
INVARIANTS AckedIsHeld
PROPERTIES Delivered
