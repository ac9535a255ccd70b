SPECIFICATION UdpgwSpec
CONSTANTS
    GKeys = {"k1", "k2"}
    MaxFrames = 3
    ChanCap = 1
PROPERTY UdpgwReadersEnd
CHECK_DEADLOCK FALSE
