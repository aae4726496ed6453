SPECIFICATION FairSpec
CONSTANTS
    DrainLimit = 2
    MaxOutput = 5
    OutputCap = 1
    ChannelCap = 1
    FrameCap = 1
    SocketCap = 1
    ControlCap = 1
    QueueCap = 1
CHECK_DEADLOCK FALSE

    
PROPERTIES
    LockIsReleased
    CancelledSettles
