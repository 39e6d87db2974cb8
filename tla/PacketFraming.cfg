SPECIFICATION FairSpec
CONSTANTS
    Bodies <- MCBodies
    InitKey = 253
    MaxPackets = 3
    MaxReplies = 1
PROPERTIES FramingIsChannel AllDelivered
CHECK_DEADLOCK FALSE
