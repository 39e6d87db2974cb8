SPECIFICATION Spec
CONSTANTS
    Bodies <- MCBodies
    InitKey = 253
    MaxPackets = 3
    MaxReplies = 1
CHECK_DEADLOCK FALSE
INVARIANT PaksAreBodies
