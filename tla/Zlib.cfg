SPECIFICATION ZlibSpec
CONSTANTS
    MaxIn = 6
    Chunks = {0, 3}
    Rooms = {0, 1, 4}
    LookMax = 3
    MinMatch = 2
    DictSize = 4
    LzMax = 4
    MaxOut = 5
    Streams <- MCStreams
    HeapStart = 2
    ReadSize = 2
    Ahead = 3
    MaxJunk = 2
    Pieces = {0, 1, 3}
    Spaces = {0, 1, 5}
    Asks = {"none", "finish"}
INVARIANTS NothingLost ReceivesContent EndIsWhole RoundTrip
PROPERTIES Progress
CHECK_DEADLOCK FALSE
