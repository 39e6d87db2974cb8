SPECIFICATION FairSpec
CONSTANTS
    h1 = h1
    h2 = h2
    Handles <- MCHandles
    Unrefs = {"timer", "signal", "async", "process", "udp"}
    Readers = {"tcp", "tty"}
    MaxSignals = 2
    None = None
    Programs <- MCPrograms
INVARIANTS KeptUntilClosed CleanUseIsSafe LoopCloseIsLast
PROPERTIES ClosedIsQuiet CloseFinishes
