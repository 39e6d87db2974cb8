SPECIFICATION FairSpec
CONSTANTS
    Gets = {g1, h1}
    HGetAlls = {h1}
    Sets = {s1}
    Callers = {f1, f2}
    TIMEOUT = 1
    Faults = {"error", "eof", "refused", "raise"}
    MaxTime = 1
    MaxFaults = 2
    MaxSets = 2
INVARIANTS SendListIsSent RightAnswer KeptOrCalled DbSelected
PROPERTIES Answered
CHECK_DEADLOCK FALSE
