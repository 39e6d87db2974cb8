SPECIFICATION FairSpec
CONSTANTS
    Reqs = {r1, r2, r3}
    Workers = {w1, w2}
    None = None
INVARIANTS KeptWhileInUse ReleasedWhenServed OnePlace
PROPERTIES ContinuationRuns
CHECK_DEADLOCK FALSE
