SPECIFICATION Spec
CONSTANTS
    Objects = {o1, o2}
    Handles = {h1, h2, h3}
    Funcs = {f1}
    None = None
    Delays <- MCDelays
    Intervals = {0, 1}
    MaxTime = 1
INVARIANTS Coherent
PROPERTIES TicksDrained StaysStopped TicksAreQueue NotOvertaken
