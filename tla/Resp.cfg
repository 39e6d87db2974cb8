SPECIFICATION Spec
CONSTANTS
    Replies <- Sendable
    MaxReplies = 3
INVARIANTS InStep
CHECK_DEADLOCK FALSE
