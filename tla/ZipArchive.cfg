SPECIFICATION Spec
CONSTANT
    Uses <- MCUses
INVARIANTS  ReaderStays
 
CHECK_DEADLOCK FALSE
