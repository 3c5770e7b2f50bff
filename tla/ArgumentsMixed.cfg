SPECIFICATION Spec
CONSTANTS
    ByteBits = 6
    MaxArgs = 3
    Arguments <- Mixed
CHECK_DEADLOCK FALSE
INVARIANT ArgumentsArrive
