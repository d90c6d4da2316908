CONSTANTS
    Size = 3
    Bytes = {65}
    EOFByte = 255
    Timeouts <- MCTimeouts
    PartialSends = FALSE
    Signals = FALSE
    MaxWritten = 4
    MaxSent = 1
SPECIFICATION Spec
INVARIANT Reliable
CHECK_DEADLOCK FALSE
