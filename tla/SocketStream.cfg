CONSTANTS
    Size = 3
    Bytes = {65, 255}
    EOFByte = 255
    Timeouts <- MCTimeouts
    PartialSends = TRUE
    Signals = TRUE
    MaxWritten = 6
    MaxSent = 4
SPECIFICATION MCFairSpec
INVARIANT TypeOK AccountedFor
PROPERTY ReadsChannel EverythingArrives
CHECK_DEADLOCK FALSE
