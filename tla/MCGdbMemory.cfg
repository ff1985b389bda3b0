SPECIFICATION GSpec
CONSTANTS
    Size = 4
    Values <- MCValues
    WrapWords = 2
    BufferWords = {17, 19}
    NoWord = NoWord
    Garbage = 255
    Bytes <- MCBytes
    Contents <- MCContents
    Sent <- MCSent
    MaxCmds = 1
INVARIANTS WriteExact ReadReturns
PROPERTY ImplementsMemory
CHECK_DEADLOCK FALSE
