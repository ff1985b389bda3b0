CONSTANTS
    MaxPkt = 9
    Commands <- MCCommands
    Replies <- MCReplies
    NoAck <- MCNoAck
    Noise <- MCNoise
    MaxSent = 3
    MaxFaults = 1
SPECIFICATION Spec
INVARIANTS TypeOK Once TxWhole
PROPERTY Handled
CHECK_DEADLOCK FALSE
