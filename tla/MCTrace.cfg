CONSTANTS
    LineMax = 3
    PrintMax = 2
    Packets <- MCPackets
    MaxEvents = 4
    MaxLosses = 1
    MaxWaiting = 2
SPECIFICATION Spec
INVARIANTS Decoded Printed SocketsAlive Fanned
PROPERTY LetsGo
CHECK_DEADLOCK FALSE
