SPECIFICATION Spec
CONSTANTS
    Addresses = {a1, a2, a3}
    CodeAddresses = {a1, a2}
    Fpbs = 1
    Dwts = 2
    WatchLimit = 1
    None = None
    a1 = a1
    a2 = a2
    a3 = a3
INVARIANTS Tracked HeldOnce NoStray
