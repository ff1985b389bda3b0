SPECIFICATION Spec
CONSTANTS
    Size = 2
    Values = {0, 1}
    MaxCount = 2
    ConnectTries = 2
    AttachTries = 2
    NoWord = NoWord
    Faults = {"io", "wait", "hang", "bus", "slow", "reset"}
INVARIANTS NoSilentError AttachWorks
PROPERTY ImplementsMemory
