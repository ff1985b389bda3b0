CONSTANTS
    StepNoInts = {0, 2}
    MaxAttn = 1
    Threads = {"t1", "t2"}
    Rings <- MCRings
    BadMagic <- MCBad
    Nobody = Nobody
    MaxCommands = 3
    MaxFaults = 1
SPECIFICATION Spec
INVARIANTS NeverStranded InStep RecordsSafe ListComplete OneStep
PROPERTIES StopIsTrue MaskApart StopArrives
CHECK_DEADLOCK FALSE
