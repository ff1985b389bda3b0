SPECIFICATION DSpec
CONSTANTS
    Callers = {console, monitor}
    Monitor = monitor
    Parsers = {console}
    Handles = {h1, h2}
    NULL = NULL
    SeqMod = 3
    Sizes = {512}
    DefaultSize = 512
    PipeCap = 1
    Faults = {"write", "read", "lose", "noise", "unplug", "spurious"}
SYMMETRY Symmetry
INVARIANTS OwnReply
