SPECIFICATION FairSpec
CONSTANTS
    Callers = {console, monitor}
    Monitor = monitor
    Parsers = {}
    Handles = {h1}
    NULL = NULL
    SeqMod = 3
    Sizes = {512}
    DefaultSize = 512
    PipeCap = 1
    Faults = {"unplug"}
PROPERTIES CallsReturn ComesOnline
