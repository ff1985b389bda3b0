CONSTANTS
    Agents <- MCAgents
    None = None
    Mistaken <- MCMistaken
    MaxCommands = 1
    MaxFaults = 1
SPECIFICATION Spec
INVARIANTS FlashRight EraseExact
CHECK_DEADLOCK FALSE
