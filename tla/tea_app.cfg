SPECIFICATION FairSpec
CONSTANTS
    Prompts = {"p"}
    Models = {"m"}
    InitialModels = {"none", "m"}
    Commands = {"prompt", "ctrl_c", "quit", "followup", "compact", "reload", "clear", "new", "session", "model", "esc", "enter"}
    MaxKeys = 4
    MaxTurns = 2
    MaxDeltas = 1
    MaxCalls = 1
    MaxSessions = 2
    Versions = {"v1"}
    Faults = {"stream", "calls", "compactor", "panic", "save", "model"}
INVARIANTS ViewIsTrue
PROPERTIES SavesAreSafe PromptComesBack QuitEnds
CHECK_DEADLOCK FALSE
