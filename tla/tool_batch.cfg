SPECIFICATION FairSpec
CONSTANTS
    Width = 2
    Watchers = {1}
    Leavers = {1}
    Modes = {"sequential", "parallel"}
    Holders = {{}, {0, 3}}
    MaxUpdates = 2
    Chatty = {1}
INVARIANTS BatchIsWhole UpdateWakes AbortWakes
PROPERTIES BatchSettles
CHECK_DEADLOCK FALSE
