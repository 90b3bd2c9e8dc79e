SPECIFICATION FairSpec
CONSTANTS
    Width = 1
    Watchers = {}
    Leavers = {}
    Modes = {"sequential"}
    Holders = {{}}
    MaxUpdates = 0
    Chatty = {1}
PROPERTIES OnePollOnly
CHECK_DEADLOCK FALSE
