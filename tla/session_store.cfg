SPECIFICATION Spec
CONSTANTS
    t1 = t1
    t2 = t2
    s1 = s1
    s2 = s2
    Processes = {t1, t2}
    Ids = {s1, s2}
    Models = {"m1"}
    Thinking = "high"
    Exchanges <- SomeExchanges
    Imported <- SomeImported
    FirstId <- FirstApart
    LastId <- LastApart
    MaxLines = 7
    MaxMessages = 3
    FirstChoice <- FirstChoiceApart
    LastChoice <- OneChoice
    MaxFaults <- FaultsOfOne
    Cuts = {0, 3}
    Faults = {"open", "write", "chmod", "rename", "crash"}
SYMMETRY Symmetry
INVARIANTS Findable
PROPERTIES Promised ReplacedWhole
CHECK_DEADLOCK FALSE
