SPECIFICATION FairSpec
CONSTANTS
    MaxLines = 2
    MaxBytes = 5
    Policy <- TightPolicy
    a1 = a1
    a2 = a2
    Agents = {a1, a2}
    MaxAttempts = 2
    StaleNames <- SomeStale
    Agendas <- OnlyMissing
    Earlier <- Nothing
    Spelling <- SomeSpelling
    PathOrder <- SomeOrder
    InitialFiles <- SomeFiles
    InitialDirs <- SomeDirs
    MaxCalls = 2
INVARIANTS TotalIsMaximum
CHECK_DEADLOCK FALSE
