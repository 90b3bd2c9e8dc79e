SPECIFICATION FairSpec
CONSTANTS
    MaxLines = 2
    MaxBytes = 5
    Policy <- SomePolicy
    a1 = a1
    a2 = a2
    Agents = {a1, a2}
    MaxAttempts = 2
    StaleNames <- SomeStale
    Agendas <- SomeAgendas
    Earlier <- SomeEarlier
    Spelling <- SomeSpelling
    PathOrder <- SomeOrder
    InitialFiles <- SomeFiles
    InitialDirs <- SomeDirs
    MaxCalls = 1
INVARIANTS CapturesAreOwn ExchangeIsSound
PROPERTIES ResultsAreTrue CommandSettles
CHECK_DEADLOCK FALSE
