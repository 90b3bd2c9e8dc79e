SPECIFICATION FairSpec
CONSTANTS
    Scenarios <- SomeScenarios
INVARIANTS LogIsComplete AnsweredWhenAsked InputOnceInOrder CompactionIsSafe
PROPERTIES Promised RunSettles
CHECK_DEADLOCK FALSE
