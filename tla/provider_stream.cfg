SPECIFICATION FairSpec
CONSTANTS
    Adapters = {"openrouter", "local", "command-code"}
    Bodies <- SomeBodies
    Replies <- SomeReplies
    MaxRetries = 2
    MayCancel = TRUE
INVARIANTS AnswerIsTrue NothingHeldBack
PROPERTIES StreamEnds
CHECK_DEADLOCK FALSE
