SPECIFICATION Spec
CONSTANTS
    Keyboards <- SplitPastes
    MaxKeys = 4
    WholeKeys <- NoWhole
    Width = 3
    Histories <- SomeHistories
    Commands <- SomeCommands
    Models <- SomeModels
    EditorTexts <- SomeEditorTexts
INVARIANT EventsAreKeys
CHECK_DEADLOCK FALSE
