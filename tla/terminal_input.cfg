SPECIFICATION FairSpec
CONSTANTS
    Keyboards <- SomeKeyboards
    MaxKeys = 4
    WholeKeys <- SomeWhole
    Width = 3
    Histories <- SomeHistories
    Commands <- SomeCommands
    Models <- SomeModels
    EditorTexts <- SomeEditorTexts
INVARIANTS EventsAreKeys MenusAreCurrent
PROPERTIES DraftComesBack KeysAreDecoded
CHECK_DEADLOCK FALSE
