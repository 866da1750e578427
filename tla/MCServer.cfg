SPECIFICATION Spec
CONSTANTS
    Files <- MCFiles
    Openable <- MCOpenable
    Entry = "main"
    Texts <- MCTexts
    Edits <- MCEdits
    Absent = absent
    Closed = closed
    Patient = TRUE
    Handlers <- MCHandlers
    Notifications = 5
INVARIANTS
    TypeOK
    OpenFilesFollow
    IndexFollowsEditor
PROPERTIES
    PoolErrorsAreReal
    HandlersFinish
CHECK_DEADLOCK FALSE
