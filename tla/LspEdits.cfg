SPECIFICATION Spec
CONSTANTS
    Files <- MCFiles
    Openable <- MCOpenable
    Entry = "main"
    Texts <- MCTexts
    Edits <- MCEdits
    Absent = absent
    Closed = closed
    Patient = FALSE
    Handlers <- MCHandlers
    Notifications = 5
INVARIANTS
    ServerFollowsEditor
CHECK_DEADLOCK FALSE
