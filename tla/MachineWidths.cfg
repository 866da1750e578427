SPECIFICATION Spec
CONSTANTS
    Origin = 32768
    Programs <- MCDrifting
    MaxInstructions = 14
    FollowCalls = TRUE
INVARIANTS
    LabelsAtTheirBytes
CHECK_DEADLOCK FALSE
