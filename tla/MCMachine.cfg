SPECIFICATION Spec
CONSTANTS
    Origin = 32768
    Programs <- MCPrograms
    MaxInstructions = 14
    FollowCalls = TRUE
INVARIANTS
    SteadyLabels
    ListingIsTheProgram
    WalkFindsTheFunction
CHECK_DEADLOCK FALSE
