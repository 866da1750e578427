SPECIFICATION Spec
CONSTANTS
    BankSize = 32
    Origin = 96
    BaseAddress = 100
    PrivateIds <- MCPrivate
    Rank <- MCRank
    Programs <- PrivatePrograms
INVARIANTS
    BodiesApart
CHECK_DEADLOCK FALSE
