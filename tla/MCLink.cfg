SPECIFICATION Spec
CONSTANTS
    BankSize = 32
    Origin = 96
    BaseAddress = 100
    PrivateIds <- MCPrivate
    Rank <- MCRank
    Programs <- MCPrograms
INVARIANTS
    TypeOK
    SymbolsFollowTheirBytes
    NamesReachTheirTarget
    PooledBodiesPlaced
    RelocatableModulesApart
    SectionsKeepTheirBytes
PROPERTIES
    Terminates
CHECK_DEADLOCK FALSE
