SPECIFICATION Spec
CONSTANTS
    BankSize = 4
    Decls <- MCDecls
    Reclaims <- MCReclaims
    Wanted <- MCWanted
    Strategies <- MCStrategies
    MaxRequests = 3
INVARIANTS
    IInv
    NoOverlap
    Conservation
    StaysInBank
    RefusalsExplained
    LayoutReported
    PackStable
PROPERTIES
    KeepsPromise
    Terminates
CHECK_DEADLOCK FALSE
