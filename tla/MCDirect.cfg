SPECIFICATION Spec
CONSTANTS
    PrivateIds = {"_x"}
    BankSize = 65536
    Sources <- MCSources
    Modules <- MCModules
INVARIANTS
    TypeOK
    ReferencesReach
    LabelsWhereEmitted
    BytesOnceInPlace
    ModulesAtImport
CHECK_DEADLOCK FALSE
