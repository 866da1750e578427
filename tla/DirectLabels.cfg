SPECIFICATION Spec
CONSTANTS
    PrivateIds = {"_x"}
    BankSize = 65536
    Sources <- MCOutside
    Modules <- MCModules
INVARIANT ReferencesLexical
CHECK_DEADLOCK FALSE
