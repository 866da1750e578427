SPECIFICATION Spec
CONSTANTS
    Modules <- MCModules
    NameRank <- MCRank
    Sources <- MCSources
    Home <- MCHome
    Assets <- MCAssets
    Texts <- MCTexts
    Contents <- MCContents
    Absent = absent
    Losable <- MCLosable
INVARIANTS
    TypeOK
    NothingLeftDirty
    RecompiledTogether
PROPERTIES
    OrderIsSound
    BuildsLikeClean
    Terminates
