SPECIFICATION Spec
CONSTANTS
    Modules <- MCModules
    NameRank <- MCRank
    Sources <- MCSources
    Home <- MCHome
    Assets <- MCAssets
    Texts <- StaleTexts
    Contents <- MCContents
    Absent = absent
    Losable <- MCLosable
PROPERTIES
    BuildsLikeClean
