SPECIFICATION FairSpec
CONSTANTS
    Null = Null
    Blanks = {"", " "}
    Identifier <- MCIdentifier
    Setups <- MCSetups
    Contents <- MCContents
    Configs <- MCConfigs
    Materials <- MCMaterials
    Afters = {0, 300}
    DLT_MAX_ATTEMPTS = 2
    MaxPages = 2
    MaxEdits = 1
    MaxReconfigurations = 1
INVARIANTS
    BlamedForCause
    LandsTheSheet
PROPERTIES
    EveryRunEnds
CHECK_DEADLOCK FALSE
