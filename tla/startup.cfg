SPECIFICATION FairSpec
CONSTANTS
    Instance = {i1, i2}
    Column <- Columns
    MaxCrashes = 2
    MaxRows = 1
    Nobody = Nobody
INVARIANTS
    AlwaysUnique
    ReadyIsMigrated
PROPERTIES
    ComesUp
