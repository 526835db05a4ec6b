SPECIFICATION FairSpec
CONSTANTS
    Commands = {c1, c2, c3}
    Settings = {"origin"}
    ExclusiveSettings = {"origin"}
    MaxRecords = 2
    Abandoning = TRUE
INVARIANTS TypeOK ExclusiveCarried
PROPERTIES ExclusiveStable EveryCommandEnds
