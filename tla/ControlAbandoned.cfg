SPECIFICATION Spec
CONSTANTS
    Commands = {c1, c2}
    Settings = {"origin"}
    ExclusiveSettings = {"origin"}
    MaxRecords = 2
    Abandoning = TRUE
INVARIANTS NewestInForce
