SPECIFICATION Spec
CONSTANTS
    Attributes = {"attr"}
    Controls = {"ctl"}
    Domains = {"ld1", "ld2"}
    WithSgcb = {"ld1"}
    Callbacks = {f, g}
    ModelEntry = ModelEntry
    None = None
    DataSets = {"ds1", "ds2"}
    Reports = {"rcb1", "rcb2"}
    Logs = {"lcb1"}
    Declared = {"ds2", "rcb2"}
    MaxQueue = 4
INVARIANTS TypeOK ServedOnce
PROPERTIES KeepsPromise
CHECK_DEADLOCK FALSE
