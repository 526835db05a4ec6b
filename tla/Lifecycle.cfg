SPECIFICATION FairSpec
CONSTANTS
    Calls = {c1, c2, c3}
    Settings = {"bind", "tls", "limits", "authenticator", "write_access"}
    Values = {v1}
    Unset = Unset
    Orphaning = FALSE
INVARIANTS TypeOK StartIsAlone OpenHasOwner
PROPERTIES KeepsPromise EveryCallReturns
CHECK_DEADLOCK FALSE
