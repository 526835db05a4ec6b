SPECIFICATION FairBatchSpec
CONSTANTS
    Threads = {t1, t2}
    Guards = {g1, g2, g3}
    UpdateCalls = {u1, u2, u3}
    Nobody = Nobody
    NoGuard = NoGuard
INVARIANTS BatchTypeOK LockOutlived LockAccounted
PROPERTIES BatchIsOne NobodyWaitsForEver
CHECK_DEADLOCK FALSE
