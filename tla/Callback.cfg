SPECIFICATION FairSpec
CONSTANTS
    Commands = {"o1", "o2", "o3", "o4"}
    Objects = {"breaker", "switch", "lamp"}
    ObjectOf <- MCObjectOf
    Enhanced = {"breaker"}
    Waiting = {"breaker", "switch"}
    TimeLimited = {"breaker", "switch"}
    PoolSize = 2
INVARIANTS TypeOK OutcomeIsTrue OverlapIsAbandoned
PROPERTIES EveryCommandEnds
CHECK_DEADLOCK FALSE
