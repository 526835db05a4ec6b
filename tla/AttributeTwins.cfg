SPECIFICATION Spec
CONSTANTS
    IntBits = 4
    PyValues <- MCPyValues
    MmsValues <- MCMmsValues
    Model <- MCTwins
    Callbacks = {"f"}
    Requests = {o1, o2}
    Defaults <- MCDefaults
    Sent <- MCSent
    Returns <- MCReturns
    Updates <- MCUpdates
    Groups = 2
    PoolSize = 1
INVARIANT OwnCallbackAnswers
