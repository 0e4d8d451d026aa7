SPECIFICATION FairSpec
CONSTANTS
    f = f
    Call = {c1}
    Tool = {f}
    NoTool = NoTool
    ToolOf <- MCToolOf
    Capacity = 1
    Policies <- MCPolicies
    TurnId = {1}
    Setup = {lookup, bare}
    Bare = bare
    Batches <- MCBatches
    Moves = {"deadline", "request", "close", "evict", "native", "plain", "write"}
INVARIANT PendingNeverPersisted
PROPERTIES ExchangeEnds CancelledTurnCleared CloseReturns
CHECK_DEADLOCK FALSE
