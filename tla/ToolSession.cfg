SPECIFICATION Spec
CONSTANTS
    f = f
    Call = {c1}
    Tool = {f}
    NoTool = NoTool
    ToolOf <- MCToolOf
    Capacity = 1
    Policies <- MCPolicies
    TurnId = {1, 2}
    Setup = {lookup, bare}
    Bare = bare
    Batches <- MCBatches
    Moves = {"deadline","request","evict","text","error","start"}
INVARIANTS OnePromptAtATime OnlyActiveTurnLives PendingTurnContinuable WatcherSparesNewTurn
CHECK_DEADLOCK FALSE
