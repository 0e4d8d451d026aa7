SPECIFICATION Spec
CONSTANTS
    f = f
    Call = {c1}
    Tool = {f}
    NoTool = NoTool
    ToolOf <- MCToolOf
    Capacity = 1
    Policies <- MCPolicies
    TurnId = {1}
    Setup = {lookup, bare}
    Bare = bare
    Batches <- MCBatches
    Moves = {"request"}
PROPERTY DisconnectCancelsOnlyWhileAttached
CHECK_DEADLOCK FALSE
