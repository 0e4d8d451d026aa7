SPECIFICATION Spec
CONSTANTS
    f = f
    Call = {c1}
    Tool = {f}
    NoTool = NoTool
    ToolOf <- MCToolOf
    Capacity = 1
    Policies <- MCPolicies
    TurnId = {1, 2}
    Setup = {lookup, bare}
    Bare = bare
    Batches <- MCBatches
    Moves = {"close", "bridge", "hangup", "start"}
INVARIANTS OtherFacadesShut ClosedReleasesAll
PROPERTY EachTurnIsActiveTurn
CHECK_DEADLOCK FALSE
