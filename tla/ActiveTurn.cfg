SPECIFICATION FairSpec
CONSTANTS
    c1 = c1
    c2 = c2
    f = f
    g = g
    Call = {c1, c2}
    Tool = {f, g}
    NoTool = NoTool
    ToolOf <- MCToolOf
    Capacity = 2
    Policies <- MCPolicies
    Batches <- MCBatches
INVARIANTS TypeOK ReleaseNeverBlocks CallHeldOnce ClientCanContinue OneAllowedOffer
PROPERTIES LifecycleSpec CallsSettle TurnEnds
CHECK_DEADLOCK FALSE
