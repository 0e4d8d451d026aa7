SPECIFICATION Spec
CONSTANTS
    User = {u}
    Answer = {a, b}
    Cut = cut
    Cwd = {d, e}
    NativeId = {1, 2}
    Nil = Nil
    MaxTurns = 2
    MaxContext = 3
    Moves = {"evict", "restart", "lose", "silent"}
INVARIANTS TypeOK AgentSeesConversation StoreFollowsSession
PROPERTY MatchingHistoryResumes
CHECK_DEADLOCK FALSE
