SPECIFICATION Spec
CONSTANTS
    User = {u}
    Answer = {a, b}
    Cut = cut
    Cwd = {d}
    NativeId = {1, 2}
    Nil = Nil
    MaxTurns = 2
    MaxContext = 3
    Moves = {"evict", "crash", "lose", "fail", "write", "silent"}
INVARIANT AgentKnowsConversation
CHECK_DEADLOCK FALSE
