SPECIFICATION Spec
CONSTANTS
    Paths = {"tools"}
    Capacity = 2
    Backlog = 2
    MaxSaid = 1
    MaxBeats = 1
INVARIANT TextBeforeCallIncluded
CHECK_DEADLOCK FALSE
