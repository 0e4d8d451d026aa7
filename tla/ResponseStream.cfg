SPECIFICATION FairSpec
CONSTANTS
    Paths = {"plain", "tools"}
    Capacity = 2
    Backlog = 2
    MaxSaid = 2
    MaxBeats = 1
INVARIANTS EachPieceOnce ClientHasTranscript NothingAfterDone
PROPERTY HandlerReturns
CHECK_DEADLOCK FALSE
