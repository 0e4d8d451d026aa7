SPECIFICATION FairSpec
CONSTANTS
    Key = {k, l}
    Client = {c, d}
    Nobody = Nobody
INVARIANTS TypeOK NothingLeftBehind
PROPERTIES NotStoppedInUse RequestEnds IdleSessionReleased
CHECK_DEADLOCK FALSE
