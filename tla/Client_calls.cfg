SPECIFICATION MCSpec
CONSTANTS
    c1 = c1
    c2 = c2
    t1 = t1
    t2 = t2
    t3 = t3
    Channels = {c1, c2}
    Messages = {}
    MaxSockets = 3
    MaxPicks = 3
    MaxLosses = 1
    Limit = 1
    NoChannel = NoChannel
    Calls = {t1, t2, t3}
    MaxRooms = 3
    MaxMounts = 2
CHECK_DEADLOCK FALSE
INVARIANT
    NobodyLeftBehind
PROPERTY
    RetriesEnd
