SPECIFICATION MCSpec
CONSTANTS
    c1 = c1
    c2 = c2
    m1 = m1
    m2 = m2
    Channels = {c1, c2}
    Messages = {m1, m2}
    MaxSockets = 3
    MaxPicks = 2
    MaxLosses = 1
    Limit = 1
    NoChannel = NoChannel
SYMMETRY Symmetry
CHECK_DEADLOCK FALSE
INVARIANT
    NeverMissed
