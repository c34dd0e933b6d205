SPECIFICATION MCSpec
CONSTANTS
    t1 = t1
    t2 = t2
    Threads = {t1, t2}
    PortsSize = 8
    Counters = 32
    RangeStart = 3
    RangeStop = 6
    EvenPorts <- AnyEven
    Releases = 3
SYMMETRY Symmetry
INVARIANTS OneOwner NoLeak RingSound
PROPERTY RefusedOnlyWhenFull

CHECK_DEADLOCK FALSE
