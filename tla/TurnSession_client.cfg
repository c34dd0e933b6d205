SPECIFICATION LiveSpec
CONSTANTS
    h1 = h1
    h2 = h2
    h3 = h3
    c1 = c1
    c2 = c2
    t1 = t1
    t2 = t2
    Hosts = {h1, h2, h3}
    HostFamily <- TwoFamilies
    Denied = {h3}
    Ports = {1}
    Channels = {c1, c2}
    Tids = {t1}
    Requested = {0}
    SessionTimes = {0}
    ExternalIp = "none"
    PermissionLifetime = 1
    ChannelLifetime = 2
    DefaultLifetime = 2
    MinLifetime = 2
    MaxLifetime = 2
    AllocateTimeout = 1
    NoTid = NoTid
    NoChannel = NoChannel
    NoPeer = NoPeer
INVARIANTS TrafficCovered NothingLeftBehind
PROPERTIES LeaseSpec WatchdogEnds
