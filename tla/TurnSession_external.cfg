SPECIFICATION Spec
CONSTANTS
    h1 = h1
    h2 = h2
    h3 = h3
    c1 = c1
    c2 = c2
    t1 = t1
    t2 = t2
    Hosts = {h1, h2}
    HostFamily <- TwoFamilies
    Denied = {}
    Ports = {1}
    Channels = {c1}
    Tids = {t1, t2}
    Requested = {0, 1, 4}
    SessionTimes = {0, 1}
    ExternalIp = "v4"
    PermissionLifetime = 1
    ChannelLifetime = 2
    DefaultLifetime = 2
    MinLifetime = 2
    MaxLifetime = 3
    AllocateTimeout = 1
    NoTid = NoTid
    NoChannel = NoChannel
    NoPeer = NoPeer
INVARIANT AnswerHolds
