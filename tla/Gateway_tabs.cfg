CONSTANTS
    ann = ann
    ben = ben
    s1 = s1
    s2 = s2
    c1 = c1
    Users = {ann, ben}
    Sockets = {s1, s2}
    Channels = {c1}
    Guilds = {g1}
    UserOf <- TwoTabs
    CreatorOf <- ByBen
    UserRoom = UserRoom
SPECIFICATION MCSpec
INVARIANTS
    MemberPresent
    PresentListed
    OnlinePresent
PROPERTY
    DepartedForgotten
