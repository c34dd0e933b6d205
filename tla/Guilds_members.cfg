CONSTANTS
    own = own
    ann = ann
    ben = ben
    o = o
    i1 = i1
    i2 = i2
    i3 = i3
    i4 = i4
    c1 = c1
    q1 = q1
    q2 = q2
    Users = {own, ann}
    Owner = own
    Rows = {o, i1, i2, i3, i4}
    OwnerRow = o
    Custom = {c1}
    Grants = {{"KICK_MEMBERS"}, {"MANAGE_ROLES"}}
    Slots = {q1, q2}
    MaxOps = 4
SYMMETRY Symmetry
SPECIFICATION Spec
INVARIANTS
    GuildIntact
    AdmissionHolds
    OneActiveRow
    NoSelfPromotion
