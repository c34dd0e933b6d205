SPECIFICATION MCSpec
CONSTANTS
    i1 = i1
    i2 = i2
    i3 = i3
    a = a
    b = b
    n1 = n1
    n2 = n2
    t1 = t1
    t2 = t2
    r1 = r1
    r2 = r2
    l1 = l1
    l2 = l2
    v1 = v1
    v2 = v2
    v3 = v3
    Requests = {i1, i2, i3}
    Known = {i1, i2}
    Limits = {0, 1, 2}
    Lifetimes = {4}
    InviteTtl = 2
    Second = 4
    Horizon = 12
    Emails = {a, b}
    Names = {n1, n2}
    Stamps = {t1, t2}
    Registrations = {r1, r2}
    NameOf <- DifferentNames
    EmailOf <- SameEmail
    Links = {l1, l2}
    SentTo <- LinksApart
    Verifications = {v1, v2, v3}
SYMMETRY Logins
INVARIANTS
    CounterSound
    SerialExact
    NotForgottenEarly
    OneAccount
    LinkOnce
    LinkNotBurnt
