CONSTANTS
    a1 = a1
    a2 = a2
    s1 = s1
    s2 = s2
    Users = {u1}
    Passwords = {p1, p2}
    DefaultPassword = p0
    DefaultChallenge = 2
    NoLoginPeriod = 1
    PasswordChangePeriod = 1
    UnfreezePeriod = 1
    LockTime = 1
    DayLength = 2
    NoUser = NoUser
    NoRow = NoRow
    Sessions = {s1, s2}
    Admins = {a1}
    AdminType <- MCOneAdmin
    AdminPassword = p0
    AdminChallenge = 2
    Start = 2
    MaxTime = 2
    MaxHistory = 1
    Used <- MCUpdate
    MayDrop = FALSE
    MayCrash = FALSE
SYMMETRY MCSymmetry
SPECIFICATION Spec
PROPERTIES NoReuse
