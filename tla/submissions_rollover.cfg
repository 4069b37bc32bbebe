\* A request read the calendar before the week ended and writes after it.
SPECIFICATION Spec
CONSTANTS
    u1 = u1
    u2 = u2
    u3 = u3
    s1 = s1
    User = {u1, u2, u3}
    Sector = {s1}
    Covers <- CoversFirst
    Admin = {}
    Boards <- BoardsOfSector
    Article = {a1}
    Freeform = Freeform
    Flag = {f1, f2}
    Request = {r1, r2}
    NoFlag = NoFlag
    NoUser = NoUser
    MaxWeek = 2
PROPERTIES
    PastWeeksReadOnly
