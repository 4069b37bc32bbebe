\* Two requests at a time on the digests of an admin who is also an analyst;
\* u2 may be the lead of the sector and u3 is another admin. The week ends once.
SPECIFICATION Spec
CONSTANTS
    u1 = u1
    u2 = u2
    u3 = u3
    s1 = s1
    User = {u1, u2, u3}
    Sector = {s1}
    Covers <- CoversFirst
    Admin = {u1, u3}
    Boards <- BoardsOfSector
    Article = {a1}
    Freeform = Freeform
    Flag = {f1, f2}
    Request = {r1, r2}
    NoFlag = NoFlag
    NoUser = NoUser
    MaxWeek = 2
SYMMETRY RequestSymmetry
INVARIANTS
    TypeOK
    DigestComplete
    DeliveredIffSent
    ArticleOnce
    AckNotifiesAuthor
PROPERTIES
    WeeklySpec
