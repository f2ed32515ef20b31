SPECIFICATION FairSpec
CONSTANTS
    Proc = {p1, p2}
    Group = {g1}
    User = {u1, u2}
    Version = {2}
    MaxRows = 1
    MaxMembers = 1
    MaxCharges = 1
    LevelCap = 0
    Everywhere = {NoProt}
    NoProt = NoProt
    NoUser = NoUser
PROPERTIES
    ArrivalIsNoticed
