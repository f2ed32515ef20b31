SPECIFICATION Spec
CONSTANTS
    Proc = {p1, p2}
    Group = {g1}
    User = {u1, u2}
    Version = {0, 2}
    MaxRows = 1
    MaxMembers = 2
    MaxCharges = 1
    LevelCap = 1
    Everywhere = {0, NoProt}
    NoProt = NoProt
    NoUser = NoUser
SYMMETRY Symmetry
INVARIANTS
    FiresWithItsFire
    NoStrandedReservation
    NeedTracksProtection
    NoticeMeansWaiting
    UsesBuyRows
