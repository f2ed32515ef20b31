SPECIFICATION Spec
CONSTANTS
    Proc = {p1, p2}
    Group = {g1}
    User = {u1, u2}
    Version = {2}
    MaxRows = 1
    MaxMembers = 2
    MaxCharges = 1
    LevelCap = 1
    Everywhere = {NoProt}
    NoProt = NoProt
    NoUser = NoUser
SYMMETRY Symmetry
INVARIANTS
    RetryJoins
