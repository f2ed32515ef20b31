SPECIFICATION Spec
CONSTANTS
    Pig = {g1, g2}
    Worker = {p1, p2}
    Look = {l1, l2}
    MaxLevel = 2
    MaxTries = 3
    RowLocks = FALSE
    Marked = {"yesterday"}
    NoPig = NoPig
    NoLook = NoLook
SYMMETRY Symmetry
INVARIANTS
    GrowthMatchesHistory
