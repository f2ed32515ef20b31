SPECIFICATION Spec
CONSTANTS
    Pig = {g1, g2}
    Worker = {p1, p2}
    Look = {l1, l2}
    MaxLevel = 2
    MaxTries = 2
    RowLocks = TRUE
    Marked = {"yesterday"}
    NoPig = NoPig
    NoLook = NoLook
SYMMETRY Symmetry
INVARIANTS
    GrowthMatchesHistory
    RollsAreSerial
    FeedsAreEarned
    OnePigPerDay
PROPERTIES
    ImplementsSerial
