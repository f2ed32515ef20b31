SPECIFICATION Spec
CONSTANTS
    Client = {c1, c2}
    Granted = {1, 2}
    MaxLevel = 3
    Streak = {1}
    MaxHits = 2
    MaxFire = 3
    Nobody = Nobody
SYMMETRY Symmetry
INVARIANTS
    LevelsTellHistory
    NeedFollowsLevel
    NoticesAreTimely
